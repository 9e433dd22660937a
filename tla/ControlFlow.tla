----------------------------- MODULE ControlFlow -----------------------------
(***************************************************************************)
(* A compiled function at run time.  Lowering turns a function body into   *)
(* basic blocks; here they are executed, one instruction or branch a step, *)
(* to see what the analyses of the type checker and the bookkeeping of the *)
(* code generator promise of them: that a body judged terminating does not *)
(* run off its end, that arenas and the objects of locals are freed once,  *)
(* on every way out, and that deferred calls run as in Go.                 *)
(***************************************************************************)
EXTENDS Lowering

CONSTANTS
    Programs,   \* the function bodies considered
    MaxDefers   \* defers executed in one call that are considered

ASSUME DefersAssumption == MaxDefers \in Nat

VARIABLES
    body,   \* the function body
    blocks, \* its basic blocks
    pc,     \* the block and the instruction about to run; <<0, 0>> when done
    live,   \* the arenas that exist and the locals that hold an object
    stale,  \* the locals whose slot still points to an object that is freed
    active, \* the defers whose flag is set
    frame,  \* goo_defer_frame_t: the calls pushed, oldest first
    called, \* the deferred calls that have been made
    defers  \* history: the defer statements executed

vars == <<body, blocks, pc, live, stale, active, frame, called, defers>>
heap == <<live, stale>>
deferral == <<active, frame, called, defers>>

Init ==
    /\ \E p \in {q \in Programs : type_check_body(q)} : \E cg \in {Generate(p)} :
          Compiles(cg) /\ body = p /\ blocks = cg.blocks
    /\ pc = <<1, 1>>
    /\ live = {} /\ stale = {}
    /\ active = {} /\ frame = <<>> /\ called = <<>> /\ defers = <<>>

Running == pc[1] # 0
Block_ == blocks[pc[1]]
AtTerminator == Running /\ pc[2] > Len(Block_.ev)
Instruction == IF Running /\ ~AtTerminator THEN Block_.ev[pc[2]] ELSE <<"none">>

Advance == pc' = <<pc[1], pc[2] + 1>> /\ UNCHANGED <<body, blocks>>

(* goo_arena_new, goo_arena_alloc, goo_arena_free: of an arena only its     *)
(* existence is kept.                                                       *)
ArenaNew ==
    /\ Instruction[1] = "new"
    /\ live' = live \cup {Instruction[2]}
    /\ Advance /\ UNCHANGED <<stale, deferral>>
ArenaAlloc == Instruction[1] = "use" /\ Advance /\ UNCHANGED <<heap, deferral>>
ArenaFree ==
    /\ Instruction[1] = "free"
    /\ live' = live \ {Instruction[2]}
    /\ Advance /\ UNCHANGED <<stale, deferral>>

(* A new object goes into the slot of a local; it is read; it is released. *)
(* goo_release does nothing for the NULL of a slot never stored to or      *)
(* cleared.                                                                *)
StoreLocal ==
    /\ Instruction[1] = "store"
    /\ live' = live \cup {Instruction[2]}
    /\ stale' = stale \ {Instruction[2]}
    /\ Advance /\ UNCHANGED deferral
ReadLocal == Instruction[1] = "read" /\ Advance /\ UNCHANGED <<heap, deferral>>
Release ==
    /\ Instruction[1] = "release"
    /\ live' = live \ {Instruction[2]}
    /\ stale' = IF Instruction[3] THEN stale \ {Instruction[2]}
                ELSE stale \cup (live \cap {Instruction[2]})
    /\ Advance /\ UNCHANGED deferral

(* A defer statement sets its flag, or pushes its call; at an exit, the    *)
(* calls whose flag is set are made, or those of the frame, newest first.  *)
DeferActivate ==
    /\ Instruction[1] = "activate" /\ Len(defers) < MaxDefers
    /\ active' = active \cup {Instruction[2]}
    /\ defers' = Append(defers, Instruction[2])
    /\ Advance /\ UNCHANGED <<heap, frame, called>>
goo_defer_push ==
    /\ Instruction[1] = "push" /\ Len(defers) < MaxDefers
    /\ frame' = Append(frame, Instruction[2])
    /\ defers' = Append(defers, Instruction[2])
    /\ Advance /\ UNCHANGED <<heap, active, called>>
DeferCall ==
    /\ Instruction[1] = "call"
    /\ called' = IF Instruction[2] \in active THEN Append(called, Instruction[2]) ELSE called
    /\ Advance /\ UNCHANGED <<heap, active, frame, defers>>
goo_defer_run ==
    /\ Instruction[1] = "run"
    /\ called' = called \o Reverse(frame)
    /\ frame' = <<>>
    /\ Advance /\ UNCHANGED <<heap, active, defers>>

(* A statement outside arena blocks, or the return about to be added.      *)
Execute == Instruction[1] \in {"heap", "end"} /\ Advance /\ UNCHANGED <<heap, deferral>>

(* goo_panic prints its message and aborts the process.                    *)
Panic ==
    /\ Instruction[1] = "panic"
    /\ pc' = <<0, 0>>
    /\ UNCHANGED <<body, blocks, heap, deferral>>

Branch ==
    /\ AtTerminator /\ Block_.t = "br"
    /\ \E b \in Block_.to : pc' = <<b, 1>>
    /\ UNCHANGED <<body, blocks, heap, deferral>>

Returning == AtTerminator /\ Block_.t = "ret"
Return ==
    /\ Returning
    /\ pc' = <<0, 0>>
    /\ UNCHANGED <<body, blocks, heap, deferral>>

Next ==
    \/ ArenaNew \/ ArenaAlloc \/ ArenaFree \/ StoreLocal \/ ReadLocal \/ Release
    \/ DeferActivate \/ goo_defer_push \/ DeferCall \/ goo_defer_run
    \/ Execute \/ Panic \/ Branch \/ Return

Spec == Init /\ [][Next]_vars

-----------------------------------------------------------------------------
(* A function whose body was judged terminating never reaches the return   *)
(* that the code generator adds at the end of an open body, and never runs *)
(* into a block marked unreachable.                                        *)
NeverFallsOff ==
    /\ Instruction[1] = "end" => ~stmt_is_terminating(body)
    /\ AtTerminator => Block_.t # "unreachable"

(* On no path is an arena freed or used that does not exist, or a local    *)
(* released or read whose object is gone: nothing is freed twice and       *)
(* nothing used after it was freed.                                        *)
AliveWhenUsed ==
    /\ Instruction[1] \in {"free", "use", "read"} => Instruction[2] \in live
    /\ Instruction[1] = "release" => Instruction[2] \notin stale

(* On every way out of an arena block the arena is freed, and on every way *)
(* out of the scope of a local its object is: none is left when the        *)
(* function returns, and none is lost when the block is entered once more. *)
ReleasedOnExit ==
    /\ Instruction[1] \in {"new", "store"} => Instruction[2] \notin live
    /\ Returning => live = {}

(* When the function returns, every defer statement it executed has had    *)
(* its call made once for each time, in the reverse order: the per-defer   *)
(* flags, which know no order, and the run-time stack agree with Go.       *)
DefersAsInGo == Returning => called = Reverse(defers)

-----------------------------------------------------------------------------
(***************************************************************************)
(* The meaning of a statement in Go, as the set of ways control may leave  *)
(* it: Next_, Out (a return or a panic), Through (fallthrough), and        *)
(* <<"break", l>> or <<"continue", l>>, l the label or NoLabel for the     *)
(* innermost scope.  Without goto.                                         *)
(***************************************************************************)
Next_ == <<"next", NoLabel>>
Out == <<"return", NoLabel>>
Through == <<"fallthrough", NoLabel>>
Exits(kind, labels) == {<<kind, l>> : l \in labels \cup {NoLabel}}

RECURSIVE Leaves(_, _)

RECURSIVE ListLeaves(_)
ListLeaves(list) ==
    IF list = <<>> THEN {Next_}
    ELSE LET first == Leaves(Head(list), {})
         IN  IF Next_ \in first THEN (first \ {Next_}) \cup ListLeaves(Tail(list)) ELSE first

RECURSIVE ClauseLeaves(_, _)
ClauseLeaves(clauses, i) ==
    LET ways == ListLeaves(clauses[i])
    IN  IF Through \in ways THEN (ways \ {Through}) \cup ClauseLeaves(clauses, i + 1) ELSE ways

Leaves(s, labels) ==
    CASE s.k \in {"plain", "comptime", "declare", "assign", "read", "defer"} -> {Next_}
      [] s.k \in {"return", "panic"} -> {Out}
      [] s.k \in {"fallthrough", "break", "continue"} -> {<<s.k, NoLabel>>}
      [] s.k = "breakL" -> {<<"break", s.l>>}
      [] s.k = "continueL" -> {<<"continue", s.l>>}
      [] s.k = "label" ->
            IF s.parts[1] = <<>> THEN {Next_} ELSE Leaves(s.parts[1][1], labels \cup {s.l})
      [] s.k \in {"block", "unsafe", "arena"} -> ListLeaves(s.parts[1])
      [] s.k \in {"if", "iflet"} ->
            UNION {ListLeaves(s.parts[i]) : i \in DOMAIN s.parts}
            \cup (IF Len(s.parts) = 2 THEN {} ELSE {Next_})
      [] s.k = "for" ->
            LET ways == ListLeaves(s.parts[1])
            IN  (ways \ ({Next_} \cup Exits("break", labels) \cup Exits("continue", labels)))
                \cup (IF s.n = 1 \/ ways \cap Exits("break", labels) # {} THEN {Next_} ELSE {})
      [] s.k \in {"switch", "tswitch", "select"} ->
            LET ways == UNION {ClauseLeaves(s.parts, i) : i \in DOMAIN s.parts}
            IN  (ways \ Exits("break", labels))
                \cup (IF \/ s.n = 0 /\ s.k # "select"
                         \/ ways \cap Exits("break", labels) # {}
                      THEN {Next_} ELSE {})

(* Where there is no goto, the compiled function reaches its end only if   *)
(* the statements of the body, read as Go reads them, let control get      *)
(* there: each break and continue leaves the statement it names.           *)
EndsAsInGo ==
    Instruction[1] = "end" /\ ~contains_goto(body) => Next_ \in Leaves(body, {})
=============================================================================
