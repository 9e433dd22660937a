------------------------------ MODULE Lowering ------------------------------
(***************************************************************************)
(* From a function body to its basic blocks: the label, goto, fallthrough  *)
(* and arena rules of the type checker (src/types/type_checker.c), the     *)
(* control-flow context (src/codegen/cfctx.c) and the statement part of    *)
(* the code generator (src/codegen/statement_codegen.c).                   *)
(*                                                                         *)
(* A basic block is its instructions `ev`, its terminator `t` ("open" when *)
(* it has none yet) and the blocks `to` it may branch to.  Of the          *)
(* instructions only those are kept that a property tells apart: creating, *)
(* using and freeing an arena, storing, reading and releasing the heap     *)
(* object of a local, registering and running deferred calls, a call of    *)
(* panic, and "end" for the return the code generator adds where a body    *)
(* has none.  A condition is a free choice among the branches.             *)
(***************************************************************************)
EXTENDS Terminating, SequencesExt

CONSTANTS
    MaxFrames,   \* break scopes the generator nests: 32 in the code
    MaxArenas,   \* arena blocks the generator and the checker track: 16
    MaxLabels    \* labels of one function: 64

ASSUME LimitsAssumption ==
    MaxFrames \in Nat \ {0} /\ MaxArenas \in Nat \ {0} /\ MaxLabels \in Nat \ {0}

-----------------------------------------------------------------------------
(* Type checker.                                                           *)

(* The chain of arena blocks inside s: the ones past the limit are not on  *)
(* it.                                                                     *)
arena_chain(s, chain) ==
    IF s.k = "arena" /\ Len(chain) < MaxArenas THEN Append(chain, s.l) ELSE chain

(* type_check_collect_goto_labels: every label of the function, with the   *)
(* arena blocks it lies in, outermost first.  A function with more labels  *)
(* than the table holds is rejected in type_check_body.                    *)
RECURSIVE collect_goto_labels(_, _)
collect_goto_labels(s, chain) ==
    LET inner == arena_chain(s, chain)
        all == FlattenSeq(s.parts)
    IN  (IF s.k = "label" THEN <<[l |-> s.l, chain |-> chain]>> ELSE <<>>)
        \o FlattenSeq([i \in DOMAIN all |-> collect_goto_labels(all[i], inner)])

\* Mutant: a goto may enter an arena block.
goto_allowed_anywhere(chain, target) == TRUE

(* A goto may leave arena blocks but not enter one.                        *)
goto_allowed(chain, target) == IsPrefix(target, chain)

RECURSIVE type_check_statement(_, _, _)

(* Clause i of a switch, type switch or select: a fallthrough ends a       *)
(* clause of a switch that is not its last.                                *)
type_check_switch_like_body(s, i, chain, labels) ==
    \A j \in DOMAIN s.parts[i] :
        IF ends_in_fallthrough(s.parts[i][j])
        THEN s.k = "switch" /\ j = Len(s.parts[i]) /\ i < Len(s.parts)
        ELSE type_check_statement(s.parts[i][j], chain, labels)

(* An unsafe block has no arm of its own: it is an unknown statement.      *)
type_check_statement(s, chain, labels) ==
    LET inner == arena_chain(s, chain)
    IN  CASE s.k = "goto" -> \E i \in DOMAIN labels :
                labels[i].l = s.l /\ goto_allowed(chain, labels[i].chain)
          [] s.k \in {"fallthrough", "unsafe"} -> FALSE
          [] s.k \in {"switch", "tswitch", "select"} ->
                \A i \in DOMAIN s.parts : type_check_switch_like_body(s, i, chain, labels)
          [] OTHER -> \A t \in Kids(s) : type_check_statement(t, inner, labels)

(* Labels of one function are distinct, and not too many                   *)
(* (type_check_register_label).                                            *)
type_check_body(body) ==
    LET labels == collect_goto_labels(body, <<>>)
    IN  /\ Len(labels) <= MaxLabels
        /\ \A i, j \in DOMAIN labels : labels[i].l = labels[j].l => i = j
        /\ type_check_statement(body, <<>>, labels)

-----------------------------------------------------------------------------
(* What is decided about the whole body before it is generated.            *)

(* walk_stmts of release_decision.c: a statement kind without an arm of    *)
(* its own makes the function unreadable, and none of its locals is        *)
(* released.                                                               *)
RECURSIVE readable(_)
readable(s) ==
    /\ s.k \notin {"label", "goto", "breakL", "continueL", "fallthrough", "comptime"}
    /\ \A t \in Kids(s) : readable(t)

(* defer_prepass_walk: a defer lies in a loop, so that all the defers of   *)
(* the function go to the run-time stack.                                  *)
RECURSIVE defer_prepass_walk(_, _)
defer_prepass_walk(s, for_depth) ==
    \/ s.k = "defer" /\ for_depth > 0
    \/ \E t \in Kids(s) : defer_prepass_walk(t, IF s.k = "for" THEN for_depth + 1 ELSE for_depth)

defer_prepass_needs_stack(body) == defer_prepass_walk(body, 0)

-----------------------------------------------------------------------------
(* The builder.  cg is the state of the code generator: its blocks and the *)
(* one it appends to, the stack of break scopes with the label waiting for *)
(* the next of them, the fallthrough targets, the stack of open arenas and *)
(* the number of arena blocks around, the blocks of the labels met so far; *)
(* the defers and the locals to release met so far, with what was decided  *)
(* about the body.  err is a reported error;    *)
(* malformed is what LLVM's verifier rejects, an instruction after a       *)
(* terminator.                                                             *)

NewBlock(cg) == [cg EXCEPT !.blocks = Append(@, [ev |-> <<>>, t |-> "open", to |-> {}])]
NewBlocks(cg, n) == FoldLeft(LAMBDA c, i : NewBlock(c), cg, [i \in 1..n |-> i])
At(cg, block) == [cg EXCEPT !.cur = block]
AtNew(cg) == At(NewBlock(cg), Len(cg.blocks) + 1)
Open(cg) == cg.blocks[cg.cur].t = "open"
Error(cg) == [cg EXCEPT !.err = TRUE]

Emit(cg, events) ==
    IF events = <<>> THEN cg
    ELSE IF Open(cg) THEN [cg EXCEPT !.blocks[cg.cur].ev = @ \o events]
    ELSE [cg EXCEPT !.malformed = TRUE]

Terminate(cg, t, to) ==
    IF Open(cg)
    THEN [cg EXCEPT !.blocks[cg.cur].t = t, !.blocks[cg.cur].to = to]
    ELSE [cg EXCEPT !.malformed = TRUE]

Br(cg, to) == Terminate(cg, "br", to)
BrIfOpen(cg, to) == IF Open(cg) THEN Br(cg, to) ELSE cg

(* cfctx_push_loop, cfctx_push_break_scope, cfctx_pop.  The caller of a    *)
(* push that finds the stack full reports that the nesting is too deep.    *)
Push(cg, frame) ==
    IF Len(cg.loops) >= MaxFrames THEN Error(cg)
    ELSE [cg EXCEPT !.loops = Append(@, frame), !.pending_label = NoLabel]

cfctx_push_loop(cg, brk, cont) ==
    Push(cg, [brk |-> brk, cont |-> cont, l |-> cg.pending_label, loop |-> TRUE])

\* Mutant: a switch inside a loop takes no continue target from it.
push_break_scope_bare(cg, brk) ==
    Push(cg, [brk |-> brk, cont |-> brk, l |-> cg.pending_label, loop |-> FALSE])

cfctx_push_break_scope(cg, brk) ==
    Push(cg, [brk |-> brk, l |-> cg.pending_label, loop |-> FALSE,
              cont |-> IF cg.loops = <<>> THEN 0 ELSE Last(cg.loops).cont])

cfctx_pop(cg) == [cg EXCEPT !.loops = Front(@)]

(* cfctx_find_label, cfctx_find_loop_label: the innermost frame, or 0.     *)
cfctx_find_label(cg, l, kinds) ==
    Max({0} \cup {i \in DOMAIN cg.loops : cg.loops[i].l = l /\ cg.loops[i].loop \in kinds})

cfctx_get_or_create_goto_block(cg, l) ==
    IF l \in DOMAIN cg.goto_blocks THEN cg
    ELSE IF Cardinality(DOMAIN cg.goto_blocks) >= MaxLabels THEN Error(cg)
    ELSE [NewBlock(cg) EXCEPT !.goto_blocks =
             [m \in DOMAIN cg.goto_blocks \cup {l} |->
                 IF m = l THEN Len(cg.blocks) + 1 ELSE cg.goto_blocks[m]]]

Frees(arenas) == [i \in DOMAIN arenas |-> <<"free", arenas[Len(arenas) + 1 - i].id>>]

(* codegen_emit_arena_frees: the arenas opened at that loop depth or more. *)
codegen_emit_arena_frees(cg, depth) ==
    Emit(cg, Frees(SelectSeq(cg.arenas, LAMBDA a : a.depth >= depth)))

\* Mutant: only the innermost arena is freed.
arena_frees_innermost(cg, depth) ==
    Emit(cg, Frees(IF Len(cg.arenas) > depth THEN <<Last(cg.arenas)>> ELSE <<>>))

codegen_emit_arena_frees_to_depth(cg, depth) ==
    Emit(cg, Frees(SubSeq(cg.arenas, depth + 1, Len(cg.arenas))))

(* emit_scope_releases: the locals declared at that loop depth or more,    *)
(* in the order of their declarations.  The slot of a local of a loop or   *)
(* switch is cleared afterwards.  Nothing may follow a terminator.         *)
emit_scope_releases(cg, depth) ==
    LET sites == SelectSeq(cg.sites, LAMBDA x : x.depth >= depth)
    IN  IF ~Open(cg) THEN cg
        ELSE Emit(cg, [i \in DOMAIN sites |-> <<"release", sites[i].l, sites[i].depth > 0>>])

codegen_emit_loop_scope_releases(cg, depth) ==
    IF depth < 1 THEN cg ELSE emit_scope_releases(cg, depth)

\* Mutant: the deferred calls are emitted in the order of registration.
deferred_calls_in_order(cg) ==
    LET c == codegen_emit_arena_frees(cg, 0)
    IN  Emit(c, IF cg.stack_mode THEN <<<<"run">>>>
                ELSE [i \in DOMAIN cg.defers |-> <<"call", cg.defers[i]>>])

(* One call of goo_defer_run, or the registered calls, last one first, each *)
(* guarded by its flag.                                                     *)
emit_deferred_calls_only(cg) ==
    LET c == codegen_emit_arena_frees(cg, 0)
        calls == Reverse(cg.defers)
    IN  Emit(c, IF cg.stack_mode THEN <<<<"run">>>>
                ELSE [i \in DOMAIN calls |-> <<"call", calls[i]>>])

(* Every exit of the function.                                             *)
codegen_emit_deferred_calls(cg) == emit_scope_releases(emit_deferred_calls_only(cg), 0)

(* Leave for `block`, and go on in a fresh block that nothing reaches.     *)
Leave(cg, block) == AtNew(Br(cg, {block}))

-----------------------------------------------------------------------------
(* codegen_generate_statement and the functions it calls.                  *)
RECURSIVE Gen(_, _)

(* A block stops at a terminated basic block; a clause does not look.      *)
RECURSIVE GenBlock(_, _)
GenBlock(cg, list) ==
    IF list = <<>> \/ ~Open(cg) \/ cg.err THEN cg
    ELSE GenBlock(Gen(cg, Head(list)), Tail(list))

GenClause(cg, list) == FoldLeft(LAMBDA c, s : Gen(c, s), cg, list)

GenReturn(cg) == Terminate(codegen_emit_deferred_calls(cg), "ret", {})

(* What leaving the i-th break scope frees.                                *)
LeaveScope(cg, i) == codegen_emit_loop_scope_releases(codegen_emit_arena_frees(cg, i), i)
GenBreak(cg, i) == Leave(LeaveScope(cg, i), cg.loops[i].brk)
GenContinue(cg, i) == Leave(LeaveScope(cg, i), cg.loops[i].cont)

(* In a loop, where the pre-pass should have seen it, a defer is an error. *)
GenDefer(cg, d) ==
    IF cg.stack_mode THEN Emit(cg, <<<<"push", d>>>>)
    ELSE IF \E i \in DOMAIN cg.loops : cg.loops[i].loop THEN Error(cg)
    ELSE [Emit(cg, <<<<"activate", d>>>>) EXCEPT !.defers = Append(@, d)]

(* An allocation, in the innermost arena or on the heap.                   *)
GenAlloc(cg) ==
    Emit(cg, IF cg.arenas = <<>> THEN <<<<"heap">>>> ELSE <<<<"use", Last(cg.arenas).id>>>>)

HasSite(cg, x) == \E i \in DOMAIN cg.sites : cg.sites[i].l = x

(* x := new(T): codegen_arc_note_local records the slot of a local that is *)
(* to be released, which one declared in an arena block is not.            *)
GenDeclare(cg, x) ==
    IF cg.readable /\ cg.arena_nesting = 0
    THEN [Emit(cg, <<<<"store", x>>>>) EXCEPT
             !.sites = Append(@, [l |-> x, depth |-> Len(cg.loops)])]
    ELSE GenAlloc(cg)

(* x = new(T): codegen_arc_release_before_store releases the old object.   *)
GenAssign(cg, x) ==
    IF HasSite(cg, x) THEN Emit(cg, <<<<"release", x, FALSE>>, <<"store", x>>>>) ELSE GenAlloc(cg)

GenRead(cg, x) == Emit(cg, IF HasSite(cg, x) THEN <<<<"read", x>>>> ELSE <<<<"heap">>>>)

GenGoto(cg, l) ==
    LET depth == Len(SelectSeq(cg.labels, LAMBDA x : x.l = l)[1].chain)
        left == codegen_emit_loop_scope_releases(codegen_emit_arena_frees_to_depth(cg, depth),
                                                 Len(cg.loops))
        c == cfctx_get_or_create_goto_block(left, l)
    IN  IF c.err THEN c ELSE Leave(c, c.goto_blocks[l])

GenLabel(cg, s) ==
    LET c == cfctx_get_or_create_goto_block(cg, s.l)
        block == c.goto_blocks[s.l]
        d == [At(BrIfOpen(c, {block}), block) EXCEPT !.pending_label = s.l]
    IN  IF c.err THEN c ELSE [GenBlock(d, s.parts[1]) EXCEPT !.pending_label = NoLabel]

(* Blocks n+1 .. : the branches, then the merge block.                     *)
GenIf(cg, s) ==
    LET n == Len(cg.blocks)
        merge == n + Len(s.parts) + 1
        other == IF Len(s.parts) = 2 THEN n + 2 ELSE merge
        branch(c, i) == BrIfOpen(GenBlock(At(c, n + i), s.parts[i]), {merge})
        c == FoldLeft(branch, Br(NewBlocks(cg, merge - n), {n + 1, other}),
                      [i \in DOMAIN s.parts |-> i])
    IN  At(c, merge)

(* An if-let marks a merge block that nothing branches to as unreachable.  *)
GenIfLet(cg, s) ==
    LET c == GenIf(cg, s)
    IN  IF \E i \in DOMAIN c.blocks : c.cur \in c.blocks[i].to THEN c
        ELSE Terminate(c, "unreachable", {})

GenFor(cg, s) ==
    LET cond == Len(cg.blocks) + 1
        body == cond + 1
        post == cond + 2
        exit == cond + 3
        c == Br(At(Br(NewBlocks(cg, 4), {cond}), cond), IF s.n = 0 THEN {body} ELSE {body, exit})
        d == GenBlock(cfctx_push_loop(At(c, body), exit, post), s.parts[1])
        e == cfctx_pop(codegen_emit_loop_scope_releases(d, Len(d.loops)))
    IN  At(Br(At(BrIfOpen(e, {post}), post), {cond}), exit)

(* The clauses of a switch, type switch or select: blocks n+1 .. for them, *)
(* then the merge block, which `unmatched` control goes to at once.        *)
GenClauses(cg, s, unmatched) ==
    LET n == Len(cg.blocks)
        merge == n + Len(s.parts) + 1
        targets == {n + i : i \in DOMAIN s.parts} \cup (IF unmatched THEN {merge} ELSE {})
        clause(c, i) ==
            LET next == IF s.k = "switch" /\ i < Len(s.parts) THEN n + i + 1 ELSE 0
                d == GenClause([At(c, n + i) EXCEPT !.ft = Append(@, next)], s.parts[i])
            IN  BrIfOpen([d EXCEPT !.ft = cg.ft], {merge})
        c == cfctx_push_break_scope(Br(NewBlocks(cg, merge - n), targets), merge)
    IN  At(cfctx_pop(FoldLeft(clause, c, [i \in DOMAIN s.parts |-> i])), merge)

(* Without a clause there is no break scope, and control goes on.          *)
GenEmptySwitch(cg) == At(Br(NewBlock(cg), {Len(cg.blocks) + 1}), Len(cg.blocks) + 1)

GenSwitch(cg, s) ==
    IF s.parts = <<>> THEN GenEmptySwitch(cg) ELSE GenClauses(cg, s, s.n = 0)

GenTypeSwitch(cg, s) ==
    IF s.parts = <<>> THEN GenEmptySwitch(cg) ELSE GenClauses(cg, s, s.n = 0)

(* goo_select returns the number of a case that was ready, or the default. *)
GenSelect(cg, s) == IF s.parts = <<>> THEN Error(cg) ELSE GenClauses(cg, s, FALSE)

(* codegen_arena_push drops the arena when the stack is full, and          *)
(* codegen_arena_pop takes one away all the same.                          *)
codegen_arena_push(cg, id) ==
    IF Len(cg.arenas) >= MaxArenas THEN cg
    ELSE [cg EXCEPT !.arenas = Append(@, [id |-> id, depth |-> Len(cg.loops)])]

codegen_arena_pop(cg) == IF cg.arenas = <<>> THEN cg ELSE [cg EXCEPT !.arenas = Front(@)]

GenArena(cg, s) ==
    LET c == codegen_arena_push(Emit(cg, <<<<"new", s.l>>>>), s.l)
        d == codegen_arena_pop(GenBlock([c EXCEPT !.arena_nesting = @ + 1], s.parts[1]))
        e == [d EXCEPT !.arena_nesting = cg.arena_nesting]
    IN  IF Open(e) THEN Emit(e, <<<<"free", s.l>>>>) ELSE e

Gen(cg, s) ==
    LET depth == Len(cg.loops)
        both == cfctx_find_label(cg, s.l, BOOLEAN)
        loop == cfctx_find_label(cg, s.l, {TRUE})
    IN  CASE cg.err -> cg
          [] s.k = "plain" -> GenAlloc(cg)
          [] s.k = "declare" -> GenDeclare(cg, s.l)
          [] s.k = "assign" -> GenAssign(cg, s.l)
          [] s.k = "read" -> GenRead(cg, s.l)
          [] s.k = "defer" -> GenDefer(cg, s.l)
          [] s.k = "panic" -> Emit(cg, <<<<"panic">>>>)
          [] s.k = "return" -> GenReturn(cg)
          [] s.k = "break" -> IF depth = 0 THEN Error(cg) ELSE GenBreak(cg, depth)
          [] s.k = "continue" ->
                IF depth = 0 THEN Error(cg)
                ELSE IF cg.loops[depth].cont = 0 THEN Error(cg)
                ELSE GenContinue(cg, depth)
          [] s.k = "breakL" -> IF both = 0 THEN Error(cg) ELSE GenBreak(cg, both)
          [] s.k = "continueL" -> IF loop = 0 THEN Error(cg) ELSE GenContinue(cg, loop)
          [] s.k = "goto" -> GenGoto(cg, s.l)
          [] s.k = "fallthrough" ->
                IF cg.ft = <<>> THEN Error(cg)
                ELSE IF Last(cg.ft) = 0 THEN Error(cg)
                ELSE Leave(cg, Last(cg.ft))
          [] s.k = "label" -> GenLabel(cg, s)
          [] s.k \in {"block", "unsafe"} -> GenBlock(cg, s.parts[1])
          [] s.k = "if" -> GenIf(cg, s)
          [] s.k = "iflet" -> GenIfLet(cg, s)
          [] s.k = "for" -> GenFor(cg, s)
          [] s.k = "switch" -> GenSwitch(cg, s)
          [] s.k = "tswitch" -> GenTypeSwitch(cg, s)
          [] s.k = "select" -> GenSelect(cg, s)
          [] s.k = "arena" -> GenArena(cg, s)
          [] s.k = "comptime" -> cg

(* codegen_generate_function_decl: the body, and a return where it is open. *)
Generate(body) ==
    LET cg == AtNew([blocks |-> <<>>, cur |-> 0, loops |-> <<>>, pending_label |-> NoLabel,
                     ft |-> <<>>, arenas |-> <<>>, arena_nesting |-> 0, goto_blocks |-> <<>>,
                     labels |-> collect_goto_labels(body, <<>>),
                     stack_mode |-> defer_prepass_needs_stack(body), defers |-> <<>>,
                     readable |-> readable(body), sites |-> <<>>,
                     err |-> FALSE, malformed |-> FALSE])
        c == Gen(cg, body)
    IN  IF Open(c) THEN GenReturn(Emit(c, <<<<"end">>>>)) ELSE c

(* No error was reported, and LLVM's verifier finds that each block ends   *)
(* in its one terminator.                                                  *)
Compiles(cg) ==
    /\ ~cg.err /\ ~cg.malformed
    /\ \A i \in DOMAIN cg.blocks : cg.blocks[i].t # "open"
=============================================================================
