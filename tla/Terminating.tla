---------------------------- MODULE Terminating ----------------------------
(***************************************************************************)
(* The missing-return analysis (src/types/terminating_stmt.c): does a      *)
(* function body complete only through a terminating statement?            *)
(*                                                                         *)
(* A statement is a record with the same fields whatever its kind:         *)
(*   k      its kind                                                       *)
(*   l      its label (label, goto, break L, continue L), the local it is  *)
(*          about (declare, assign, read), or, for an arena block or a     *)
(*          defer, a name that stands for the node's address               *)
(*   n      for: 1 when there is a condition or a range clause;            *)
(*          switch, tswitch, select: the number of the default clause or 0 *)
(*   parts  the statement lists it holds: the branches of an if, the       *)
(*          clauses of a switch, the single body of the others             *)
(* Expressions are left out: a plain statement is any statement that holds *)
(* no other and lets control go on to the next; declare, assign and read   *)
(* are those that give a local a new heap object or use the one it has.    *)
(***************************************************************************)
EXTENDS Naturals, Sequences, FiniteSets

CONSTANT MaxChain   \* labels on one statement that are followed; 8 in the code

ASSUME ChainAssumption == MaxChain \in Nat \ {0}

NoLabel == "none"

Stmt(k, l, n, parts) == [k |-> k, l |-> l, n |-> n, parts |-> parts]
Simple(k) == Stmt(k, NoLabel, 0, <<>>)
To(k, l) == Stmt(k, l, 0, <<>>)
Block(list) == Stmt("block", NoLabel, 0, <<list>>)
If(then) == Stmt("if", NoLabel, 0, <<then>>)
IfElse(then, else) == Stmt("if", NoLabel, 0, <<then, else>>)
IfLet(then, else) == Stmt("iflet", NoLabel, 0, <<then, else>>)
For(cond, list) == Stmt("for", NoLabel, cond, <<list>>)
Switch(k, default, clauses) == Stmt(k, NoLabel, default, clauses)
Arena(name, list) == Stmt("arena", name, 0, <<list>>)
Label(l, s) == Stmt("label", l, 0, <<<<s>>>>)

BreakScopes == {"for", "switch", "tswitch", "select"}

(* The statements directly inside s.                                       *)
Kids(s) == UNION {{s.parts[i][j] : j \in DOMAIN s.parts[i]} : i \in DOMAIN s.parts}

(***************************************************************************)
(* The statement lists of an if are the blocks of its branches.            *)
(***************************************************************************)
RECURSIVE contains_goto(_)
contains_goto(s) == s.k = "goto" \/ \E t \in Kids(s) : contains_goto(t)

\* Mutant: a labelled break from inside a nested loop is not seen.
RECURSIVE break_targets_shallow(_, _, _)
break_targets_shallow(s, labels, crossed) ==
    CASE s.k = "break"  -> ~crossed
      [] s.k = "breakL" -> s.l \in labels /\ ~crossed
      [] OTHER -> \E t \in Kids(s) :
                     break_targets_shallow(t, labels, crossed \/ s.k \in BreakScopes)

(* A break in s leaves the construct that carries `labels`.                *)
(* crossed: s lies in a nested break scope, to which a bare break belongs. *)
RECURSIVE break_targets(_, _, _)
break_targets(s, labels, crossed) ==
    CASE s.k = "break"  -> ~crossed
      [] s.k = "breakL" -> s.l \in labels
      [] OTHER -> \E t \in Kids(s) :
                     break_targets(t, labels, crossed \/ s.k \in BreakScopes)

Breaks(s, labels) == \E t \in Kids(s) : break_targets(t, labels, FALSE)

RECURSIVE ends_in_fallthrough(_)
ends_in_fallthrough(s) ==
    \/ s.k = "fallthrough"
    \/ s.k = "label" /\ s.parts[1] # <<>> /\ ends_in_fallthrough(s.parts[1][1])

clause_ends_in_fallthrough(list) ==
    list # <<>> /\ ends_in_fallthrough(list[Len(list)])

(***************************************************************************)
(* stmt_terminates_labeled.  `strict` asks for the last statement of a     *)
(* list to terminate, otherwise any will do.                               *)
(***************************************************************************)
RECURSIVE stmt_terminates(_, _, _)

block_terminates(list, strict) ==
    \E i \in DOMAIN list : (strict => i = Len(list)) /\ stmt_terminates(list[i], {}, strict)

RECURSIVE clause_chain_terminates(_, _, _)
clause_chain_terminates(clauses, i, strict) ==
    IF clause_ends_in_fallthrough(clauses[i])
    THEN i < Len(clauses) /\ clause_chain_terminates(clauses, i + 1, strict)
    ELSE block_terminates(clauses[i], strict)

(* No break leaves it and every clause terminates; a switch also needs a   *)
(* default clause, a select does not.                                      *)
switch_terminates(s, labels, strict) ==
    /\ s.n # 0 /\ ~Breaks(s, labels)
    /\ \A i \in DOMAIN s.parts : clause_chain_terminates(s.parts, i, strict)

type_switch_terminates(s, labels, strict) ==
    /\ s.n # 0 /\ ~Breaks(s, labels)
    /\ \A i \in DOMAIN s.parts : block_terminates(s.parts[i], strict)

select_terminates(s, labels, strict) ==
    ~Breaks(s, labels) /\ \A i \in DOMAIN s.parts : block_terminates(s.parts[i], strict)

stmt_terminates(s, labels, strict) ==
    CASE s.k \in {"return", "goto", "panic"} -> TRUE
      [] s.k \in {"if", "iflet"} ->
            Len(s.parts) = 2 /\ \A i \in 1..2 : block_terminates(s.parts[i], strict)
      [] s.k = "for" -> s.n = 0 /\ ~Breaks(s, labels)
      [] s.k = "switch" -> switch_terminates(s, labels, strict)
      [] s.k = "tswitch" -> type_switch_terminates(s, labels, strict)
      [] s.k = "select" -> select_terminates(s, labels, strict)
      [] s.k \in {"block", "arena"} -> block_terminates(s.parts[1], strict)
      [] s.k = "label" ->
            /\ Cardinality(labels) < MaxChain /\ s.parts[1] # <<>>
            /\ stmt_terminates(s.parts[1][1], labels \cup {s.l}, strict)
      [] OTHER -> FALSE

(* contains_goto decides between the two rules for the whole body.         *)
stmt_is_terminating(body) == stmt_terminates(body, {}, contains_goto(body))
=============================================================================
