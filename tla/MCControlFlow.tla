---------------------------- MODULE MCControlFlow ----------------------------
(***************************************************************************)
(* Function bodies for ControlFlow.  A body is a spine: a jump or a plain  *)
(* statement inside nested statements, with statements before and after.   *)
(***************************************************************************)
EXTENDS ControlFlow

Plain == Simple("plain")
Ret == Simple("return")

ArenaName == <<"a1", "a2">>
LabelName == <<"L1", "L2">>

Jumps ==
    {Plain, Ret, Simple("comptime"), Simple("panic"), Simple("break"), Simple("continue"), To("goto", "T"),
     To("breakL", "L1"), To("continueL", "L1"), To("breakL", "L2")}

Scopes(list) ==
    {For(0, list), For(1, list), Switch("select", 0, <<list>>), Switch("switch", 0, <<list>>),
     Switch("switch", 2, <<<<Plain, Simple("fallthrough")>>, list>>)}

(* The statements that may hold `list` at nesting depth d.                 *)
Wraps(list, d) ==
    Scopes(list)
    \cup {Label(LabelName[d], s) : s \in {For(0, list), Switch("tswitch", 2, <<list, <<Ret>>>>)}}
    \cup {Arena(ArenaName[d], <<Plain>> \o list), Block(list),
          If(list), IfElse(list, <<Ret>>), IfLet(list, <<Ret>>)}

After(d) == {<<>>} \cup (IF d = 1 THEN {<<Label("T", Ret)>>} ELSE {<<Plain>>, <<Simple("break")>>})

(* A bare continue that leaves a switch or select of a loop which holds    *)
(* something to free outside it: an arena, or a local declared before it.  *)
RECURSIVE ContinueSkips(_, _, _)
ContinueSkips(s, held, skipped) ==
    IF s.k = "continue" THEN skipped
    ELSE \E i \in DOMAIN s.parts : \E j \in DOMAIN s.parts[i] :
            ContinueSkips(s.parts[i][j],
                \/ s.k = "arena"
                \/ held /\ s.k # "for"
                \/ \E before \in 1..(j - 1) : s.parts[i][before].k = "declare",
                s.k # "for" /\ (skipped \/ (held /\ s.k \in BreakScopes)))

(* The spines, also after the label of a goto back to their start, before  *)
(* an arena block that holds the label of a goto and, with nothing after   *)
(* the inner statement, in a loop and in an arena block.  No label stands  *)
(* on a statement that is no break scope but holds one: LabelPrograms are  *)
(* of that kind.                                                           *)
Spines ==
    LET bare == {<<w>> : w \in UNION {Wraps(<<j>>, 2) : j \in Jumps}}
        inner == {w \o after : w \in bare, after \in After(2)}
        nested == UNION {Wraps(s, 1) : s \in bare}
        outer == UNION {Wraps(s, 1) : s \in inner}
    IN  {Block(<<w>> \o after) : w \in outer, after \in After(1)}
        \cup {Block(<<Label("T", Plain), w>>) : w \in {v \in outer : contains_goto(v)}}
        \cup {Block(s \o <<Arena("a3", <<Label("T", Plain)>>)>>) : s \in inner}
        \cup {Block(<<For(1, <<w>>)>>) : w \in {v \in nested : ~ContinueSkips(v, FALSE, FALSE)}}
        \cup {Block(<<Arena("a3", <<w, Plain>>)>>) : w \in nested}

(* Locals and defers at three depths, around a way out.  No goto leads     *)
(* back to a defer.                                                        *)
Declare(x) == To("declare", x)
Assign(x) == To("assign", x)
Read(x) == To("read", x)
Defer(d) == To("defer", d)

LocalsAndDefers ==
    LET ways == {Ret, Simple("break"), Simple("continue"), To("breakL", "L1"), To("goto", "T")}
        lists == {<<Declare("z"), If(<<way>>), Assign("z"), Read("z")>> : way \in ways}
                 \cup {<<If(<<way>>), Defer("d3")>> : way \in ways}
        inner == UNION {Wraps(list, 2) : list \in lists}
        outer == UNION {Wraps(<<Declare("y"), w, Read("y")>>, 1)
                        \cup Wraps(<<Defer("d2"), w>>, 1) : w \in inner}
    IN  {Block(<<Declare("x"), Defer("d1"), w,
                 IF contains_goto(w) THEN Label("T", Read("x")) ELSE Assign("x")>>) :
            w \in {v \in outer : ~ContinueSkips(v, FALSE, FALSE)}}

SoundPrograms == Spines \cup LocalsAndDefers

ContinuePrograms ==
    {Block(<<For(1, list)>>) : list \in
        UNION {{<<Arena("a1", <<s>>)>>, <<Declare("x"), s>>} : s \in Scopes(<<Simple("continue")>>)}}
LabelPrograms ==
    {Block(<<Label("L1", Block(<<s>>))>>) : s \in Scopes(<<To("breakL", "L1")>>)}
=============================================================================
