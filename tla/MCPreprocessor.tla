--------------------------- MODULE MCPreprocessor ---------------------------
(***************************************************************************)
(* Every source of up to four lines, well-formed or not; every conditional *)
(* of three branches whose conditions and lines are chosen from a few,     *)
(* with definitions before and in the branches, and after it a second      *)
(* conditional that depends on them; and macro functions, with calls,      *)
(* labels and conditionals in them, called from each other and from        *)
(* branches; and macros that stand for what another macro stood for.       *)
(***************************************************************************)
EXTENDS Preprocessor

L(d, x, args)   == [d |-> d, x |-> x, args |-> args, more |-> FALSE]
On(d, x)        == L(d, x, <<>>)
Ins(args)       == L("ins", "", args)
Text            == Ins(<<>>)
Def(x, v)       == L("define", x, <<v>>)
Call1(f, args)  == L("call", f, args)
Macro1(f, args) == L("macro", f, args)
More(l)         == [l EXCEPT !.more = TRUE]
MacroF          == More(Macro1("f", <<"x">>))
Fn(f, params, body) ==
  <<More(Macro1(f, params))>> \o [k \in DOMAIN body |-> [body[k] EXCEPT !.more = k < Len(body)]]

Alphabet ==
  { Text, More(Text), MacroF, Def("a", "1"), Macro1("g", <<"x">>), Call1("g", <<"2">>),
    On("label", "a"), On("equ", "b"), On("ifdef", "a"), On("ifndef", "a"),
    On("elifdef", "b"), On("elifndef", "a"), On("else", ""), On("endif", "") }

Short == UNION {[1..n -> Alphabet] : n \in 1..4}

Ifs    == {On("ifdef", "a"), On("ifndef", "a")}
Elifs  == {On("elifdef", "b"), On("elifndef", "b"), On("elifdef", "a")}
Bodies == {<<>>, <<Text>>, <<Def("b", "1"), Text>>, <<MacroF, More(Text), Text>>}
First  == {<<>>, <<Def("a", "1")>>, <<Def("b", "1"), Text>>}

Chains ==
  { before \o <<i>> \o body \o <<e>> \o <<Text>> \o <<On("else", "")>> \o other
      \o <<On("endif", ""), Text, j, Text, On("endif", ""), Text>> :
    before \in First, i \in Ifs, body \in Bodies, e \in Elifs, other \in Bodies,
    j \in {On("ifdef", "b"), On("ifndef", "b")} }

\* Conditionals in conditionals, which the code takes for lines of a branch.
Nested ==
  { <<Def("a", "1"), i, Text, j, Text, On("endif", "")>> \o tail :
    i \in Ifs, j \in Ifs \cup Elifs,
    tail \in {<<>>, <<Text, On("endif", "")>>,
              <<On("else", ""), Text, On("endif", "")>>,
              <<On("endif", ""), Text>>} }

\* What is in a macro function of x: its parameter, also as a macro's name, a
\* label, an equ that is or is not read, calls, whole and open conditionals, and
\* one with two #else, of which the code takes the second for a line.
Uses(x) == Ins(<<x, "a">>)
FBodies ==
  { <<Uses("x")>>, <<Uses("x"), Uses("y")>>, <<On("label", "l"), Uses("x")>>,
    <<On("equ", "k"), Text>>, <<Text, On("equ", "k")>>,
    <<Call1("g", <<"x">>), Uses("x")>>, <<Text, Call1("f", <<"x">>)>>,
    <<On("ifdef", "a"), Uses("x"), On("else", ""), Uses("x"), Call1("g", <<"x">>),
      On("endif", ""), Uses("x")>>,
    <<On("ifdef", "k"), Def("k", "1"), On("endif", ""), Call1("g", <<"x">>)>>,
    <<On("ifdef", "k"), On("else", ""), Uses("x"), On("else", ""), On("endif", "")>>,
    <<On("ifdef", "k"), Uses("x"), On("elifdef", "a"), Uses("x"), Text, On("endif", "")>>,
    <<Uses("x"), On("ifdef", "k")>> }
GBodies ==
  { <<Uses("x")>>, <<Uses("y"), Uses("x")>>, <<Uses("x"), Call1("f", <<"y">>)>> }

\* Calls: once, twice, under a condition, with other numbers of operands.
Calls ==
  { <<Call1("f", <<"r">>), Text>>, <<Call1("f", <<"x">>), Call1("f", <<"a">>)>>,
    <<Call1("f", <<>>)>>, <<Call1("f", <<"r", "s">>)>>,
    <<On("ifdef", "k"), Call1("f", <<"r">>), On("endif", ""), Text, On("ifndef", "l"),
      Call1("g", <<"r">>), Text, On("endif", "")>> }

Expansions ==
  { before \o Fn("g", <<p>>, g) \o Fn("f", <<"x">>, f) \o calls :
    before \in {<<>>, <<Def("a", "1")>>, <<Def("x", "2"), On("equ", "k")>>},
    p \in {"x", "y"}, g \in GBodies, f \in FBodies, calls \in Calls }

\* Of one line, without parameters, or with one twice; an equ that is not taken.
Special ==
  { <<Macro1("f", params), Call1("f", args), Text>> :
    params \in {<<>>, <<"x">>, <<"x", "x">>}, args \in {<<>>, <<"r">>, <<"r", "s">>} }
  \cup { <<On("ifdef", "b"), On("equ", "a"), On("else", ""), On("equ", n), On("endif", ""),
          On("ifdef", "a"), Text, On("endif", "")>> : n \in {"a", "b"} }

\* Macros of macros, defined before and after, in a branch, and in a register's
\* name; used by a line, a call and a macro function.
Redefined ==
  { <<>>, <<Def("a", "1")>>, <<Def("a", "b")>>, <<Def("r", "1")>>,
    <<On("ifdef", "b"), Def("a", "2"), On("else", ""), Def("a", "s"), On("endif", "")>> }
Aliases ==
  { d \o <<Def("b", v)>> \o e \o <<Def("c", w)>> \o Fn("f", <<"x">>, <<Ins(<<"x", "c">>)>>)
      \o <<Ins(<<"a", "b", "c", "r">>), Call1("f", <<"b">>)>> :
    d \in Redefined, e \in Redefined, v \in {"a", "r"}, w \in {"a", "b"} }

MCLiterals == {"1", "2", "r", "s"}

MCSources == Short \cup Chains \cup Nested \cup Expansions \cup Special \cup Aliases
=============================================================================
