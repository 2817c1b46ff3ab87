---------------------------- MODULE Preprocessor ----------------------------
(***************************************************************************)
(* rrasm's preprocess(), and what assemble_instruction makes of the lines  *)
(* it lets through: conditionals, macros, and macro functions, as a state  *)
(* machine in four globals that the lines of a source drive.  The lines of *)
(* a branch are collected (the preprocessor is "hungry") and handed back,  *)
(* to be preprocessed again, at the directive that ends it, if the branch  *)
(* is taken.  A call of a macro function is replaced by its body, whose    *)
(* lines are preprocessed and have its operands replaced.                  *)
(*                                                                         *)
(* A line is a record.  d is what it is:                                   *)
(*   ifdef, ifndef, elifdef, elifndef, else, endif      on the name x      *)
(*   define  of x as the operand args[1]                                   *)
(*   macro   of the macro function x with the parameters args              *)
(*   ins     an instruction with the operands args                         *)
(*   call    of the macro function x with the operands args                *)
(*   label   x:                                                            *)
(*   equ     x equ value                                                   *)
(* more says that it ends with a backslash.  Lines are referred to by      *)
(* their number in the source.  A macro function's first line has nothing  *)
(* after its parameters if there is more, and otherwise an instruction     *)
(* with these as its operands.  Blank lines and comments never get here.   *)
(***************************************************************************)
EXTENDS Integers, SequencesExt

CONSTANTS Sources,
          Literals, \* the operands that are registers, numbers or strings
          Limit     \* how many calls deep Python's recursion limit lets them be

ASSUME LimitAssumption == Limit \in Nat

\* A source is a sequence of lines, the operands of a line a sequence of names.
ASSUME SourcesAssumption ==
  \A src \in Sources : /\ Len(src) \in Nat /\ DOMAIN src = 1..Len(src)
                       /\ \A i \in DOMAIN src : /\ src[i].more \in BOOLEAN
                                                /\ DOMAIN src[i].args = 1..Len(src[i].args)

VARIABLES
  source,
  todo,       \* the lines to preprocess: items of the source, branches, bodies
  state,      \* preprocessor_state
  hungry,     \* preprocessor_hungry
  accepted,   \* preprocessor_accepted
  stack,      \* preprocessor_stack
  macros,     \* name -> its operand
  functions,  \* name of a macro function -> its params and its body's items
  symbols,    \* the names defined by equ and as labels
  out,        \* the instructions assembled, in order: [key, args]
  failed

globals == <<state, hungry, accepted, stack>>
vars    == <<source, todo, globals, macros, functions, symbols, out, failed>>

Initially == {"ifdef", "ifndef", "define", "macro", "elifdef", "elifndef"}

Conditional == {"ifdef", "ifndef", "elifdef", "elifndef", "else", "endif"}
Directives  == Conditional \cup {"define", "macro"}

Put(f, x, v)  == [y \in DOMAIN f \cup {x} |-> IF y = x THEN v ELSE f[y]]
Nothing       == [x \in {} |-> 0]

\* Mutant of EquLines: a line of a macro function is read too.
EquLinesInMacros(src) == {i \in DOMAIN src : src[i].d = "equ"}

\* fixed_sym_decode_prepass: the lines of the file that are `name equ value` and
\* no more, wherever they are.
EquLines(src) == {i \in DOMAIN src : src[i].d = "equ" /\ ~src[i].more}

\* A line to preprocess: over are the operands of the call it is from, by the
\* parameters they replace, path the lines of the calls that led to it.
Init ==
  /\ source \in Sources
  /\ todo = [i \in DOMAIN source |-> [line |-> i, d |-> source[i].d, more |-> source[i].more,
                                      over |-> Nothing, path |-> <<>>]]
  /\ state = "passthrough" /\ hungry = FALSE
  /\ accepted = Initially
  /\ stack = <<>>
  /\ macros = Nothing /\ functions = Nothing
  /\ out = <<>>
  /\ symbols = {source[i].x : i \in EquLines(source)}
  /\ failed = \E i, j \in EquLines(source) : i # j /\ source[i].x = source[j].x

Item == Head(todo)
Line == source[Item.line]

\* The next line is an accepted directive d.
At(d) == ~failed /\ todo # <<>> /\ Item.d = d /\ d \in accepted

Top == stack[Len(stack)]
Rest == SubSeq(stack, 1, Len(stack) - 1)

Entry(value, body, s, h, a) ==
  [value |-> value, body |-> body, state |-> s, hunger |-> h, accepted |-> a]

\* Mutant of Restore: the directives accepted before are forgotten.
RestoreHunger(e) ==
  /\ state' = e.state /\ hungry' = e.hunger
  /\ UNCHANGED accepted

\* What was saved when the directive now ending began.
Restore(e) ==
  /\ state' = e.state /\ hungry' = e.hunger /\ accepted' = e.accepted

\* Of a condition, whose directive is `positive` or its opposite.
Truth(positive) == (Item.d = positive) <=> (Line.x \in DOMAIN macros \cup symbols)

Ifdef ==
  /\ At("ifdef") \/ At("ifndef")
  /\ stack' = Append(stack, Entry(Truth("ifdef"), <<>>, state, hungry, accepted))
  /\ accepted' = {"endif", "else", "elifdef", "elifndef"}
  /\ hungry' = TRUE /\ state' = "ifdef"
  /\ todo' = Tail(todo)
  /\ UNCHANGED <<source, macros, functions, symbols, out, failed>>

\* Lone #else, #elifdef or #endif: accepted at first, but nothing is open.
Lone ==
  /\ \E d \in {"endif", "else", "elifdef", "elifndef"} : At(d)
  /\ stack = <<>> \/ state # "ifdef"
  /\ failed' = TRUE
  /\ UNCHANGED <<source, todo, globals, macros, functions, symbols, out>>

Open(d) == At(d) /\ stack # <<>> /\ state = "ifdef"

\* The branch before was taken: skip to #endif.
SkipRest ==
  /\ Open("else") \/ Open("elifdef") \/ Open("elifndef")
  /\ Top.value
  /\ accepted' = {"endif"} /\ hungry' = FALSE
  /\ todo' = Tail(todo)
  /\ UNCHANGED <<source, state, stack, macros, functions, symbols, out, failed>>

\* The entry of a conditional's next branch.
Branch(value, body) == Entry(value, body, Top.state, Top.hunger, Top.accepted)

\* Mutant of Elifdef: the lines of the branch before are kept.
ElifdefKeepsBody ==
  /\ Open("elifdef") \/ Open("elifndef")
  /\ ~Top.value
  /\ stack' = Append(Rest, Branch(Truth("elifdef"), Top.body))
  /\ accepted' = {"endif", "else", "elifdef", "elifndef"} /\ hungry' = TRUE
  /\ todo' = Tail(todo)
  /\ UNCHANGED <<source, state, macros, functions, symbols, out, failed>>

Elifdef ==
  /\ Open("elifdef") \/ Open("elifndef")
  /\ ~Top.value
  /\ stack' = Append(Rest, Branch(Truth("elifdef"), <<>>))
  /\ accepted' = {"endif", "else", "elifdef", "elifndef"} /\ hungry' = TRUE
  /\ todo' = Tail(todo)
  /\ UNCHANGED <<source, state, macros, functions, symbols, out, failed>>

Else ==
  /\ Open("else")
  /\ ~Top.value
  /\ stack' = Append(Rest, Branch(TRUE, <<>>))
  /\ accepted' = {"endif"} /\ hungry' = TRUE
  /\ todo' = Tail(todo)
  /\ UNCHANGED <<source, state, macros, functions, symbols, out, failed>>

\* Mutant of Endif: the branch comes after the line that follows it.
EndifLate ==
  /\ Open("endif")
  /\ Restore(Top)
  /\ stack' = Rest
  /\ todo' = IF Top.value THEN Tail(todo) \o Top.body ELSE Tail(todo)
  /\ UNCHANGED <<source, macros, functions, symbols, out, failed>>

\* A taken branch is assembled, and preprocessed, at its #endif.  Only one that
\* is a single instruction keeps the operands of the call the #endif is in.
Branched(body) ==
  LET over == IF Len(body) = 1 /\ body[1].d \notin Directives THEN Item.over ELSE Nothing
  IN  [k \in DOMAIN body |-> [body[k] EXCEPT !.over = over]]

Endif ==
  /\ Open("endif")
  /\ Restore(Top)
  /\ stack' = Rest
  /\ todo' = IF Top.value THEN Branched(Top.body) \o Tail(todo) ELSE Tail(todo)
  /\ UNCHANGED <<source, macros, functions, symbols, out, failed>>

\* decode_operand: what a macro is defined as, being an operand itself or, by its
\* name, what the macro ms[operand] stands for by then.
Standing(operand, ms) ==
  IF operand \in DOMAIN ms \ Literals THEN ms[operand] ELSE operand

\* Mutant of Define: a macro's value is taken as it is written.
DefineUnresolved ==
  /\ At("define")
  /\ macros' = Put(macros, Line.x, Line.args[1])
  /\ todo' = Tail(todo)
  /\ UNCHANGED <<source, globals, functions, symbols, out, failed>>

Define ==
  /\ At("define")
  /\ macros' = Put(macros, Line.x, Standing(Line.args[1], macros))
  /\ todo' = Tail(todo)
  /\ UNCHANGED <<source, globals, functions, symbols, out, failed>>

\* create_macro_function, for the definition on a line.  Splitting no operands
\* at their commas gives one that is empty.
Function(line, body) ==
  LET def == source[line]
  IN  Put(functions, def.x,
          [params |-> IF def.args = <<>> THEN <<"">> ELSE def.args, body |-> body])

\* A macro function that goes on in the next line makes the preprocessor eat.
DefineFunction ==
  /\ At("macro")
  /\ IF Item.more
     THEN /\ stack' = Append(stack, Entry(Item.line, <<>>, state, hungry, accepted))
          /\ state' = "define" /\ hungry' = TRUE /\ accepted' = {}
          /\ UNCHANGED functions
     ELSE /\ functions' = Function(Item.line, <<[Item EXCEPT !.d = "ins"]>>)
          /\ UNCHANGED globals
  /\ todo' = Tail(todo)
  /\ UNCHANGED <<source, macros, symbols, out, failed>>

-----------------------------------------------------------------------------
\* Any other line, or a directive that is not accepted now.
Ordinary == ~failed /\ todo # <<>> /\ Item.d \notin accepted

\* In a macro function the backslash is not part of the line.
EatenItem == IF state = "define" THEN [Item EXCEPT !.more = FALSE] ELSE Item
Eaten     == [stack EXCEPT ![Len(stack)].body = Append(@, EatenItem)]

Eat ==
  /\ Ordinary /\ hungry
  /\ state = "define" => Item.more
  /\ stack' = Eaten
  /\ todo' = Tail(todo)
  /\ UNCHANGED <<source, state, hungry, accepted, macros, functions, symbols, out, failed>>

\* Mutant of EatLast: the line without a backslash is not in the body.
EatLastEndsBefore ==
  /\ Ordinary /\ hungry
  /\ state = "define" /\ ~Item.more
  /\ functions' = Function(Top.value, Top.body)
  /\ Restore(Top)
  /\ stack' = Rest
  /\ todo' = Tail(todo)
  /\ UNCHANGED <<source, macros, symbols, out, failed>>

\* The last line of a macro function.
EatLast ==
  /\ Ordinary /\ hungry
  /\ state = "define" /\ ~Item.more
  /\ functions' = Function(Top.value, Append(Top.body, Item))
  /\ Restore(Top)
  /\ stack' = Rest
  /\ todo' = Tail(todo)
  /\ UNCHANGED <<source, macros, symbols, out, failed>>

\* Between a branch taken and #endif lines are dropped.
Drop ==
  /\ Ordinary /\ ~hungry /\ state # "passthrough"
  /\ todo' = Tail(todo)
  /\ UNCHANGED <<source, globals, macros, functions, symbols, out, failed>>

\* The line is decoded and assembled.
Passed(d) == Ordinary /\ ~hungry /\ state = "passthrough" /\ Item.d = d

\* Mutant of Operands: a macro hides the parameter of its name.
OperandsOfMacros ==
  [k \in DOMAIN Line.args |->
     LET o == Line.args[k] IN
     CASE o \in DOMAIN macros -> macros[o]
       [] o \in DOMAIN Item.over \ DOMAIN macros -> Item.over[o]
       [] OTHER -> o]

\* The line's operands: a parameter is replaced before a macro of its name.
Operands ==
  [k \in DOMAIN Line.args |->
     LET o == Line.args[k] IN
     CASE o \in DOMAIN Item.over -> Item.over[o]
       [] o \in DOMAIN macros \ DOMAIN Item.over -> macros[o]
       [] OTHER -> o]

Pass ==
  /\ Passed("ins")
  /\ out' = Append(out, [key |-> Append(Item.path, Item.line), args |-> Operands])
  /\ todo' = Tail(todo)
  /\ UNCHANGED <<source, globals, macros, functions, symbols, failed>>

\* It was dealt with by the prepass, or nobody ever will.
PassEqu ==
  /\ Passed("equ")
  /\ todo' = Tail(todo)
  /\ UNCHANGED <<source, globals, macros, functions, symbols, out, failed>>

PassLabel ==
  /\ Passed("label")
  /\ symbols' = symbols \cup {Line.x}
  /\ failed' = (Line.x \in symbols)
  /\ todo' = Tail(todo)
  /\ UNCHANGED <<source, globals, macros, functions, out>>

Callable == /\ Line.x \in DOMAIN functions
            /\ Len(functions[Line.x].params) = Len(Line.args)
            /\ Len(Item.path) < Limit

\* expand_macro: assemble_lines on the body, from the operands as they are now.
Call ==
  /\ Passed("call") /\ Callable
  /\ LET f    == functions[Line.x]
         last(p) == Max({k \in DOMAIN f.params : f.params[k] = p})
         over == [p \in Range(f.params) |-> Operands[last(p)]]
     IN  todo' = [k \in DOMAIN f.body |-> [f.body[k] EXCEPT !.over = over,
                                            !.path = Append(Item.path, Item.line)]]
                 \o Tail(todo)
  /\ UNCHANGED <<source, globals, macros, functions, symbols, out, failed>>

BadCall ==
  /\ Passed("call") /\ ~Callable
  /\ failed' = TRUE
  /\ UNCHANGED <<source, todo, globals, macros, functions, symbols, out>>

\* Mutant of Recursion: no end to it.
RecursionUnlimited ==
  /\ Ordinary /\ ~hungry /\ state = "passthrough"
  /\ Item.d \in Directives
  /\ UNCHANGED vars

\* A directive that comes through is assembled as a line that begins with '#',
\* that is, preprocessed again, until Python's recursion limit makes it an error.
Recursion ==
  /\ Ordinary /\ ~hungry /\ state = "passthrough"
  /\ Item.d \in Directives
  /\ failed' = TRUE
  /\ UNCHANGED <<source, todo, globals, macros, functions, symbols, out>>

Next ==
  \/ Ifdef \/ Lone \/ SkipRest \/ Elifdef \/ Else \/ Endif
  \/ Define \/ DefineFunction
  \/ Eat \/ EatLast \/ Drop
  \/ Pass \/ PassEqu \/ PassLabel \/ Call \/ BadCall \/ Recursion

Spec == Init /\ [][Next]_vars

\* assemble_lines goes on until there are no more lines, or an error.
FairSpec == Spec /\ WF_vars(Next)

-----------------------------------------------------------------------------
(* What a preprocessor makes of a source, read from its first line to its last. *)

Lines == DOMAIN source

\* An equ counts wherever it is, unless it is a line of a macro function that
\* is not its last.
Consts == {i \in Lines : source[i].d = "equ" /\ ~source[i].more}

\* The line is in a macro function's body, which its definition is not.
InMacro == LET m[i \in 0..Len(source)] ==
                 IF i = 0 THEN FALSE
                 ELSE source[i].more /\ (m[i - 1] \/ source[i].d = "macro")
           IN [i \in Lines |-> m[i - 1]]

IsDirective(i, ds) == source[i].d \in ds /\ ~InMacro[i]

\* How many conditionals are open after line i, in the source or in its body.
DepthOf(inside) ==
  LET d[i \in 0..Len(source)] ==
        IF i = 0 \/ (i \in Lines /\ inside /\ ~InMacro[i]) THEN 0
        ELSE IF InMacro[i] # inside THEN d[i - 1]
        ELSE CASE source[i].d \in {"ifdef", "ifndef"} -> d[i - 1] + 1
               [] source[i].d = "endif"                -> d[i - 1] - 1
               [] OTHER                                -> d[i - 1]
  IN d
Depth     == DepthOf(FALSE)
BodyDepth == DepthOf(TRUE)

\* The #ifdef that line i is under, and the directives of its branches up to i.
OpenedAt(i) == CHOOSE j \in 1..i : /\ IsDirective(j, {"ifdef", "ifndef"})
                                   /\ \A k \in (j + 1)..i : ~IsDirective(k, {"ifdef", "ifndef"})
BranchesTo(i) ==
  {j \in OpenedAt(i)..i :
     IsDirective(j, {"ifdef", "ifndef", "elifdef", "elifndef", "else"})}

\* Conditionals are closed, not nested, and #else comes last; a macro function
\* ends before the source does, and has directives only where nothing is open.
WellFormed ==
  /\ \A i \in 0..Len(source) : Depth[i] \in {0, 1}
  /\ Depth[Len(source)] = 0
  /\ \A i \in Lines :
       /\ IsDirective(i, {"elifdef", "elifndef", "else"}) =>
            /\ Depth[i] = 1
            /\ \A j \in BranchesTo(i) : j < i => source[j].d # "else"
       /\ source[i].more => i < Len(source) /\ (IsDirective(i, {"macro"}) \/ InMacro[i])
       /\ InMacro[i] /\ source[i].d \in Directives => Depth[i] = 0

\* Macro functions have no directives, or are not called.
Tame ==
  WellFormed /\ (\/ \A i \in Lines : InMacro[i] => source[i].d \notin Directives
                 \/ \A i \in Lines : source[i].d # "call")

\* Macro functions have whole conditionals, in which #else comes last, and
\* nothing that one can depend on.
Balanced ==
  WellFormed /\ \A i \in Lines : InMacro[i] =>
    /\ source[i].d \in Conditional \cup {"ins", "call"}
    /\ BodyDepth[i] \in {0, 1} /\ (~source[i].more => BodyDepth[i] = 0)
    /\ source[i].d \in {"else", "elifdef", "elifndef"} =>
         /\ BodyDepth[i] = 1
         /\ \A j \in 1..(i - 1) : InMacro[j] /\ source[j].d = "else" =>
              \E k \in (j + 1)..(i - 1) : source[k].d = "endif"

\* The macro function defined at line m: its lines and parameters.
BodyOf(m) == IF source[m].more
             THEN {j \in Lines : j > m /\ \A k \in (m + 1)..j : InMacro[k]} ELSE {m}
ParamsOf(m) == IF source[m].args = <<>> THEN <<"">> ELSE source[m].args

\* Line j calls a macro function as it is in the table fns of their definitions.
GoodCall(j, fns) ==
  /\ source[j].d = "call" /\ source[j].x \in DOMAIN fns
  /\ Len(source[j].args) = Len(ParamsOf(fns[source[j].x]))

\* The ways from line i through n calls, each to a line of the function called.
Ways(i, fns) ==
  LET w[n \in 0..Limit] ==
        IF n = 0 THEN {<<i>>}
        ELSE UNION {{Append(k, j) : j \in BodyOf(fns[source[Last(k)].x])} :
                    k \in {k \in w[n - 1] : GoodCall(Last(k), fns)}}
  IN  UNION {w[n] : n \in 0..Limit}

IsLabel(k) == source[Last(k)].d = "label"
IsIns(k)   == source[Last(k)].d = "ins" \/ (Len(k) > 1 /\ source[Last(k)].d = "macro")

\* Reading in order: what is defined after line i, and whether the line counts.
Meaning ==
  LET read[i \in 0..Len(source)] ==
        IF i = 0 THEN [macros |-> Nothing, fns |-> Nothing, live |-> TRUE, taken |-> FALSE,
                       symbols |-> {source[j].x : j \in Consts}]
        ELSE LET r == read[i - 1]
                 l == source[i]
                 t == IF l.d \in {"ifdef", "elifdef"} THEN l.x \in DOMAIN r.macros \cup r.symbols
                      ELSE l.d = "else" \/ l.x \notin DOMAIN r.macros \cup r.symbols
             IN CASE IsDirective(i, {"ifdef", "ifndef"}) -> [r EXCEPT !.live = t, !.taken = t]
                  [] IsDirective(i, {"elifdef", "elifndef", "else"}) ->
                       [r EXCEPT !.live = t /\ ~r.taken, !.taken = r.taken \/ t]
                  [] IsDirective(i, {"endif"}) -> [r EXCEPT !.live = TRUE]
                  [] IsDirective(i, {"define"}) /\ r.live ->
                       [r EXCEPT !.macros = Put(@, l.x, Standing(l.args[1], @))]
                  [] IsDirective(i, {"macro"}) /\ r.live -> [r EXCEPT !.fns = Put(@, l.x, i)]
                  [] IsDirective(i, {"label", "call"}) /\ r.live ->
                       [r EXCEPT !.symbols = @ \cup
                          {source[Last(k)].x : k \in {k \in Ways(i, r.fns) : IsLabel(k)}}]
                  [] OTHER -> r
  IN read

\* The lines that count, and all that comes of them when calls are expanded.
Kept == {i \in Lines : source[i].d \notin Directives /\ ~InMacro[i] /\ Meaning[i].live}
Expanded == UNION {Ways(i, Meaning[i].fns) : i \in Kept}

\* Two symbols have one name, or a call cannot be made or is too deep.
Faulty ==
  \/ \E i, j \in Consts : i # j /\ source[i].x = source[j].x
  \/ \E k \in Expanded : /\ source[Last(k)].d = "call"
                         /\ GoodCall(Last(k), Meaning[k[1]].fns) => Len(k) > Limit
  \/ \E k \in Expanded : /\ IsLabel(k)
                         /\ \/ \E i \in Consts : source[i].x = source[Last(k)].x
                            \/ \E h \in Expanded \ {k} :
                                 IsLabel(h) /\ source[Last(h)].x = source[Last(k)].x

\* A line of a macro function that shares its branch of a conditional in it with
\* another line.
Shares(i) == /\ InMacro[i] /\ BodyDepth[i] = 1
             /\ \E j \in {i - 1, i + 1} : source[j].d \notin Conditional

\* The operands of the line that a way ends in, calls being made in order.
ResolvedAt(k) ==
  LET m == Meaning[k[1]]
      args[n \in 1..Len(k)] ==
        LET params == IF n = 1 \/ Shares(k[n]) THEN <<>>
                      ELSE ParamsOf(m.fns[source[k[n - 1]].x])
            Value(o) == IF Contains(params, o)
                        THEN args[n - 1][Max({p \in DOMAIN params : params[p] = o})]
                        ELSE IF o \in DOMAIN m.macros THEN m.macros[o] ELSE o
        IN  [p \in DOMAIN source[k[n]].args |-> Value(source[k[n]].args[p])]
  IN  args[Len(k)]

\* Line i is the last definition of its macro function.
IsLast(i) ==
  /\ IsDirective(i, {"macro"}) /\ Meaning[i].live
  /\ \A j \in Lines : (j > i /\ IsDirective(j, {"macro"}) /\ Meaning[j].live)
                        => source[j].x # source[i].x

-----------------------------------------------------------------------------
Done == failed \/ todo = <<>>

\* The four globals agree, whatever the source: outside conditionals and macro
\* functions everything is as it was at first, and inside one the only entry of
\* the stack is its own, so that what is restored at its end is just that
\* (rrasm.py:1090-1200).
GlobalsAgree ==
  IF state = "passthrough"
  THEN stack = <<>> /\ ~hungry /\ accepted = Initially
  ELSE /\ Len(stack) = 1
       /\ Top.state = "passthrough" /\ ~Top.hunger /\ Top.accepted = Initially
       /\ state = "define" => hungry /\ accepted = {}
       /\ ~hungry => Top.value /\ accepted = {"endif"}

\* Of two ways, the one whose lines come first.
Before(k, h) == \E n \in DOMAIN k \cap DOMAIN h :
                  k[n] < h[n] /\ \A m \in 1..(n - 1) : k[m] = h[m]

\* No line is assembled twice for one call or before one that precedes it, and
\* what a call stands for is assembled in its place, however often a branch is
\* collected and preprocessed again.
InSourceOrder == \A i \in 1..(Len(out) - 1) : Before(out[i].key, out[i + 1].key)

\* A source without nested conditionals comes to the instructions of the branches
\* taken, with those of the functions they call, and no other; the symbols are
\* theirs and those of every equ, be it in a branch that is not taken; and only
\* a name that is defined twice, or a call that cannot be made, is an error.
KeepsTakenBranches ==
  Done /\ Tame =>
    /\ failed <=> Faulty
    /\ ~failed =>
         /\ {out[i].key : i \in DOMAIN out} = {k \in Expanded : IsIns(k)}
         /\ symbols = Meaning[Len(source)].symbols

\* An operand is what the innermost call gives for it, or else what the macro of
\* its name stands for where the outermost call is made, which is what its value
\* stood for where it was defined; but in a branch of several lines within a macro
\* function the parameters are not known.
OperandsReplaced ==
  Balanced => \A i \in DOMAIN out : out[i].args = ResolvedAt(out[i].key)

\* The body of a macro function is all of its lines and no other, in order,
\* those that look like directives included, also when its definition was
\* itself collected in a branch (rrasm.py:1191-1201).
MacrosWhole ==
  Done /\ Tame /\ ~failed =>
    \A i \in Lines : IsLast(i) =>
      /\ source[i].x \in DOMAIN functions
      /\ LET body == functions[source[i].x].body IN
         /\ {body[k].line : k \in DOMAIN body} = BodyOf(i)
         /\ \A k \in DOMAIN body : body[k].line = i + k \/ (~source[i].more /\ k = 1)

\* Preprocessing ends, though it feeds lines back to itself.
Terminates == <>Done
=============================================================================
