------------------------- MODULE PreprocessorProofs -------------------------
(***************************************************************************)
(* For every source, of any length and in any order of directives, the     *)
(* preprocessor's globals agree: conditionals and macro functions never    *)
(* nest, and what is restored at the end of one is the state before it.    *)
(* And what is assembled is in the source's order, a call's lines in its   *)
(* place.  For every source whose conditionals are well formed and whose   *)
(* calls stand for no directives, what is assembled is what the source     *)
(* means when it is read once, from its first line to its last.  Calls may *)
(* stand for conditionals too, if those are balanced: every operand that   *)
(* is assembled is then what the calls around it give for it.              *)
(***************************************************************************)
EXTENDS Preprocessor, SequenceTheorems, WellFoundedInduction, TLAPS

Outside == stack = <<>> /\ hungry = FALSE /\ accepted = Initially

\* The stack's one entry, for a conditional's truth or a macro function's name;
\* h, the hunger it restores, is FALSE.
Opened(v, b, h) == <<Entry(v, b, "passthrough", h, Initially)>>

InConditional ==
  \E v \in BOOLEAN, h \in {FALSE} : \E b :
    /\ stack = Opened(v, b, h)
    /\ hungry \in BOOLEAN
    /\ accepted \in {{"endif"}, {"endif", "else", "elifdef", "elifndef"}}
    /\ hungry = FALSE => v = TRUE /\ accepted = {"endif"}

InFunction ==
  \E h \in {FALSE} : \E v, b :
    stack = Opened(v, b, h) /\ hungry = TRUE /\ accepted = {}

PreprocessorInv ==
  \/ state = "passthrough" /\ Outside
  \/ state = "ifdef" /\ InConditional
  \/ state = "define" /\ InFunction

LEMMA EntryFields ==
  ASSUME NEW v, NEW b, NEW s, NEW h, NEW a
  PROVE  LET e == Entry(v, b, s, h, a) IN
         e.value = v /\ e.body = b /\ e.state = s /\ e.hunger = h /\ e.accepted = a
BY DEF Entry

LEMMA Pushed == \A e : Append(<<>>, e) = <<e>>
OBVIOUS

LEMMA Singleton ==
  ASSUME NEW e, NEW s, s = <<e>>
  PROVE  /\ Len(s) = 1 /\ s[Len(s)] = e
         /\ SubSeq(s, 1, Len(s) - 1) = <<>>
<1>1. Len(s) = 1 /\ s[1] = e
  OBVIOUS
<1>2. SubSeq(s, 1, 0) = <<>>
  BY SubSeqEmpty
<1> QED BY <1>1, <1>2

\* What closing, branching and collecting do to a stack of one entry.
LEMMA OneEntry ==
  ASSUME NEW v, NEW b, NEW h, stack = Opened(v, b, h)
  PROVE  /\ Len(stack) = 1 /\ Rest = <<>>
         /\ Top.value = v /\ Top.body = b /\ Top.state = "passthrough"
         /\ Top.hunger = h /\ Top.accepted = Initially
         /\ \A w, c : Append(Rest, Branch(w, c)) = Opened(w, c, h)
         /\ Eaten = Opened(v, Append(b, EatenItem), h)
<1> DEFINE entry == Entry(v, b, "passthrough", h, Initially)
           grown == Entry(v, Append(b, EatenItem), "passthrough", h, Initially)
<1>1. stack = <<entry>>
  BY DEF Opened
<1>2. /\ entry.value = v /\ entry.body = b /\ entry.state = "passthrough"
      /\ entry.hunger = h /\ entry.accepted = Initially
  BY EntryFields
<1>3. grown = [entry EXCEPT !.body = Append(b, EatenItem)]
  BY EntryFields DEF Entry
<1> HIDE DEF entry, grown
<1>4. Len(stack) = 1 /\ Top = entry /\ Rest = <<>>
  BY <1>1, Singleton DEF Top, Rest
<1>5. ASSUME NEW w, NEW c
      PROVE  Append(Rest, Branch(w, c)) = Opened(w, c, h)
  BY <1>2, <1>4 DEF Branch, Opened
<1>6. Eaten = [stack EXCEPT ![1] = grown]
  <2>1. stack[1] = entry /\ entry.body = b
    BY <1>1, <1>2
  <2>2. Eaten = [stack EXCEPT ![1] =
                   [stack[1] EXCEPT !.body = Append(stack[1].body, EatenItem)]]
    BY <1>4 DEF Eaten
  <2> QED BY <1>3, <2>1, <2>2
<1>7. Eaten = <<grown>>
  BY <1>1, <1>6
<1>8. Eaten = Opened(v, Append(b, EatenItem), h)
  BY <1>7 DEF grown, Opened
<1> QED BY <1>2, <1>4, <1>5, <1>8

LEMMA TruthBoolean == \A d : Truth(d) \in BOOLEAN
BY Zenon DEF Truth

LEMMA InvInit == Init => PreprocessorInv
BY DEF Init, PreprocessorInv, Outside

LEMMA InvStep == PreprocessorInv /\ [Next]_vars => PreprocessorInv'
<1> SUFFICES ASSUME PreprocessorInv, [Next]_vars PROVE PreprocessorInv'
  OBVIOUS
<1> USE DEF PreprocessorInv, At, Ordinary
<1>a. ASSUME state = "ifdef" PROVE InConditional
  BY <1>a
<1>b. ASSUME state = "define" PROVE InFunction
  BY <1>b
\* Outside, a conditional or a macro function can begin.
<1>1. ASSUME Ifdef PROVE PreprocessorInv'
  <2>1. state = "passthrough" /\ Outside
    BY <1>1 DEF Ifdef, InConditional, InFunction
  <2>2. PICK v \in BOOLEAN : v = Truth("ifdef")
    BY TruthBoolean
  <2>3. stack' = Append(<<>>, Entry(v, <<>>, "passthrough", hungry, Initially))
    BY <1>1, <2>1, <2>2 DEF Ifdef, Outside
  <2>4. stack' = Opened(v, <<>>, hungry)
    BY <2>3, Pushed DEF Opened
  <2>5. hungry \in {FALSE}
    BY <2>1 DEF Outside
  <2> QED BY <1>1, <2>4, <2>5 DEF Ifdef, InConditional
<1>2. ASSUME DefineFunction PROVE PreprocessorInv'
  <2>1. state = "passthrough" /\ Outside
    BY <1>2 DEF DefineFunction, InConditional, InFunction
  <2>2. CASE Item.more
    <3>1. stack' = Append(<<>>, Entry(Item.line, <<>>, "passthrough", hungry, Initially))
      BY <1>2, <2>1, <2>2 DEF DefineFunction, Outside
    <3>2. stack' = Opened(Item.line, <<>>, hungry)
      BY <3>1, Pushed DEF Opened
    <3>3. hungry \in {FALSE}
      BY <2>1 DEF Outside
    <3> QED BY <1>2, <2>2, <3>2, <3>3 DEF DefineFunction, InFunction
  <2>3. CASE ~Item.more
    BY <1>2, <2>1, <2>3 DEF DefineFunction, Outside, globals
  <2> QED BY <2>2, <2>3
\* In a conditional: its branches and its end.
<1>3. ASSUME SkipRest PROVE PreprocessorInv'
  <2>1. PICK v, h, b : v \in BOOLEAN /\ h \in {FALSE} /\ stack = Opened(v, b, h)
    BY <1>a, <1>3 DEF SkipRest, Open, InConditional
  <2>2. v = TRUE
    BY <1>3, <2>1, OneEntry DEF SkipRest
  <2> QED BY <1>3, <2>1, <2>2 DEF SkipRest, Open, InConditional
<1>4. ASSUME Elifdef PROVE PreprocessorInv'
  <2>1. PICK v, h, b : v \in BOOLEAN /\ h \in {FALSE} /\ stack = Opened(v, b, h)
    BY <1>a, <1>4 DEF Elifdef, Open, InConditional
  <2>2. PICK w \in BOOLEAN : w = Truth("elifdef")
    BY TruthBoolean
  <2>3. stack' = Opened(w, <<>>, h)
    BY ZenonT(30), <1>4, <2>1, <2>2, OneEntry DEF Elifdef
  <2>4. /\ state' = "ifdef" /\ hungry' = TRUE
        /\ accepted' = {"endif", "else", "elifdef", "elifndef"}
    BY <1>4 DEF Elifdef, Open
  <2> QED BY <2>1, <2>3, <2>4 DEF InConditional
<1>5. ASSUME Else PROVE PreprocessorInv'
  <2>1. PICK v, h, b : v \in BOOLEAN /\ h \in {FALSE} /\ stack = Opened(v, b, h)
    BY <1>a, <1>5 DEF Else, Open, InConditional
  <2>2. PICK w \in BOOLEAN : w = TRUE
    OBVIOUS
  <2>3. stack' = Opened(w, <<>>, h)
    BY <1>5, <2>1, <2>2, OneEntry DEF Else
  <2>4. state' = "ifdef" /\ hungry' = TRUE /\ accepted' = {"endif"}
    BY <1>5 DEF Else, Open
  <2> QED BY <2>1, <2>2, <2>3, <2>4 DEF InConditional
<1>6. ASSUME Endif PROVE PreprocessorInv'
  <2>1. PICK v, h, b : v \in BOOLEAN /\ h \in {FALSE} /\ stack = Opened(v, b, h)
    BY <1>a, <1>6 DEF Endif, Open, InConditional
  <2> QED BY <1>6, <2>1, OneEntry DEF Endif, Restore, Outside
\* Lines that are collected.
<1>7. ASSUME Eat PROVE PreprocessorInv'
  <2>0. stack' = Eaten
    BY <1>7 DEF Eat
  <2>1. CASE state = "ifdef"
    <3>1. PICK v, h, b :
            /\ v \in BOOLEAN /\ h \in {FALSE}
            /\ stack = Opened(v, b, h) /\ hungry \in BOOLEAN
            /\ accepted \in {{"endif"}, {"endif", "else", "elifdef", "elifndef"}}
            /\ hungry = FALSE => v = TRUE /\ accepted = {"endif"}
      BY <1>a, <2>1 DEF InConditional
    <3>2. stack' = Opened(v, Append(b, EatenItem), h)
      BY <2>0, <3>1, OneEntry
    <3> QED BY <1>7, <2>1, <3>1, <3>2 DEF Eat, InConditional
  <2>2. CASE state = "define"
    <3>1. PICK h, v, b :
            h \in {FALSE} /\ stack = Opened(v, b, h) /\ hungry = TRUE /\ accepted = {}
      BY <1>b, <2>2 DEF InFunction
    <3>2. stack' = Opened(v, Append(b, EatenItem), h)
      BY <2>0, <3>1, OneEntry
    <3> QED BY <1>7, <2>2, <3>1, <3>2 DEF Eat, InFunction
  <2>3. state # "passthrough"
    BY <1>7 DEF Eat, Outside
  <2> QED BY <2>1, <2>2, <2>3
<1>8. ASSUME EatLast PROVE PreprocessorInv'
  <2>0. state = "define"
    BY <1>8 DEF EatLast
  <2>1. PICK h, v, b :
          h \in {FALSE} /\ stack = Opened(v, b, h) /\ hungry = TRUE /\ accepted = {}
    BY <1>b, <2>0 DEF InFunction
  <2> QED BY <1>8, <2>1, OneEntry DEF EatLast, Restore, Outside
\* Nothing else touches the globals.
<1>9. ASSUME UNCHANGED globals PROVE PreprocessorInv'
  <2>1. state' = state /\ hungry' = hungry /\ accepted' = accepted /\ stack' = stack
    BY <1>9 DEF globals
  <2> QED BY <2>1 DEF Outside, InConditional, InFunction
<1>10. ASSUME \/ Lone \/ Define \/ Drop \/ Recursion \/ UNCHANGED vars
              \/ Pass \/ PassEqu \/ PassLabel \/ Call \/ BadCall
       PROVE  UNCHANGED globals
  BY <1>10 DEF Lone, Define, Drop, Recursion, vars, Pass, PassEqu, PassLabel, Call, BadCall
<1> QED BY <1>1, <1>2, <1>3, <1>4, <1>5, <1>6, <1>7, <1>8, <1>9, <1>10 DEF Next

LEMMA InvAgrees == PreprocessorInv => GlobalsAgree
<1> SUFFICES ASSUME PreprocessorInv PROVE GlobalsAgree
  OBVIOUS
<1>1. CASE state = "passthrough"
  BY <1>1 DEF PreprocessorInv, Outside, GlobalsAgree
<1>2. CASE state = "ifdef"
  <2>1. PICK v, h, b :
          /\ v \in BOOLEAN /\ h \in {FALSE}
          /\ stack = Opened(v, b, h) /\ hungry \in BOOLEAN
          /\ hungry = FALSE => v = TRUE /\ accepted = {"endif"}
    BY <1>2 DEF PreprocessorInv, InConditional
  <2>2. /\ Len(stack) = 1 /\ Top.value = v /\ Top.state = "passthrough"
        /\ Top.hunger = h /\ Top.accepted = Initially
    BY <2>1, OneEntry
  <2> QED BY <1>2, <2>1, <2>2 DEF GlobalsAgree
<1>3. CASE state = "define"
  <2>1. PICK h, v, b :
          h \in {FALSE} /\ stack = Opened(v, b, h) /\ hungry = TRUE /\ accepted = {}
    BY <1>3 DEF PreprocessorInv, InFunction
  <2>2. /\ Len(stack) = 1 /\ Top.state = "passthrough"
        /\ Top.hunger = h /\ Top.accepted = Initially
    BY <2>1, OneEntry
  <2> QED BY <1>3, <2>1, <2>2 DEF GlobalsAgree
<1> QED BY <1>1, <1>2, <1>3 DEF PreprocessorInv

\* Whatever a source holds, the state, the hunger, the directives accepted and
\* the stack agree (rrasm.py:1080-1208).
THEOREM GlobalsAlwaysAgree == Spec => []GlobalsAgree
<1>1. PreprocessorInv /\ [Next]_vars => PreprocessorInv'
  BY InvStep
<1> QED BY InvInit, <1>1, InvAgrees, PTL DEF Spec

-----------------------------------------------------------------------------
(* What is preprocessed is in order: the lines of the branch that is being *)
(* collected come before those that follow, and those of a macro function  *)
(* are in the order they have in the source, so that what a call stands    *)
(* for, all of it with the call's path, comes in the call's place.         *)

Values(s) == {s[i] : i \in DOMAIN s}
IsSeq(s)  == s \in Seq(Values(s))

Key(it) == Append(it.path, it.line)

\* Only a line of the source itself, not of a call, goes on in the next line.
IsItem(it) ==
  /\ DOMAIN it = {"line", "d", "more", "over", "path"}
  /\ it.line \in Nat /\ it.path \in Seq(Nat)
  /\ it.more \in BOOLEAN /\ (it.more => it.path = <<>>)

Items(s) == IsSeq(s) /\ \A i \in DOMAIN s : IsItem(s[i])

\* Once what calls stand for is preprocessed, only the source's lines are left.
Earlier(a, b) == Before(Key(a), Key(b)) /\ (a.path = <<>> => b.path = <<>>)

InOrder(s)       == \A i, j \in DOMAIN s : i < j => Earlier(s[i], s[j])
AllEarlier(s, t) == \A i \in DOMAIN s, j \in DOMAIN t : Earlier(s[i], t[j])
OfSource(s)      == \A i \in DOMAIN s : s[i].path = <<>>

\* The lines of a macro function.
IsBody(b) ==
  /\ Items(b)
  /\ \A i \in DOMAIN b : ~b[i].more
  /\ \A i, j \in DOMAIN b : i < j => b[i].line < b[j].line

Bodies(fns) == \A f \in DOMAIN fns : IsBody(fns[f].body)

\* What is collected, of a branch or of a macro function.
Collected == IF state = "passthrough" THEN <<>> ELSE Top.body

OutInOrder(o) == /\ IsSeq(o)
                 /\ \A i \in DOMAIN o : o[i].key \in Seq(Nat)
                 /\ \A i, j \in DOMAIN o : i < j => Before(o[i].key, o[j].key)

OutBefore(o, s) == \A i \in DOMAIN o, j \in DOMAIN s : Before(o[i].key, Key(s[j]))

\* The instructions o, then the items collected c, then those to come t.
Ordered(o, c, t) ==
  /\ Items(t) /\ InOrder(t) /\ OutBefore(o, t)
  /\ Items(c) /\ InOrder(c) /\ OutBefore(o, c)
  /\ AllEarlier(c, t)
  /\ OutInOrder(o)

OfFunction(c, t) == IsBody(c) /\ OfSource(c) /\ OfSource(t)

OrderInv ==
  /\ Ordered(out, Collected, todo)
  /\ state = "define" => OfFunction(Collected, todo)
  /\ Bodies(functions)

LEMMA SeqFacts ==
  ASSUME NEW s, IsSeq(s) PROVE Len(s) \in Nat /\ DOMAIN s = 1..Len(s)
BY DEF IsSeq

LEMMA IsSeqIn ==
  ASSUME NEW S, NEW s, s \in Seq(S) PROVE IsSeq(s)
<1>1. \A i \in DOMAIN s : s[i] \in Values(s)
  BY DEF Values
<1>2. s = [i \in 1..Len(s) |-> s[i]] /\ Len(s) \in Nat
  OBVIOUS
<1> QED BY <1>1, <1>2 DEF IsSeq

LEMMA EmptyIsSeq == IsSeq(<<>>) /\ DOMAIN <<>> = {} /\ Len(<<>>) = 0
<1>1. <<>> \in Seq(Values(<<>>))
  OBVIOUS
<1>2. DOMAIN <<>> = {} /\ Len(<<>>) = 0
  OBVIOUS
<1> QED BY <1>1, <1>2 DEF IsSeq

LEMMA FunctionIsSeq ==
  ASSUME NEW n \in Nat, NEW f, f = [k \in 1..n |-> f[k]] PROVE IsSeq(f)
<1>1. DOMAIN f = 1..n
  OBVIOUS
<1>2. \A k \in 1..n : f[k] \in Values(f)
  BY <1>1 DEF Values
<1> QED BY <1>2 DEF IsSeq

LEMMA TailSeq ==
  ASSUME NEW s, IsSeq(s), s # <<>>
  PROVE  /\ IsSeq(Tail(s)) /\ 1 \in DOMAIN s /\ Head(s) = s[1]
         /\ \A i \in DOMAIN Tail(s) : i \in Nat /\ i + 1 \in DOMAIN s /\ i + 1 > 1 /\ Tail(s)[i] = s[i + 1]
<1>1. s \in Seq(Values(s))
  BY DEF IsSeq
<1>2. /\ Tail(s) \in Seq(Values(s)) /\ Len(Tail(s)) = Len(s) - 1
      /\ \A i \in 1..Len(Tail(s)) : Tail(s)[i] = s[i + 1]
  BY <1>1, HeadTailProperties
<1>3. Len(s) \in Nat \ {0} /\ DOMAIN s = 1..Len(s) /\ DOMAIN Tail(s) = 1..(Len(s) - 1)
  BY <1>1, <1>2, EmptyIsSeq
<1>4. IsSeq(Tail(s))
  BY <1>2, IsSeqIn
<1>5. Head(s) = s[1]
  BY <1>1
<1> QED BY <1>2, <1>3, <1>4, <1>5

LEMMA AppendSeq ==
  ASSUME NEW s, IsSeq(s), NEW e
  PROVE  /\ IsSeq(Append(s, e))
         /\ DOMAIN Append(s, e) = 1..(Len(s) + 1)
         /\ \A i \in DOMAIN s : Append(s, e)[i] = s[i]
         /\ Append(s, e)[Len(s) + 1] = e
<1> DEFINE S == Values(s) \cup {e}
<1>1. s \in Seq(S) /\ e \in S
  BY DEF IsSeq, Values
<1> HIDE DEF S
<1>2. Append(s, e) \in Seq(S)
  BY <1>1
<1>3. IsSeq(Append(s, e))
  BY <1>2, IsSeqIn
<1> QED BY <1>1, <1>2, <1>3

LEMMA ConcatSeq ==
  ASSUME NEW s, IsSeq(s), NEW t, IsSeq(t)
  PROVE  /\ IsSeq(s \o t)
         /\ DOMAIN (s \o t) = 1..(Len(s) + Len(t))
         /\ \A i \in DOMAIN s : (s \o t)[i] = s[i]
         /\ \A i \in DOMAIN (s \o t) : i \notin DOMAIN s =>
              i - Len(s) \in DOMAIN t /\ (s \o t)[i] = t[i - Len(s)]
<1> DEFINE S == Values(s) \cup Values(t)
<1>1. s \in Seq(S) /\ t \in Seq(S)
  BY DEF IsSeq, Values
<1> HIDE DEF S
<1>2. /\ s \o t \in Seq(S) /\ Len(s \o t) = Len(s) + Len(t)
      /\ \A i \in 1..(Len(s) + Len(t)) :
           (s \o t)[i] = IF i =< Len(s) THEN s[i] ELSE t[i - Len(s)]
  BY <1>1, ConcatProperties
<1>3. Len(s) \in Nat /\ DOMAIN s = 1..Len(s) /\ Len(t) \in Nat /\ DOMAIN t = 1..Len(t)
  BY <1>1
<1>4. DOMAIN (s \o t) = 1..(Len(s) + Len(t))
  BY <1>2
<1>5. IsSeq(s \o t)
  <2>1. s \o t \in Seq(S)
    BY <1>2
  <2> QED BY <2>1, IsSeqIn
<1> QED BY <1>2, <1>3, <1>4, <1>5

\* What is before a line is before the lines that a call on it stands for, and
\* they are before what it is before.
LEMMA BeforeExtends ==
  ASSUME NEW k \in Seq(Nat), NEW h \in Seq(Nat), Before(k, h), NEW l \in Nat
  PROVE  Before(Append(k, l), h) /\ Before(k, Append(h, l))
<1>1. PICK n \in DOMAIN k \cap DOMAIN h : k[n] < h[n] /\ \A m \in 1..(n - 1) : k[m] = h[m]
  BY DEF Before
<1>2. n \in Nat /\ n =< Len(k) /\ n =< Len(h)
  OBVIOUS
<1>3. /\ DOMAIN k \subseteq DOMAIN Append(k, l) /\ \A m \in DOMAIN k : Append(k, l)[m] = k[m]
      /\ DOMAIN h \subseteq DOMAIN Append(h, l) /\ \A m \in DOMAIN h : Append(h, l)[m] = h[m]
  OBVIOUS
<1>4. \A m \in 1..(n - 1) : m \in DOMAIN k /\ m \in DOMAIN h
  BY <1>2
<1>5. Before(Append(k, l), h)
  BY <1>1, <1>3, <1>4 DEF Before
<1>6. Before(k, Append(h, l))
  BY <1>1, <1>3, <1>4 DEF Before
<1> QED BY <1>5, <1>6

LEMMA BeforeSiblings ==
  ASSUME NEW p \in Seq(Nat), NEW a \in Nat, NEW b \in Nat
  PROVE  /\ a < b => Before(Append(p, a), Append(p, b))
         /\ p = <<>> /\ Before(Append(p, a), Append(p, b)) => a < b
<1> DEFINE k == Append(p, a)
           h == Append(p, b)
           n == Len(p) + 1
<1>1. n \in DOMAIN k \cap DOMAIN h /\ k[n] = a /\ h[n] = b
  OBVIOUS
<1>2. \A m \in 1..(n - 1) : k[m] = p[m] /\ h[m] = p[m]
  OBVIOUS
<1>3. p = <<>> => DOMAIN k = {1} /\ n = 1
  OBVIOUS
<1> HIDE DEF k, h, n
<1>4. a < b => Before(k, h)
  BY <1>1, <1>2 DEF Before
<1>5. p = <<>> /\ Before(k, h) => a < b
  BY <1>1, <1>3 DEF Before
<1> QED BY <1>4, <1>5 DEF k, h

\* Without its first item a list is as it was.
LEMMA TailKeeps ==
  ASSUME NEW s, s # <<>>, Items(s), InOrder(s)
  PROVE  /\ Items(Tail(s)) /\ InOrder(Tail(s)) /\ IsItem(Head(s))
         /\ \A j \in DOMAIN Tail(s) : Earlier(Head(s), Tail(s)[j])
         /\ \A c : AllEarlier(c, s) => /\ AllEarlier(c, Tail(s))
                                       /\ \A i \in DOMAIN c : Earlier(c[i], Head(s))
         /\ \A o : OutBefore(o, s) => /\ OutBefore(o, Tail(s))
                                      /\ \A i \in DOMAIN o : Before(o[i].key, Key(Head(s)))
         /\ OfSource(s) => OfSource(Tail(s)) /\ Head(s).path = <<>>
<1> DEFINE r == Tail(s)
           e == Head(s)
<1>1. /\ IsSeq(r) /\ 1 \in DOMAIN s /\ e = s[1]
      /\ \A i \in DOMAIN r : i \in Nat /\ i + 1 \in DOMAIN s /\ i + 1 > 1 /\ r[i] = s[i + 1]
  BY TailSeq DEF Items
<1> HIDE DEF r, e
<1>2. Items(r) /\ IsItem(e)
  BY <1>1 DEF Items
<1>3. InOrder(r)
  <2> SUFFICES ASSUME NEW i \in DOMAIN r, NEW j \in DOMAIN r, i < j
               PROVE  Earlier(r[i], r[j])
    BY DEF InOrder
  <2>1. i + 1 < j + 1
    BY <1>1
  <2> QED BY <1>1, <2>1 DEF InOrder
<1>4. \A j \in DOMAIN r : Earlier(e, r[j])
  BY <1>1 DEF InOrder
<1>5. ASSUME NEW c, AllEarlier(c, s)
      PROVE  AllEarlier(c, r) /\ \A i \in DOMAIN c : Earlier(c[i], e)
  BY <1>1, <1>5 DEF AllEarlier
<1>6. ASSUME NEW o, OutBefore(o, s)
      PROVE  OutBefore(o, r) /\ \A i \in DOMAIN o : Before(o[i].key, Key(e))
  BY <1>1, <1>6 DEF OutBefore
<1>7. OfSource(s) => OfSource(r) /\ e.path = <<>>
  BY <1>1 DEF OfSource
<1> QED BY <1>2, <1>3, <1>4, <1>5, <1>6, <1>7 DEF r, e

\* Two lists of which one precedes the other are one.
LEMMA ConcatKeeps ==
  ASSUME NEW s, NEW t, Items(s), InOrder(s), Items(t), InOrder(t), AllEarlier(s, t)
  PROVE  /\ Items(s \o t) /\ InOrder(s \o t)
         /\ \A o : OutBefore(o, s) /\ OutBefore(o, t) => OutBefore(o, s \o t)
<1> DEFINE u == s \o t
           n == Len(s)
<1>1. /\ IsSeq(u) /\ DOMAIN u = 1..(n + Len(t))
      /\ \A i \in DOMAIN s : u[i] = s[i]
      /\ \A i \in DOMAIN u : i \notin DOMAIN s => i - n \in DOMAIN t /\ u[i] = t[i - n]
  BY ConcatSeq DEF Items
<1>2. n \in Nat /\ DOMAIN s = 1..n /\ Len(t) \in Nat
  BY SeqFacts DEF Items
<1> HIDE DEF u, n
<1>3. \A i \in DOMAIN u : IsItem(u[i])
  BY <1>1 DEF Items
<1>4. ASSUME NEW i \in DOMAIN u, NEW j \in DOMAIN u, i < j
      PROVE  Earlier(u[i], u[j])
  <2>1. CASE i \in DOMAIN s /\ j \in DOMAIN s
    BY <1>1, <1>4, <2>1 DEF InOrder
  <2>2. CASE i \in DOMAIN s /\ j \notin DOMAIN s
    BY <1>1, <2>2 DEF AllEarlier
  <2>3. CASE i \notin DOMAIN s
    <3>1. j \notin DOMAIN s /\ i - n < j - n
      BY <1>1, <1>2, <1>4, <2>3
    <3>2. /\ i - n \in DOMAIN t /\ u[i] = t[i - n]
          /\ j - n \in DOMAIN t /\ u[j] = t[j - n]
      BY <1>1, <2>3, <3>1
    <3> QED BY <3>1, <3>2 DEF InOrder
  <2> QED BY <2>1, <2>2, <2>3
<1>5. ASSUME NEW o, OutBefore(o, s), OutBefore(o, t) PROVE OutBefore(o, u)
  <2> SUFFICES ASSUME NEW i \in DOMAIN o, NEW j \in DOMAIN u
               PROVE  Before(o[i].key, Key(u[j]))
    BY DEF OutBefore
  <2>1. CASE j \in DOMAIN s
    BY <1>1, <1>5, <2>1 DEF OutBefore
  <2>2. CASE j \notin DOMAIN s
    BY <1>1, <1>5, <2>2 DEF OutBefore
  <2> QED BY <2>1, <2>2
<1> QED BY <1>1, <1>3, <1>4, <1>5 DEF Items, InOrder, u

LEMMA NothingKeeps ==
  /\ Items(<<>>) /\ InOrder(<<>>) /\ IsBody(<<>>) /\ OfSource(<<>>)
  /\ \A t : AllEarlier(<<>>, t)
  /\ \A o : OutBefore(o, <<>>)
<1>1. IsSeq(<<>>) /\ DOMAIN <<>> = {}
  BY EmptyIsSeq
<1> QED BY <1>1 DEF Items, InOrder, IsBody, OfSource, AllEarlier, OutBefore

\* Of a list in order, its first item can be moved to the one before, and has
\* the same place there without its backslash.
LEMMA AppendKeeps ==
  ASSUME NEW c, Items(c), InOrder(c), NEW e, IsItem(e),
         \A i \in DOMAIN c : Earlier(c[i], e)
  PROVE  /\ Items(Append(c, e)) /\ InOrder(Append(c, e))
         /\ \A t : AllEarlier(c, t) /\ (\A j \in DOMAIN t : Earlier(e, t[j]))
                     => AllEarlier(Append(c, e), t)
         /\ \A o : OutBefore(o, c) /\ (\A i \in DOMAIN o : Before(o[i].key, Key(e)))
                     => OutBefore(o, Append(c, e))
         /\ OfSource(c) /\ e.path = <<>> => OfSource(Append(c, e))
         /\ IsBody(c) /\ OfSource(c) /\ e.path = <<>> /\ ~e.more => IsBody(Append(c, e))
<1> DEFINE u == Append(c, e)
           n == Len(c) + 1
<1>1. /\ IsSeq(u) /\ DOMAIN u = 1..n
      /\ \A i \in DOMAIN c : u[i] = c[i]
      /\ u[n] = e
  BY AppendSeq DEF Items
<1>2. /\ n \in Nat /\ n - 1 \in Nat /\ DOMAIN c = 1..(n - 1)
  BY SeqFacts DEF Items
<1> HIDE DEF u, n
<1>3. \A i \in DOMAIN u : i \in DOMAIN c \/ i = n
  BY <1>1, <1>2
<1>4. Items(u)
  BY <1>1, <1>3 DEF Items
<1>5. \A i, j \in DOMAIN u : i < j => i \in DOMAIN c /\ (j \in DOMAIN c \/ j = n)
  BY <1>1, <1>2
<1>6. InOrder(u)
  BY <1>1, <1>5 DEF InOrder
<1>7. ASSUME NEW t, AllEarlier(c, t), \A j \in DOMAIN t : Earlier(e, t[j])
      PROVE  AllEarlier(u, t)
  BY <1>1, <1>3, <1>7 DEF AllEarlier
<1>8. ASSUME NEW o, OutBefore(o, c), \A i \in DOMAIN o : Before(o[i].key, Key(e))
      PROVE  OutBefore(o, u)
  BY <1>1, <1>3, <1>8 DEF OutBefore
<1>9. OfSource(c) /\ e.path = <<>> => OfSource(u)
  BY <1>1, <1>3 DEF OfSource
<1>10. ASSUME IsBody(c), OfSource(c), e.path = <<>>, ~e.more PROVE IsBody(u)
  <2>1. \A i \in DOMAIN u : ~u[i].more
    BY <1>1, <1>3, <1>10 DEF IsBody
  <2>2. ASSUME NEW i \in DOMAIN c PROVE c[i].line < e.line
    <3>1. Before(Append(<<>>, c[i].line), Append(<<>>, e.line))
      BY <1>10 DEF Earlier, Key, OfSource
    <3>2. c[i].line \in Nat /\ e.line \in Nat
      BY DEF Items, IsItem
    <3>3. <<>> \in Seq(Nat)
      OBVIOUS
    <3> QED BY <3>1, <3>2, <3>3, BeforeSiblings
  <2>3. \A i, j \in DOMAIN u : i < j => u[i].line < u[j].line
    BY <1>1, <1>5, <1>10, <2>2 DEF IsBody
  <2> QED BY <1>4, <2>1, <2>3 DEF IsBody
<1> QED BY <1>4, <1>6, <1>7, <1>8, <1>9, <1>10 DEF u

LEMMA Popped ==
  ASSUME OrderInv, todo # <<>>
  PROVE  /\ Ordered(out, Collected, Tail(todo)) /\ Ordered(out, <<>>, Tail(todo))
         /\ IsItem(Item)
         /\ \A j \in DOMAIN Tail(todo) : Earlier(Item, Tail(todo)[j])
         /\ \A i \in DOMAIN Collected : Earlier(Collected[i], Item)
         /\ \A i \in DOMAIN out : Before(out[i].key, Key(Item))
         /\ state = "define" => OfFunction(Collected, Tail(todo)) /\ Item.path = <<>>
<1>1. Ordered(out, Collected, todo)
  BY DEF OrderInv
<1>2. /\ Items(todo) /\ InOrder(todo) /\ OutBefore(out, todo)
      /\ AllEarlier(Collected, todo)
  BY <1>1 DEF Ordered
<1>3. /\ Items(Tail(todo)) /\ InOrder(Tail(todo)) /\ IsItem(Item)
      /\ \A j \in DOMAIN Tail(todo) : Earlier(Item, Tail(todo)[j])
      /\ AllEarlier(Collected, Tail(todo))
      /\ \A i \in DOMAIN Collected : Earlier(Collected[i], Item)
      /\ OutBefore(out, Tail(todo))
      /\ \A i \in DOMAIN out : Before(out[i].key, Key(Item))
      /\ OfSource(todo) => OfSource(Tail(todo)) /\ Item.path = <<>>
  BY <1>2, TailKeeps DEF Item
<1>4. Ordered(out, Collected, Tail(todo))
  BY <1>1, <1>3 DEF Ordered
<1>5. Ordered(out, <<>>, Tail(todo))
  BY <1>1, <1>3, NothingKeeps DEF Ordered
<1>6. state = "define" => OfFunction(Collected, Tail(todo)) /\ Item.path = <<>>
  BY <1>3 DEF OrderInv, OfFunction
<1> QED BY <1>3, <1>4, <1>5, <1>6

\* What is collected is what the stack's entry holds, before a step and after.
LEMMA CollectedInStack ==
  ASSUME PreprocessorInv, state # "passthrough"
  PROVE  /\ \E v, h : stack = Opened(v, Collected, h)
         /\ Top.body = Collected /\ Top.state = "passthrough"
<1>1. \E v, b, h : stack = Opened(v, b, h)
  BY Zenon DEF PreprocessorInv, InConditional, InFunction
<1>2. PICK v, b, h : stack = Opened(v, b, h)
  BY <1>1
<1>3. Top.body = b /\ Top.state = "passthrough"
  BY <1>2, OneEntry
<1>4. Collected = b
  BY <1>3 DEF Collected
<1> QED BY <1>2, <1>3, <1>4

LEMMA CollectedNext ==
  ASSUME NEW v, NEW b, NEW h, stack' = Opened(v, b, h), state' # "passthrough"
  PROVE  Collected' = b
<1> DEFINE e == Entry(v, b, "passthrough", h, Initially)
<1>1. e.body = b
  BY EntryFields
<1> HIDE DEF e
<1>2. stack' = <<e>>
  BY DEF Opened, e
<1>3. Top' = e
  BY <1>2, Singleton DEF Top
<1> QED BY <1>1, <1>3 DEF Collected

\* A taken branch's lines have the places they had.
LEMMA BranchedKeeps ==
  ASSUME NEW c, Items(c), InOrder(c)
  PROVE  /\ Items(Branched(c)) /\ InOrder(Branched(c))
         /\ \A t : AllEarlier(c, t) => AllEarlier(Branched(c), t)
         /\ \A o : OutBefore(o, c) => OutBefore(o, Branched(c))
<1> DEFINE u == Branched(c)
<1>1. PICK over : u = [k \in DOMAIN c |-> [c[k] EXCEPT !.over = over]]
  BY DEF Branched
<1> HIDE DEF u
<1>2. DOMAIN u = DOMAIN c
  BY <1>1
<1>3. ASSUME NEW k \in DOMAIN c
      PROVE  /\ IsItem(u[k]) /\ u[k].path = c[k].path
             /\ Key(u[k]) = Key(c[k])
  <2>1. IsItem(c[k]) /\ u[k] = [c[k] EXCEPT !.over = over]
    BY <1>1 DEF Items
  <2>2. /\ DOMAIN u[k] = DOMAIN c[k] /\ u[k].line = c[k].line
        /\ u[k].path = c[k].path /\ u[k].more = c[k].more
    BY <2>1 DEF IsItem
  <2> QED BY <2>1, <2>2 DEF IsItem, Key
<1>4. IsSeq(u)
  <2>1. Len(c) \in Nat /\ DOMAIN u = 1..Len(c)
    BY <1>2, SeqFacts DEF Items
  <2>2. u = [k \in 1..Len(c) |-> u[k]]
    BY <1>1, <2>1
  <2> QED BY <2>1, <2>2, FunctionIsSeq
<1>5. Items(u)
  BY <1>2, <1>3, <1>4 DEF Items
<1>6. InOrder(u)
  BY <1>2, <1>3 DEF InOrder, Earlier
<1>7. ASSUME NEW t, AllEarlier(c, t) PROVE AllEarlier(u, t)
  BY <1>2, <1>3, <1>7 DEF AllEarlier, Earlier
<1>8. ASSUME NEW o, OutBefore(o, c) PROVE OutBefore(o, u)
  BY <1>2, <1>3, <1>8 DEF OutBefore
<1> QED BY <1>5, <1>6, <1>7, <1>8 DEF u

LEMMA KeyFacts ==
  ASSUME NEW it, IsItem(it)
  PROVE  Key(it) \in Seq(Nat) /\ Key(it) # <<>>
<1>1. \A s \in Seq(Nat), l \in Nat : Append(s, l) \in Seq(Nat) /\ Append(s, l) # <<>>
  <2> SUFFICES ASSUME NEW s \in Seq(Nat), NEW l \in Nat
               PROVE  Append(s, l) \in Seq(Nat) /\ Append(s, l) # <<>>
    OBVIOUS
  <2>1. Append(s, l) \in Seq(Nat) /\ 1 \in DOMAIN Append(s, l)
    OBVIOUS
  <2> QED BY <2>1, EmptyIsSeq
<1>2. it.path \in Seq(Nat) /\ it.line \in Nat
  BY DEF IsItem
<1> QED BY <1>1, <1>2 DEF Key

\* What a call stands for comes in its place, in order.
LEMMA BodyExpands ==
  ASSUME NEW b, IsBody(b), NEW it, IsItem(it), NEW over,
         NEW u, u = [k \in DOMAIN b |-> [b[k] EXCEPT !.over = over,
                                           !.path = Append(it.path, it.line)]]
  PROVE  /\ Items(u) /\ InOrder(u)
         /\ \A t : Items(t) /\ (\A j \in DOMAIN t : Earlier(it, t[j])) => AllEarlier(u, t)
         /\ \A o : OutInOrder(o) /\ (\A i \in DOMAIN o : Before(o[i].key, Key(it)))
                     => OutBefore(o, u)
<1> DEFINE p == Append(it.path, it.line)
<1>1. p \in Seq(Nat) /\ p # <<>> /\ p = Key(it)
  BY KeyFacts DEF Key
<1>2. DOMAIN u = DOMAIN b /\ \A k \in DOMAIN u : u[k] = [b[k] EXCEPT !.over = over, !.path = p]
  OBVIOUS
<1> HIDE DEF p
<1>3. ASSUME NEW k \in DOMAIN b
      PROVE  /\ IsItem(u[k]) /\ u[k].path = p /\ b[k].line \in Nat
             /\ Key(u[k]) = Append(p, b[k].line)
  <2>1. IsItem(b[k]) /\ ~b[k].more /\ u[k] = [b[k] EXCEPT !.over = over, !.path = p]
    BY <1>2 DEF IsBody, Items
  <2>2. /\ DOMAIN u[k] = DOMAIN b[k] /\ u[k].line = b[k].line
        /\ u[k].path = p /\ u[k].more = b[k].more
    BY <2>1 DEF IsItem
  <2> QED BY <1>1, <2>1, <2>2 DEF IsItem, Key
<1>4. IsSeq(u)
  <2>1. Len(b) \in Nat /\ DOMAIN u = 1..Len(b)
    BY <1>2, SeqFacts DEF IsBody, Items
  <2>2. u = [k \in 1..Len(b) |-> u[k]]
    BY <2>1
  <2> QED BY <2>1, <2>2, FunctionIsSeq
<1>5. Items(u)
  BY <1>2, <1>3, <1>4 DEF Items
<1>6. InOrder(u)
  <2> SUFFICES ASSUME NEW i \in DOMAIN b, NEW j \in DOMAIN b, i < j
               PROVE  Earlier(u[i], u[j])
    BY <1>2 DEF InOrder
  <2>1. b[i].line < b[j].line
    BY DEF IsBody
  <2>2. Before(Append(p, b[i].line), Append(p, b[j].line))
    BY <1>1, <1>3, <2>1, BeforeSiblings
  <2> QED BY <1>1, <1>3, <2>2 DEF Earlier
<1>7. ASSUME NEW t, Items(t), \A j \in DOMAIN t : Earlier(it, t[j])
      PROVE  AllEarlier(u, t)
  <2> SUFFICES ASSUME NEW i \in DOMAIN b, NEW j \in DOMAIN t
               PROVE  Earlier(u[i], t[j])
    BY <1>2 DEF AllEarlier
  <2>1. Before(p, Key(t[j]))
    BY <1>1, <1>7 DEF Earlier
  <2>3. Key(t[j]) \in Seq(Nat)
    BY <1>7, KeyFacts DEF Items
  <2>4. Before(Append(p, b[i].line), Key(t[j]))
    BY <1>1, <1>3, <2>1, <2>3, BeforeExtends
  <2> QED BY <1>1, <1>3, <2>4 DEF Earlier
<1>8. ASSUME NEW o, OutInOrder(o), \A i \in DOMAIN o : Before(o[i].key, Key(it))
      PROVE  OutBefore(o, u)
  <2> SUFFICES ASSUME NEW i \in DOMAIN o, NEW j \in DOMAIN b
               PROVE  Before(o[i].key, Key(u[j]))
    BY <1>2 DEF OutBefore
  <2>1. o[i].key \in Seq(Nat) /\ Before(o[i].key, p)
    BY <1>1, <1>8 DEF OutInOrder
  <2> QED BY ZenonT(30), <1>1, <1>3, <2>1, BeforeExtends
<1> QED BY <1>5, <1>6, <1>7, <1>8

LEMMA OrderInit == Init => OrderInv
<1> SUFFICES ASSUME Init PROVE OrderInv
  OBVIOUS
<1> DEFINE n == Len(source)
<1>1. n \in Nat /\ DOMAIN source = 1..n /\ \A i \in 1..n : source[i].more \in BOOLEAN
  BY SourcesAssumption DEF Init
<1> HIDE DEF n
<1>2. todo = [i \in 1..n |-> [line |-> i, d |-> source[i].d, more |-> source[i].more,
                               over |-> Nothing, path |-> <<>>]]
  BY <1>1 DEF Init
<1>3. DOMAIN todo = 1..n
  BY <1>2
<1>4. ASSUME NEW i \in DOMAIN todo
      PROVE  /\ IsItem(todo[i]) /\ todo[i].path = <<>> /\ i \in Nat
             /\ Key(todo[i]) = Append(<<>>, i)
  <2>1. todo[i] = [line |-> i, d |-> source[i].d, more |-> source[i].more,
                   over |-> Nothing, path |-> <<>>]
    BY <1>2, <1>3
  <2>2. <<>> \in Seq(Nat) /\ i \in Nat
    BY <1>1, <1>3
  <2> QED BY <1>1, <1>3, <2>1, <2>2 DEF IsItem, Key
<1>5. IsSeq(todo)
  <2>1. todo = [i \in 1..n |-> todo[i]]
    BY <1>2
  <2> QED BY <1>1, <2>1, FunctionIsSeq
<1>6. Items(todo)
  BY <1>4, <1>5 DEF Items
<1>7. InOrder(todo)
  <2> SUFFICES ASSUME NEW i \in DOMAIN todo, NEW j \in DOMAIN todo, i < j
               PROVE  Earlier(todo[i], todo[j])
    BY DEF InOrder
  <2>1. <<>> \in Seq(Nat)
    OBVIOUS
  <2>2. Before(Append(<<>>, i), Append(<<>>, j))
    BY <1>4, <2>1, BeforeSiblings
  <2> QED BY <1>4, <2>2 DEF Earlier
<1>8. out = <<>> /\ IsSeq(out) /\ DOMAIN out = {} /\ Collected = <<>> /\ state # "define"
  BY EmptyIsSeq DEF Init, Collected
<1>9. OutInOrder(out) /\ \A s : OutBefore(out, s)
  BY <1>8 DEF OutInOrder, OutBefore
<1>10. DOMAIN functions = {}
  BY DEF Init, Nothing
<1> QED BY <1>6, <1>7, <1>8, <1>9, <1>10, NothingKeeps DEF OrderInv, Ordered, Bodies

\* A function's lines in the table of functions.
LEMMA FunctionKeeps ==
  ASSUME Bodies(functions), NEW line, NEW b, IsBody(b)
  PROVE  Bodies(Function(line, b))
<1> DEFINE x == source[line].x
           g == Function(line, b)
<1>1. PICK params : g = Put(functions, x, [params |-> params, body |-> b])
  BY Zenon DEF Function
<1> HIDE DEF g, x
<1>2. DOMAIN g = DOMAIN functions \cup {x}
  BY <1>1 DEF Put
<1>3. ASSUME NEW f \in DOMAIN g PROVE IsBody(g[f].body)
  <2>1. CASE f = x
    BY <1>1, <2>1 DEF Put
  <2>2. CASE f # x
    <3>1. f \in DOMAIN functions /\ g[f] = functions[f]
      BY <1>1, <1>2, <2>2 DEF Put
    <3> QED BY <3>1 DEF Bodies
  <2> QED BY <2>1, <2>2
<1> QED BY <1>3 DEF Bodies, g

\* A line on its own: a function's, or one that is collected.
LEMMA OneLine ==
  ASSUME NEW it, IsItem(it), ~it.more PROVE IsBody(<<[it EXCEPT !.d = "ins"]>>)
<1> DEFINE e == [it EXCEPT !.d = "ins"]
<1>1. IsItem(e) /\ ~e.more
  <2>1. DOMAIN e = DOMAIN it /\ e.line = it.line /\ e.path = it.path /\ e.more = it.more
    BY DEF IsItem
  <2> QED BY <2>1 DEF IsItem
<1> HIDE DEF e
<1>2. IsSeq(<<e>>) /\ DOMAIN <<e>> = {1} /\ <<e>>[1] = e
  <2>1. <<e>> \in Seq({e}) /\ DOMAIN <<e>> = {1} /\ <<e>>[1] = e
    OBVIOUS
  <2>2. IsSeq(<<e>>)
    BY <2>1, IsSeqIn
  <2> QED BY <2>1, <2>2
<1>3. IsBody(<<e>>)
  BY <1>1, <1>2 DEF IsBody, Items
<1> QED BY <1>3 DEF e

LEMMA EatenIsItem ==
  ASSUME IsItem(Item)
  PROVE  /\ IsItem(EatenItem) /\ EatenItem.path = Item.path
         /\ \A a : /\ Earlier(EatenItem, a) <=> Earlier(Item, a)
                   /\ Earlier(a, EatenItem) <=> Earlier(a, Item)
         /\ Key(EatenItem) = Key(Item)
         /\ state = "define" => ~EatenItem.more
<1>1. /\ DOMAIN EatenItem = DOMAIN Item /\ EatenItem.line = Item.line
      /\ EatenItem.path = Item.path
      /\ state = "define" => EatenItem.more = FALSE
      /\ state # "define" => EatenItem.more = Item.more
  BY DEF EatenItem, IsItem
<1>2. IsItem(EatenItem)
  BY <1>1 DEF IsItem
<1>3. Key(EatenItem) = Key(Item)
  BY <1>1 DEF Key
<1> QED BY <1>1, <1>2, <1>3 DEF Earlier

LEMMA OrderStep == PreprocessorInv /\ OrderInv /\ [Next]_vars => OrderInv'
<1> SUFFICES ASSUME PreprocessorInv, OrderInv, [Next]_vars PROVE OrderInv'
  OBVIOUS
<1>0. Ordered(out, Collected, todo) /\ Bodies(functions)
  BY DEF OrderInv
<1>a. ASSUME state = "passthrough" PROVE Collected = <<>>
  BY <1>a DEF Collected
\* A branch or a macro function begins.
<1>1. ASSUME Ifdef PROVE OrderInv'
  <2>1. todo # <<>> /\ stack = <<>> /\ state = "passthrough"
    BY <1>1 DEF Ifdef, At, PreprocessorInv, Outside, InConditional, InFunction
  <2>2. stack' = Append(<<>>, Entry(Truth("ifdef"), <<>>, "passthrough", hungry, accepted))
    BY <1>1, <2>1 DEF Ifdef
  <2>3. accepted = Initially
    BY <2>1 DEF PreprocessorInv, Outside
  <2>4. stack' = Opened(Truth("ifdef"), <<>>, hungry)
    BY <2>2, <2>3, Pushed DEF Opened
  <2>5. state' = "ifdef"
    BY <1>1 DEF Ifdef
  <2>6. Collected' = <<>>
    BY <2>4, <2>5, CollectedNext
  <2>7. Ordered(out, <<>>, Tail(todo))
    BY <2>1, Popped
  <2> QED BY <1>0, <1>1, <2>5, <2>6, <2>7 DEF Ifdef, OrderInv
<1>2. ASSUME DefineFunction PROVE OrderInv'
  <2>1. todo # <<>> /\ stack = <<>> /\ state = "passthrough" /\ accepted = Initially
    BY <1>2 DEF DefineFunction, At, PreprocessorInv, Outside, InConditional, InFunction
  <2>2. Ordered(out, <<>>, Tail(todo)) /\ IsItem(Item)
    BY <2>1, Popped
  <2>3. CASE Item.more
    <3>1. stack' = Append(<<>>, Entry(Item.line, <<>>, "passthrough", hungry, accepted))
      BY <1>2, <2>1, <2>3 DEF DefineFunction
    <3>2. stack' = Opened(Item.line, <<>>, hungry)
      BY <2>1, <3>1, Pushed DEF Opened
    <3>3. state' = "define"
      BY <1>2, <2>3 DEF DefineFunction
    <3>4. Collected' = <<>>
      BY <3>2, <3>3, CollectedNext
    <3>5. OfSource(Tail(todo))
      <4>1. Item.path = <<>>
        BY <2>2, <2>3 DEF IsItem
      <4>2. \A j \in DOMAIN Tail(todo) : Earlier(Item, Tail(todo)[j])
        BY <2>1, Popped
      <4> QED BY <4>1, <4>2 DEF OfSource, Earlier
    <3>6. OfFunction(<<>>, Tail(todo))
      BY <3>5, NothingKeeps DEF OfFunction
    <3> QED BY <1>0, <1>2, <2>2, <2>3, <3>4, <3>6 DEF DefineFunction, OrderInv
  <2>4. CASE ~Item.more
    <3>1. /\ functions' = Function(Item.line, <<[Item EXCEPT !.d = "ins"]>>)
          /\ state' = state /\ todo' = Tail(todo) /\ out' = out
      BY <1>2, <2>4 DEF DefineFunction, globals
    <3>2. Bodies(functions')
      BY <1>0, <2>2, <2>4, <3>1, OneLine, FunctionKeeps
    <3>3. Collected' = <<>>
      BY <2>1, <3>1 DEF Collected
    <3> QED BY <2>1, <2>2, <3>1, <3>2, <3>3 DEF OrderInv
  <2> QED BY <2>3, <2>4
\* A conditional's next branch, or its end.
<1>3. ASSUME SkipRest PROVE OrderInv'
  <2>1. todo # <<>> /\ state = "ifdef" /\ state' = state /\ stack' = stack
    BY <1>3 DEF SkipRest, Open, At
  <2>2. Collected' = Collected
    BY <2>1 DEF Collected, Top
  <2>3. Ordered(out, Collected, Tail(todo))
    BY <2>1, Popped
  <2> QED BY <1>0, <1>3, <2>1, <2>2, <2>3 DEF SkipRest, OrderInv
<1>4. ASSUME NEW w, Elifdef \/ Else, stack' = Append(Rest, Branch(w, <<>>)) PROVE OrderInv'
  <2>1. /\ todo # <<>> /\ state = "ifdef" /\ state' = state /\ todo' = Tail(todo)
        /\ functions' = functions /\ out' = out
    BY <1>4 DEF Elifdef, Else, Open, At
  <2>2. PICK v, h : stack = Opened(v, Collected, h)
    BY <2>1, CollectedInStack
  <2>3. stack' = Opened(w, <<>>, h)
    BY <1>4, <2>2, OneEntry
  <2>4. Collected' = <<>>
    BY <2>1, <2>3, CollectedNext
  <2>5. Ordered(out, <<>>, Tail(todo))
    BY <2>1, Popped
  <2> QED BY <1>0, <2>1, <2>4, <2>5 DEF OrderInv
<1>5. ASSUME Endif PROVE OrderInv'
  <2>1. /\ todo # <<>> /\ state = "ifdef" /\ state' = Top.state
        /\ todo' = IF Top.value THEN Branched(Top.body) \o Tail(todo) ELSE Tail(todo)
        /\ functions' = functions /\ out' = out
    BY <1>5 DEF Endif, Open, At, Restore
  <2>2. Top.body = Collected /\ state' = "passthrough"
    BY <2>1, CollectedInStack
  <2>3. Collected' = <<>>
    BY <2>2 DEF Collected
  <2>4. Ordered(out, Collected, Tail(todo)) /\ Ordered(out, <<>>, Tail(todo))
    BY <2>1, Popped
  <2>5. Ordered(out, <<>>, todo')
    <3>1. CASE ~Top.value
      BY <2>1, <2>4, <3>1
    <3>2. CASE Top.value
      <4> DEFINE b == Branched(Collected)
      <4>1. /\ Items(b) /\ InOrder(b) /\ AllEarlier(b, Tail(todo)) /\ OutBefore(out, b)
        BY <2>4, BranchedKeeps DEF Ordered
      <4> HIDE DEF b
      <4>2. /\ Items(b \o Tail(todo)) /\ InOrder(b \o Tail(todo))
            /\ OutBefore(out, b \o Tail(todo))
        BY <2>4, <4>1, ConcatKeeps DEF Ordered
      <4>3. todo' = b \o Tail(todo)
        BY <2>1, <2>2, <3>2 DEF b
      <4> QED BY <2>4, <4>2, <4>3, NothingKeeps DEF Ordered
    <3> QED BY <3>1, <3>2
  <2> QED BY <1>0, <2>1, <2>2, <2>3, <2>5 DEF OrderInv
\* A line is collected.
<1>6. ASSUME Eat PROVE OrderInv'
  <2>1. /\ todo # <<>> /\ state # "passthrough" /\ state' = state /\ stack' = Eaten
        /\ todo' = Tail(todo) /\ functions' = functions /\ out' = out
    BY <1>6 DEF Eat, Ordinary, PreprocessorInv, Outside
  <2>2. PICK v, h : stack = Opened(v, Collected, h)
    BY <2>1, CollectedInStack
  <2>3. Collected' = Append(Collected, EatenItem)
    <3>1. Eaten = Opened(v, Append(Collected, EatenItem), h)
      BY <2>2, OneEntry
    <3>2. stack' = Opened(v, Append(Collected, EatenItem), h) /\ state' # "passthrough"
      BY <2>1, <3>1
    <3> QED BY <3>2, CollectedNext
  <2>4. /\ Ordered(out, Collected, Tail(todo)) /\ IsItem(Item)
        /\ \A j \in DOMAIN Tail(todo) : Earlier(EatenItem, Tail(todo)[j])
        /\ \A i \in DOMAIN Collected : Earlier(Collected[i], EatenItem)
        /\ \A i \in DOMAIN out : Before(out[i].key, Key(EatenItem))
        /\ IsItem(EatenItem)
    BY <2>1, Popped, EatenIsItem
  <2>5. /\ Items(Append(Collected, EatenItem)) /\ InOrder(Append(Collected, EatenItem))
        /\ AllEarlier(Append(Collected, EatenItem), Tail(todo))
        /\ OutBefore(out, Append(Collected, EatenItem))
    BY <2>4, AppendKeeps DEF Ordered
  <2>6. Ordered(out, Append(Collected, EatenItem), Tail(todo))
    BY <2>4, <2>5 DEF Ordered
  <2>7. state = "define" => OfFunction(Append(Collected, EatenItem), Tail(todo))
    <3> SUFFICES ASSUME state = "define"
                 PROVE  OfFunction(Append(Collected, EatenItem), Tail(todo))
      OBVIOUS
    <3>1. OfFunction(Collected, Tail(todo)) /\ Item.path = <<>>
      BY <2>1, Popped
    <3>2. EatenItem.path = <<>> /\ ~EatenItem.more
      BY <2>4, <3>1, EatenIsItem
    <3>3. /\ IsBody(Append(Collected, EatenItem)) /\ OfSource(Append(Collected, EatenItem))
      BY <2>4, <3>1, <3>2, AppendKeeps DEF Ordered, OfFunction
    <3> QED BY <3>1, <3>3 DEF OfFunction
  <2> QED BY <1>0, <2>1, <2>3, <2>6, <2>7 DEF OrderInv
<1>7. ASSUME EatLast PROVE OrderInv'
  <2>1. /\ todo # <<>> /\ state = "define" /\ state' = Top.state /\ ~Item.more
        /\ todo' = Tail(todo) /\ out' = out
        /\ functions' = Function(Top.value, Append(Top.body, Item))
    BY <1>7 DEF EatLast, Ordinary, Restore
  <2>2. Top.body = Collected /\ state' = "passthrough"
    BY <2>1, CollectedInStack
  <2>3. Collected' = <<>>
    BY <2>2 DEF Collected
  <2>4. /\ Ordered(out, Collected, Tail(todo)) /\ Ordered(out, <<>>, Tail(todo)) /\ IsItem(Item)
        /\ OfFunction(Collected, Tail(todo)) /\ Item.path = <<>>
        /\ \A i \in DOMAIN Collected : Earlier(Collected[i], Item)
    BY <2>1, Popped
  <2>5. IsBody(Append(Collected, Item))
    BY <2>1, <2>4, AppendKeeps DEF Ordered, OfFunction
  <2>6. Bodies(functions')
    BY <1>0, <2>1, <2>2, <2>5, FunctionKeeps
  <2> QED BY <2>1, <2>2, <2>3, <2>4, <2>6 DEF OrderInv
\* A line is dealt with, or dropped.
<1>8. ASSUME Define \/ Drop \/ PassEqu \/ PassLabel PROVE OrderInv'
  <2>1. /\ todo # <<>> /\ state' = state /\ stack' = stack
        /\ todo' = Tail(todo) /\ functions' = functions /\ out' = out
    BY <1>8 DEF Define, Drop, PassEqu, PassLabel, Passed, At, Ordinary, globals
  <2>2. Collected' = Collected
    BY <2>1 DEF Collected, Top
  <2>3. /\ Ordered(out, Collected, Tail(todo))
        /\ state = "define" => OfFunction(Collected, Tail(todo))
    BY <2>1, Popped
  <2> QED BY <1>0, <2>1, <2>2, <2>3 DEF OrderInv
<1>9. ASSUME Pass PROVE OrderInv'
  <2> DEFINE e == [key |-> Append(Item.path, Item.line), args |-> Operands]
  <2>1. /\ todo # <<>> /\ state = "passthrough" /\ state' = state
        /\ todo' = Tail(todo) /\ functions' = functions /\ out' = Append(out, e)
    BY <1>9 DEF Pass, Passed, Ordinary, globals
  <2>2. Collected' = <<>>
    BY <2>1 DEF Collected
  <2>3. /\ Ordered(out, <<>>, Tail(todo)) /\ IsItem(Item)
        /\ \A j \in DOMAIN Tail(todo) : Earlier(Item, Tail(todo)[j])
        /\ \A i \in DOMAIN out : Before(out[i].key, Key(Item))
    BY <2>1, Popped
  <2>4. e.key = Key(Item) /\ e.key \in Seq(Nat)
    BY <2>3, KeyFacts DEF Key
  <2> HIDE DEF e
  <2>5. /\ IsSeq(out') /\ DOMAIN out' = 1..(Len(out) + 1)
        /\ \A i \in DOMAIN out : out'[i] = out[i]
        /\ out'[Len(out) + 1] = e
    BY <2>1, <2>3, AppendSeq DEF Ordered, OutInOrder
  <2>6. Len(out) \in Nat /\ DOMAIN out = 1..Len(out)
    BY <2>3, SeqFacts DEF Ordered, OutInOrder
  <2>7. \A i \in DOMAIN out' : i \in DOMAIN out \/ i = Len(out) + 1
    BY <2>5, <2>6
  <2>8. OutInOrder(out')
    <3>1. \A i \in DOMAIN out' : out'[i].key \in Seq(Nat)
      BY <2>3, <2>4, <2>5, <2>7 DEF Ordered, OutInOrder
    <3>2. ASSUME NEW i \in DOMAIN out', NEW j \in DOMAIN out', i < j
          PROVE  Before(out'[i].key, out'[j].key)
      <4>1. i \in DOMAIN out
        BY <2>5, <2>6, <3>2
      <4>2. CASE j \in DOMAIN out
        BY <2>3, <2>5, <3>2, <4>1, <4>2 DEF Ordered, OutInOrder
      <4>3. CASE j = Len(out) + 1
        BY <2>3, <2>4, <2>5, <4>1, <4>3
      <4> QED BY <2>7, <4>2, <4>3
    <3> QED BY <2>5, <3>1, <3>2 DEF OutInOrder
  <2>9. OutBefore(out', Tail(todo))
    <3> SUFFICES ASSUME NEW i \in DOMAIN out', NEW j \in DOMAIN Tail(todo)
                 PROVE  Before(out'[i].key, Key(Tail(todo)[j]))
      BY DEF OutBefore
    <3>1. CASE i \in DOMAIN out
      BY <2>3, <2>5, <3>1 DEF Ordered, OutBefore
    <3>2. CASE i = Len(out) + 1
      BY <2>3, <2>4, <2>5, <3>2 DEF Earlier
    <3> QED BY <2>7, <3>1, <3>2
  <2>10. Ordered(out', <<>>, Tail(todo))
    BY <2>3, <2>8, <2>9, NothingKeeps DEF Ordered
  <2> QED BY <1>0, <2>1, <2>2, <2>10 DEF OrderInv
\* A call's lines take its place.
<1>10. ASSUME Call PROVE OrderInv'
  <2>1. /\ todo # <<>> /\ state = "passthrough" /\ state' = state
        /\ functions' = functions /\ out' = out /\ Line.x \in DOMAIN functions
    BY <1>10 DEF Call, Callable, Passed, Ordinary, globals
  <2> DEFINE b == functions[Line.x].body
  <2>2. PICK over : todo' = [k \in DOMAIN b |-> [b[k] EXCEPT !.over = over,
                                    !.path = Append(Item.path, Item.line)]] \o Tail(todo)
    BY <1>10 DEF Call
  <2> DEFINE u == [k \in DOMAIN b |-> [b[k] EXCEPT !.over = over,
                                         !.path = Append(Item.path, Item.line)]]
  <2>3. IsBody(b)
    BY <1>0, <2>1 DEF Bodies
  <2>4. /\ Ordered(out, <<>>, Tail(todo)) /\ IsItem(Item)
        /\ \A j \in DOMAIN Tail(todo) : Earlier(Item, Tail(todo)[j])
        /\ \A i \in DOMAIN out : Before(out[i].key, Key(Item))
    BY <2>1, Popped
  <2>5. u = [k \in DOMAIN b |-> [b[k] EXCEPT !.over = over,
                                  !.path = Append(Item.path, Item.line)]]
    OBVIOUS
  <2>6. todo' = u \o Tail(todo)
    BY <2>2
  <2> HIDE DEF u, b
  <2>7. Items(u) /\ InOrder(u) /\ AllEarlier(u, Tail(todo)) /\ OutBefore(out, u)
    BY <2>3, <2>4, <2>5, BodyExpands DEF Ordered
  <2>8. /\ Items(u \o Tail(todo)) /\ InOrder(u \o Tail(todo))
        /\ OutBefore(out, u \o Tail(todo))
    BY <2>4, <2>7, ConcatKeeps DEF Ordered
  <2>9. Ordered(out, <<>>, todo')
    BY <2>4, <2>6, <2>8, NothingKeeps DEF Ordered
  <2>10. Collected' = <<>>
    BY <2>1 DEF Collected
  <2> QED BY <1>0, <2>1, <2>9, <2>10 DEF OrderInv
\* An error, or nothing.
<1>11. ASSUME Lone \/ BadCall \/ Recursion \/ UNCHANGED vars PROVE OrderInv'
  <2>1. /\ state' = state /\ stack' = stack /\ todo' = todo
        /\ functions' = functions /\ out' = out
    BY <1>11 DEF Lone, BadCall, Recursion, vars, globals
  <2>2. Collected' = Collected
    BY <2>1 DEF Collected, Top
  <2> QED BY <2>1, <2>2 DEF OrderInv
<1>12. Elifdef => OrderInv'
  BY <1>4 DEF Elifdef
<1>13. Else => OrderInv'
  BY <1>4 DEF Else
<1> QED
  BY <1>1, <1>2, <1>3, <1>5, <1>6, <1>7, <1>8, <1>9, <1>10, <1>11, <1>12, <1>13 DEF Next

\* Whatever a source holds, its instructions are assembled in its order and each
\* once for a call, with what a call stands for in the call's place
\* (rrasm.py:1080-1208, 1399-1424).
THEOREM AssembledInOrder == Spec => []InSourceOrder
<1>1. OrderInv => InSourceOrder
  <2> SUFFICES ASSUME OrderInv, NEW i \in 1..(Len(out) - 1)
               PROVE  Before(out[i].key, out[i + 1].key)
    BY DEF InSourceOrder
  <2>1. OutInOrder(out)
    BY DEF OrderInv, Ordered
  <2>2. Len(out) \in Nat /\ DOMAIN out = 1..Len(out)
    BY <2>1, SeqFacts DEF OutInOrder
  <2>3. i \in DOMAIN out /\ i + 1 \in DOMAIN out /\ i < i + 1
    BY <2>2
  <2> QED BY <2>1, <2>3 DEF OutInOrder
<1>2. PreprocessorInv /\ [Next]_vars => PreprocessorInv'
  BY InvStep
<1>3. PreprocessorInv /\ OrderInv /\ [Next]_vars => OrderInv'
  BY OrderStep
<1> QED BY InvInit, OrderInit, <1>1, <1>2, <1>3, PTL DEF Spec

-----------------------------------------------------------------------------
(* What is assembled is what the source means.                             *)

N == Len(source)

\* The line is read: no condition is false for it, and it is not one itself.
Alive(j) == /\ j \in Lines /\ ~IsDirective(j, Conditional)
            /\ Meaning[j].live

\* Of the lines from c on, those up to e have had their conditions evaluated.
Left(c, e) == {j \in Lines : j >= c /\ (j > e \/ Alive(j))}

\* The lines of the source itself that are in a list.
Tops(s) == {it.line : it \in {it \in Values(s) : it.path = <<>>}}

\* k is h, or one of the ways on from it.
Extends(h, k) == Len(h) =< Len(k) /\ \A n \in DOMAIN h : h[n] = k[n]

WaysOn(s, k) == \E it \in Values(s) : Extends(Key(it), k)

\* What is collected of a branch that is taken.
Taken == IF state = "ifdef" /\ Top.value THEN Collected ELSE <<>>

\* What k stands for is still to come.
Pending(k) == WaysOn(todo, k) \/ WaysOn(Taken, k)

Read == {k \in Expanded : ~Pending(k)}

Name(k)    == source[Last(k)].x
ConstNames == {source[j].x : j \in Consts}
Labels(S)  == {Name(k) : k \in {k \in S : IsLabel(k)}}

SymbolsRead == symbols = ConstNames \cup Labels(Read)

\* An item is its line, or a line that a call stands for.
OwnItem(it)  == /\ it.path = <<>> /\ it.line \in Lines
                /\ it.d = source[it.line].d /\ it.more = source[it.line].more
CallItem(it, c) == /\ it.path # <<>> /\ Key(it) \in Expanded /\ it.path[1] = c - 1
                   /\ it.d = IF source[it.line].d = "macro" THEN "ins" ELSE source[it.line].d

Genuine(s, c) == \A it \in Values(s) : OwnItem(it) \/ CallItem(it, c)

\* The items are all lines of the function defined at line m.
Whole(m, b) ==
  IF source[m].more
  THEN /\ {b[k].line : k \in DOMAIN b} = BodyOf(m)
       /\ \A k \in DOMAIN b : b[k].line = m + k /\ b[k].d = source[m + k].d
  ELSE DOMAIN b = {1} /\ b[1].line = m /\ b[1].d = "ins"

FunctionsAre(f, fns) ==
  /\ DOMAIN f = DOMAIN fns
  /\ \A x \in DOMAIN fns : f[x].params = ParamsOf(fns[x]) /\ Whole(fns[x], f[x].body)

\* What is defined is what the lines before c define.
ReadTo(c) == macros = Meaning[c - 1].macros /\ FunctionsAre(functions, Meaning[c - 1].fns)

IsIf(j) == IsDirective(j, {"ifdef", "ifndef"})

AtOutside(c, e) ==
  /\ state = "passthrough" /\ Depth[e] = 0
  /\ c =< N => ~InMacro[c]
  /\ ReadTo(c)

AtConditional(c, e) ==
  /\ state = "ifdef" /\ e = c - 1 /\ OfSource(todo) /\ OfSource(Collected) /\ Depth[e] = 1
  /\ Top.value = Meaning[e].taken
  /\ IF Top.value THEN hungry = Meaning[e].live ELSE hungry /\ ~Meaning[e].live
  /\ \E o \in 1..e : /\ IsIf(o)
                     /\ \A j \in (o + 1)..e : ~IsIf(j)
                     /\ hungry /\ accepted = {"endif"} =>
                          \E j \in o..e : IsDirective(j, {"else"})
  /\ \E b \in 2..c : /\ ReadTo(b) /\ IsDirective(b - 1, Conditional)
                     /\ IF Top.value THEN Tops(Collected) = {j \in b..e : Alive(j)}
                                     ELSE \A j \in b..e : ~Alive(j)

AtFunction(c, e) ==
  /\ state = "define" /\ Depth[e] = 0
  /\ c =< N /\ c \in Left(c, e)
  /\ OfSource(todo)
  /\ \E m \in 1..(c - 1) :
       /\ Top.value = m /\ IsDirective(m, {"macro"}) /\ source[m].more /\ Alive(m)
       /\ \A j \in (m + 1)..c : InMacro[j]
       /\ ReadTo(m)
       /\ DOMAIN Collected = 1..(c - 1 - m)
       /\ \A k \in DOMAIN Collected : Collected[k].line = m + k /\ Collected[k].d = source[m + k].d

Placed(c, e) ==
  /\ c \in 1..(N + 1) /\ e \in 0..N /\ c =< e + 1
  /\ Tops(todo) = Left(c, e)
  /\ Genuine(todo, c)
  /\ state = "ifdef" => Genuine(Collected, c)
  /\ AtOutside(c, e) \/ AtConditional(c, e) \/ AtFunction(c, e)

\* No error so far.
Clean ==
  /\ \A i, j \in Consts : i # j => source[i].x # source[j].x
  /\ \A k \in Read : source[Last(k)].d = "call" =>
       GoodCall(Last(k), Meaning[k[1]].fns) /\ Len(k) =< Limit
  /\ \A k \in Read : IsLabel(k) =>
       /\ Name(k) \notin ConstNames
       /\ \A h \in Read \ {k} : IsLabel(h) => Name(h) # Name(k)

OutRead == {out[i].key : i \in DOMAIN out} = {k \in Read : IsIns(k)}

\* What is assembled, where macro functions have no conditionals of their own.
Accounts == SymbolsRead /\ (Tame => OutRead /\ Clean)

\* All is well.
Well == /\ \E c \in 1..(N + 1), e \in 0..N : Placed(c, e)
        /\ Accounts

\* The macro function of the name that line j calls.
Called(j, fns) == fns[source[j].x]

\* The operands that a call, on the way h, gives to the lines it stands for.
Given(h) ==
  LET params == ParamsOf(Called(Last(h), Meaning[h[1]].fns))
  IN  [p \in Range(params) |-> ResolvedAt(h)[Max({n \in DOMAIN params : params[n] = p})]]

\* A line that a call stands for is as it will be assembled.
Settled(it) ==
  /\ it.d \notin Directives
  /\ it.over = IF Shares(it.line) THEN Nothing ELSE Given(it.path)

Ifs == {"ifdef", "ifndef"}

\* From a to b are the lines of a conditional in a macro function, to its end.
Run(s, a, b) ==
  /\ a \in DOMAIN s /\ b \in DOMAIN s /\ a =< b
  /\ s[a].path # <<>>
  /\ \A k \in a..b : /\ s[k].path = s[a].path /\ s[k].line = s[a].line + (k - a)
                     /\ s[k].line \in Lines /\ InMacro[s[k].line]
                     /\ s[k].d = source[s[k].line].d
                     /\ k < b => BodyDepth[s[k].line] = 1 /\ s[k].d # "endif"
                     /\ a < k => s[k].d \notin Ifs
  /\ s[b].d = "endif" /\ s[b].over = Given(s[a].path)

Span(s, a, b) == Run(s, a, b) /\ s[a].d \in Ifs

InSpan(s, k, h) == \E a, b \in DOMAIN s : h < a /\ a =< k /\ k =< b /\ Span(s, a, b)

Ready(s, k, h) == IF s[k].path = <<>> THEN s[k].over = Nothing
                  ELSE Settled(s[k]) \/ InSpan(s, k, h)

\* After the first h, a list is of lines to assemble and of whole conditionals.
Chain(s, h) == \A k \in DOMAIN s : h < k => Ready(s, k, h)

\* What is collected of a branch in a macro function, up to line l.
BranchTo(s, l, h) ==
  /\ l - Len(s) - 1 \in Lines /\ source[l - Len(s) - 1].d \in Conditional
  /\ \A k \in DOMAIN s : /\ s[k].line = l - Len(s) + (k - 1) /\ s[k].path = h
                         /\ s[k].line \in Lines /\ InMacro[s[k].line]
                         /\ s[k].d = source[s[k].line].d /\ s[k].d \notin Directives
                         /\ BodyDepth[s[k].line] = 1

ElseBefore(l) == \E j \in Lines : /\ j < l /\ InMacro[j] /\ source[j].d = "else"
                                  /\ \A k \in (j + 1)..(l - 1) : source[k].d # "endif"

\* A conditional in a macro function is being read.
InBody ==
  /\ \E h \in DOMAIN todo : Run(todo, 1, h) /\ Chain(todo, h)
  /\ todo[1].d \notin Ifs
  /\ hungry /\ accepted = {"endif"} => ElseBefore(todo[1].line)
  /\ \E l \in Lines : /\ source[l].d \in Conditional \/ hungry
                      /\ hungry => l = todo[1].line
                      /\ BranchTo(Collected, l, todo[1].path)

\* Where the source is meanwhile: after the call.
Within(c, e) ==
  /\ c =< e + 1 /\ Tops(todo) = Left(c, e) /\ Genuine(todo, c)
  /\ \A it \in Values(Collected) : CallItem(it, c)
  /\ Depth[e] = 0 /\ (c =< N => ~InMacro[c]) /\ ReadTo(c)

WellInBody ==
  /\ Balanced /\ ~Tame /\ state = "ifdef" /\ todo # <<>> /\ SymbolsRead /\ InBody
  /\ \E c \in 1..(N + 1), e \in 0..N : Within(c, e)

Sound == Tame \/ Balanced

MeaningInv ==
  Sound => IF failed THEN Faulty
           ELSE WellInBody \/ (Well /\ (Balanced => Chain(todo, 0)))

LEMMA LessIsWellFounded == IsWellFoundedOn({p \in Nat \X Nat : p[1] < p[2]}, Nat)
BY NatLessThanWellFounded DEF OpToRel

LEMMA NatSetInduction ==
  ASSUME NEW S, 0 \in S, \A n \in Nat : n \in S => n + 1 \in S
  PROVE  Nat \subseteq S
<1> DEFINE R == {p \in Nat \X Nat : p[1] < p[2]}
           T == Nat \ S
<1>1. IsWellFoundedOn(R, Nat)
  BY LessIsWellFounded
<1> HIDE DEF R
<1>2. ASSUME T # {} PROVE FALSE
  <2>1. PICK x \in T : \A y \in T : ~(<<y, x>> \in R)
    BY <1>1, <1>2, WFMin
  <2>2. x \in Nat /\ x # 0 /\ x - 1 \in Nat
    BY <2>1
  <2>3. <<x - 1, x>> \in R
    BY <2>2 DEF R
  <2>4. x - 1 \notin T
    BY <2>1, <2>3
  <2> QED BY <2>1, <2>2, <2>4
<1> QED BY <1>2

LEMMA ZeroIn == \A n \in Nat : 0 \in 0..n
OBVIOUS

LEMMA SourceFacts ==
  ASSUME source \in Sources
  PROVE  /\ N \in Nat /\ Lines = 1..N
         /\ \A i \in Lines : source[i].more \in BOOLEAN
BY SourcesAssumption DEF N, Lines

-----------------------------------------------------------------------------
(* The tables that say what a source means are the recursions they look like. *)

MacroStep(b, i) == source[i].more /\ (b \/ source[i].d = "macro")

MacroTable(f, n) == f = [i \in 0..n |-> IF i = 0 THEN FALSE ELSE MacroStep(f[i - 1], i)]

LEMMA MacroTableExists ==
  \A n \in Nat : \E f : MacroTable(f, n)
<1> DEFINE S == {n \in Nat : \E f : MacroTable(f, n)}
<1>1. 0 \in S
  <2> DEFINE f == [i \in 0..0 |-> FALSE]
  <2>1. MacroTable(f, 0)
    BY DEF MacroTable
  <2> QED BY <2>1
<1>2. ASSUME NEW n \in Nat, n \in S PROVE n + 1 \in S
  <2>1. PICK f : MacroTable(f, n)
    BY <1>2
  <2> DEFINE g == [i \in 0..(n + 1) |-> IF i \in 0..n THEN f[i] ELSE MacroStep(f[i - 1], i)]
             h == [i \in 0..(n + 1) |-> IF i = 0 THEN FALSE ELSE MacroStep(g[i - 1], i)]
  <2>2. ASSUME NEW i \in 0..(n + 1) PROVE g[i] = h[i]
    <3>1. i # 0 => i - 1 \in 0..n /\ i - 1 \in 0..(n + 1)
      OBVIOUS
    <3>2. i # 0 => g[i - 1] = f[i - 1]
      BY <3>1
    <3>3. i = 0 => h[i] = FALSE
      BY Zenon
    <3>4. i # 0 => h[i] = MacroStep(f[i - 1], i)
      BY Zenon, <3>2
    <3>5. i \notin 0..n => i # 0 /\ 0 \in 0..n
      OBVIOUS
    <3>6. CASE i \in 0..n
      <4>1. /\ i = 0 => f[i] = FALSE
            /\ i # 0 => f[i] = MacroStep(f[i - 1], i)
        BY Zenon, <2>1, <3>6 DEF MacroTable
      <4>2. g[i] = f[i]
        BY Zenon, <3>6
      <4> QED BY Zenon, <3>3, <3>4, <4>1, <4>2
    <3>7. CASE i \notin 0..n
      <4>1. g[i] = MacroStep(f[i - 1], i)
        BY Zenon, <3>7
      <4> QED BY Zenon, <3>4, <3>5, <3>7, <4>1
    <3> QED BY <3>6, <3>7
  <2>3. g = h
    BY <2>2
  <2>4. MacroTable(g, n + 1)
    <3> HIDE DEF g
    <3> QED BY <2>3 DEF MacroTable
  <2> QED BY <2>4
<1> HIDE DEF S
<1>3. Nat \subseteq S
  BY <1>1, <1>2, NatSetInduction
<1> QED BY <1>3 DEF S

\* A line is in a macro function if the line before it goes on, and is in it or
\* is its first.
LEMMA InMacroIs ==
  ASSUME source \in Sources
  PROVE  /\ DOMAIN InMacro = Lines
         /\ 1 \in Lines => ~InMacro[1]
         /\ \A i \in Lines : InMacro[i] \in BOOLEAN
         /\ \A i \in Lines : i + 1 \in Lines =>
              (InMacro[i + 1] <=> source[i].more /\ (InMacro[i] \/ source[i].d = "macro"))
<1> DEFINE m == CHOOSE f : MacroTable(f, N)
<1>1. N \in Nat /\ Lines = 1..N /\ \A i \in Lines : source[i].more \in BOOLEAN
  BY SourceFacts
<1>2. MacroTable(m, N)
  BY <1>1, MacroTableExists
<1>3. InMacro = [i \in Lines |-> m[i - 1]]
  BY DEF InMacro, MacroTable, MacroStep, N
<1> HIDE DEF m
<1>a. 0 \in 0..N /\ \A i \in 1..N : i \in 0..N /\ i # 0
  BY <1>1
<1>4. m[0] = FALSE /\ \A i \in 1..N : m[i] = MacroStep(m[i - 1], i)
  <2>1. m[0] = FALSE
    BY Zenon, <1>2, <1>a DEF MacroTable
  <2>2. ASSUME NEW i \in 1..N PROVE m[i] = MacroStep(m[i - 1], i)
    BY Zenon, <1>2, <1>a DEF MacroTable
  <2> QED BY Zenon, <2>1, <2>2
<1>5. \A i \in 1..N : m[i] \in BOOLEAN
  <2>1. ASSUME NEW i \in 1..N PROVE MacroStep(m[i - 1], i) \in BOOLEAN
    BY Zenon DEF MacroStep
  <2> QED BY Zenon, <1>4, <2>1
<1>6. \A i \in Lines : InMacro[i] = m[i - 1] /\ (i = 1 \/ i - 1 \in 1..N)
  BY <1>1, <1>3
<1>7. /\ \A i \in Lines : InMacro[i] \in BOOLEAN
      /\ 1 \in Lines => ~InMacro[1]
  <2>1. ASSUME NEW i \in Lines PROVE InMacro[i] \in BOOLEAN
    <3>1. CASE i = 1
      <4>1. InMacro[1] = m[0]
        BY <1>6, <3>1
      <4> QED BY Zenon, <1>4, <3>1, <4>1
    <3>2. CASE i # 1
      BY Zenon, <1>5, <1>6, <3>2
    <3> QED BY <3>1, <3>2
  <2>2. ASSUME 1 \in Lines PROVE ~InMacro[1]
    <3>1. InMacro[1] = m[0]
      BY <1>6, <2>2
    <3> QED BY Zenon, <1>4, <3>1
  <2> QED BY Zenon, <2>1, <2>2
<1>8. ASSUME NEW i \in Lines, i + 1 \in Lines
      PROVE  InMacro[i + 1] <=> source[i].more /\ (InMacro[i] \/ source[i].d = "macro")
  <2>1. InMacro[i + 1] = m[i] /\ m[i] = MacroStep(InMacro[i], i)
    BY <1>1, <1>3, <1>4, <1>8
  <2> QED BY Zenon, <2>1 DEF MacroStep
<1>9. DOMAIN InMacro = Lines
  BY <1>3
<1> QED BY Zenon, <1>7, <1>8, <1>9

\* The conditionals that are open after line i, n before it.
DepthStep(n, inside, i) ==
  IF i \in Lines /\ inside /\ ~InMacro[i] THEN 0
  ELSE IF InMacro[i] # inside THEN n
  ELSE CASE source[i].d \in {"ifdef", "ifndef"} -> n + 1
         [] source[i].d = "endif"                -> n - 1
         [] OTHER                                -> n

DepthTable(f, inside, n) ==
  f = [i \in 0..n |-> IF i = 0 THEN 0 ELSE DepthStep(f[i - 1], inside, i)]
DepthsAre(d, inside) ==
  d = [i \in 0..Len(source) |->
         IF i = 0 \/ (i \in Lines /\ inside /\ ~InMacro[i]) THEN 0
         ELSE IF InMacro[i] # inside THEN d[i - 1]
         ELSE CASE source[i].d \in {"ifdef", "ifndef"} -> d[i - 1] + 1
                [] source[i].d = "endif"                -> d[i - 1] - 1
                [] OTHER                                -> d[i - 1]]

LEMMA DepthTableExists ==
  ASSUME NEW inside PROVE \A n \in Nat : \E f : DepthTable(f, inside, n)
<1> DEFINE S == {n \in Nat : \E f : DepthTable(f, inside, n)}
<1>1. 0 \in S
  <2> DEFINE f == [i \in 0..0 |-> 0]
  <2>1. DepthTable(f, inside, 0)
    BY DEF DepthTable
  <2> QED BY <2>1
<1>2. ASSUME NEW n \in Nat, n \in S PROVE n + 1 \in S
  <2>1. PICK f : DepthTable(f, inside, n)
    BY <1>2
  <2> DEFINE g == [i \in 0..(n + 1) |-> IF i \in 0..n THEN f[i] ELSE DepthStep(f[i - 1], inside, i)]
             h == [i \in 0..(n + 1) |-> IF i = 0 THEN 0 ELSE DepthStep(g[i - 1], inside, i)]
  <2>2. ASSUME NEW i \in 0..(n + 1) PROVE g[i] = h[i]
    <3>1. i # 0 => i - 1 \in 0..n /\ i - 1 \in 0..(n + 1)
      OBVIOUS
    <3>2. i # 0 => g[i - 1] = f[i - 1]
      BY <3>1
    <3>3. i = 0 => h[i] = 0
      BY Zenon
    <3>4. i # 0 => h[i] = DepthStep(f[i - 1], inside, i)
      BY Zenon, <3>2
    <3>5. i \notin 0..n => i # 0 /\ 0 \in 0..n
      OBVIOUS
    <3>6. CASE i \in 0..n
      <4>1. /\ i = 0 => f[i] = 0
            /\ i # 0 => f[i] = DepthStep(f[i - 1], inside, i)
        BY Zenon, <2>1, <3>6 DEF DepthTable
      <4>2. g[i] = f[i]
        BY Zenon, <3>6
      <4> QED BY Zenon, <3>3, <3>4, <4>1, <4>2
    <3>7. CASE i \notin 0..n
      <4>1. g[i] = DepthStep(f[i - 1], inside, i)
        BY Zenon, <3>7
      <4> QED BY Zenon, <3>4, <3>5, <3>7, <4>1
    <3> QED BY <3>6, <3>7
  <2>3. g = h
    BY <2>2
  <2>4. DepthTable(g, inside, n + 1)
    <3> HIDE DEF g
    <3> QED BY <2>3 DEF DepthTable
  <2> QED BY <2>4
<1> HIDE DEF S
<1>3. Nat \subseteq S
  BY <1>1, <1>2, NatSetInduction
<1> QED BY <1>3 DEF S

MeaningStart == [macros |-> Nothing, fns |-> Nothing, live |-> TRUE, taken |-> FALSE,
                 symbols |-> ConstNames]

Holds(r, i) ==
  IF source[i].d \in {"ifdef", "elifdef"} THEN source[i].x \in DOMAIN r.macros \cup r.symbols
  ELSE source[i].d = "else" \/ source[i].x \notin DOMAIN r.macros \cup r.symbols

MeaningStep(r, i) ==
  CASE IsDirective(i, {"ifdef", "ifndef"}) -> [r EXCEPT !.live = Holds(r, i), !.taken = Holds(r, i)]
    [] IsDirective(i, {"elifdef", "elifndef", "else"}) ->
         [r EXCEPT !.live = Holds(r, i) /\ ~r.taken, !.taken = r.taken \/ Holds(r, i)]
    [] IsDirective(i, {"endif"}) -> [r EXCEPT !.live = TRUE]
    [] IsDirective(i, {"define"}) /\ r.live ->
         [r EXCEPT !.macros = Put(@, source[i].x, Standing(source[i].args[1], @))]
    [] IsDirective(i, {"macro"}) /\ r.live -> [r EXCEPT !.fns = Put(@, source[i].x, i)]
    [] IsDirective(i, {"label", "call"}) /\ r.live ->
         [r EXCEPT !.symbols = @ \cup Labels(Ways(i, r.fns))]
    [] OTHER -> r

MeaningTable(f, n) == f = [i \in 0..n |-> IF i = 0 THEN MeaningStart ELSE MeaningStep(f[i - 1], i)]

LEMMA MeaningTableExists ==
  \A n \in Nat : \E f : MeaningTable(f, n)
<1> DEFINE S == {n \in Nat : \E f : MeaningTable(f, n)}
<1>1. 0 \in S
  <2> DEFINE f == [i \in 0..0 |-> MeaningStart]
  <2>1. MeaningTable(f, 0)
    BY DEF MeaningTable
  <2> QED BY <2>1
<1>2. ASSUME NEW n \in Nat, n \in S PROVE n + 1 \in S
  <2>1. PICK f : MeaningTable(f, n)
    BY <1>2
  <2> DEFINE g == [i \in 0..(n + 1) |-> IF i \in 0..n THEN f[i] ELSE MeaningStep(f[i - 1], i)]
             h == [i \in 0..(n + 1) |-> IF i = 0 THEN MeaningStart ELSE MeaningStep(g[i - 1], i)]
  <2>2. ASSUME NEW i \in 0..(n + 1) PROVE g[i] = h[i]
    <3>1. i # 0 => i - 1 \in 0..n /\ i - 1 \in 0..(n + 1)
      OBVIOUS
    <3>2. i # 0 => g[i - 1] = f[i - 1]
      BY <3>1
    <3>3. i = 0 => h[i] = MeaningStart
      BY Zenon
    <3>4. i # 0 => h[i] = MeaningStep(f[i - 1], i)
      BY Zenon, <3>2
    <3>5. i \notin 0..n => i # 0 /\ 0 \in 0..n
      OBVIOUS
    <3>6. CASE i \in 0..n
      <4>1. /\ i = 0 => f[i] = MeaningStart
            /\ i # 0 => f[i] = MeaningStep(f[i - 1], i)
        BY Zenon, <2>1, <3>6 DEF MeaningTable
      <4>2. g[i] = f[i]
        BY Zenon, <3>6
      <4> QED BY Zenon, <3>3, <3>4, <4>1, <4>2
    <3>7. CASE i \notin 0..n
      <4>1. g[i] = MeaningStep(f[i - 1], i)
        BY Zenon, <3>7
      <4> QED BY Zenon, <3>4, <3>5, <3>7, <4>1
    <3> QED BY <3>6, <3>7
  <2>3. g = h
    BY <2>2
  <2>4. MeaningTable(g, n + 1)
    <3> HIDE DEF g
    <3> QED BY <2>3 DEF MeaningTable
  <2> QED BY <2>4
<1> HIDE DEF S
<1>3. Nat \subseteq S
  BY <1>1, <1>2, NatSetInduction
<1> QED BY <1>3 DEF S

LEMMA MeaningIs ==
  ASSUME source \in Sources
  PROVE  /\ Meaning[0] = MeaningStart
         /\ \A i \in Lines : Meaning[i] = MeaningStep(Meaning[i - 1], i)
<1> DEFINE m == CHOOSE f : MeaningTable(f, N)
<1>1. N \in Nat /\ Lines = 1..N
  BY SourceFacts
<1>2. MeaningTable(m, N)
  BY <1>1, MeaningTableExists
<1>3. Meaning = m
  BY DEF Meaning, MeaningTable, MeaningStep, MeaningStart, N, ConstNames, Labels, Name, Holds
<1> HIDE DEF m
<1> QED BY <1>1, <1>2, <1>3 DEF MeaningTable

LEMMA DepthOfIs ==
  ASSUME source \in Sources, NEW inside
  PROVE  /\ DepthOf(inside)[0] = 0
         /\ \A i \in Lines : DepthOf(inside)[i] = DepthStep(DepthOf(inside)[i - 1], inside, i)
<1> DEFINE m == CHOOSE f : DepthsAre(f, inside)
<1>1. N \in Nat /\ Lines = 1..N
  BY SourceFacts
<1>2. PICK f : DepthTable(f, inside, N)
  BY <1>1, DepthTableExists
<1>3. DepthsAre(f, inside)
  <2> DEFINE g == [i \in 0..Len(source) |->
         IF i = 0 \/ (i \in Lines /\ inside /\ ~InMacro[i]) THEN 0
         ELSE IF InMacro[i] # inside THEN f[i - 1]
         ELSE CASE source[i].d \in {"ifdef", "ifndef"} -> f[i - 1] + 1
                [] source[i].d = "endif"                -> f[i - 1] - 1
                [] OTHER                                -> f[i - 1]]
  <2>1. ASSUME NEW i \in 0..N PROVE f[i] = g[i]
    <3>1. f[i] = IF i = 0 THEN 0 ELSE DepthStep(f[i - 1], inside, i)
      BY Zenon, <1>2 DEF DepthTable
    <3> QED BY Zenon, <3>1 DEF DepthStep, N
  <2>2. f = [i \in 0..N |-> f[i]]
    BY <1>2 DEF DepthTable
  <2>a. g = [i \in 0..N |-> g[i]]
    BY DEF N
  <2>3. f = g
    <3> HIDE DEF g
    <3> QED BY Zenon, <2>1, <2>2, <2>a
  <2> QED BY <2>3 DEF DepthsAre
<1>4. DepthsAre(m, inside)
  BY <1>3
<1>5. DepthOf(inside) = m
  BY Zenon DEF DepthOf, DepthsAre
<1> HIDE DEF m
<1>6. m[0] = 0
  BY Zenon, <1>1, <1>4, ZeroIn DEF DepthsAre, N
<1>7. ASSUME NEW i \in Lines PROVE m[i] = DepthStep(m[i - 1], inside, i)
  <2>1. i \in 0..N /\ i # 0
    BY <1>1
  <2> QED BY Zenon, <1>4, <2>1 DEF DepthsAre, DepthStep, N
<1> QED BY Zenon, <1>5, <1>6, <1>7

\* Only the lines of the source itself count, and only those of macro functions
\* do in these.
LEMMA DepthIs ==
  ASSUME source \in Sources
  PROVE  /\ Depth[0] = 0
         /\ \A i \in Lines :
              /\ InMacro[i] => Depth[i] = Depth[i - 1]
              /\ IsIf(i) => Depth[i] = Depth[i - 1] + 1
              /\ IsDirective(i, {"endif"}) => Depth[i] = Depth[i - 1] - 1
              /\ source[i].d \notin {"ifdef", "ifndef", "endif"} => Depth[i] = Depth[i - 1]
<1>1. Depth[0] = 0 /\ \A i \in Lines : Depth[i] = DepthStep(Depth[i - 1], FALSE, i)
  BY Zenon, DepthOfIs DEF Depth
<1>2. \A i \in Lines : InMacro[i] \in BOOLEAN
  BY InMacroIs
<1> SUFFICES ASSUME NEW i \in Lines
             PROVE  /\ InMacro[i] => Depth[i] = Depth[i - 1]
                    /\ IsIf(i) => Depth[i] = Depth[i - 1] + 1
                    /\ IsDirective(i, {"endif"}) => Depth[i] = Depth[i - 1] - 1
                    /\ source[i].d \notin {"ifdef", "ifndef", "endif"} => Depth[i] = Depth[i - 1]
  BY Zenon, <1>1
<1>3. CASE InMacro[i] = TRUE
  <2>1. InMacro[i] # FALSE
    BY <1>3
  <2>2. Depth[i] = Depth[i - 1]
    BY Zenon, <1>1, <2>1 DEF DepthStep
  <2>3. ~IsIf(i) /\ ~IsDirective(i, {"endif"})
    BY Zenon, <1>3 DEF IsIf, IsDirective
  <2> QED BY Zenon, <2>2, <2>3
<1>4. CASE InMacro[i] = FALSE
  BY <1>1, <1>4 DEF DepthStep, IsIf, IsDirective
<1> QED BY <1>2, <1>3, <1>4

-----------------------------------------------------------------------------
(* How the meaning of a source changes from line to line.                  *)

IsMeaning(r) ==
  /\ r = [macros |-> r.macros, fns |-> r.fns, live |-> r.live, taken |-> r.taken,
          symbols |-> r.symbols]
  /\ r.live \in BOOLEAN /\ r.taken \in BOOLEAN
  /\ \A x \in DOMAIN r.fns : r.fns[x] \in Lines /\ IsDirective(r.fns[x], {"macro"})

Defines(r, i) == IsDirective(i, {"define"}) /\ r.live
DefinesFn(r, i) == IsDirective(i, {"macro"}) /\ r.live
Symbolic(r, i) == IsDirective(i, {"label", "call"}) /\ r.live
IsElse(i)  == IsDirective(i, {"elifdef", "elifndef", "else"})
IsEndif(i) == IsDirective(i, {"endif"})

LEMMA PutHas ==
  \A f, x, v : /\ x \in DOMAIN Put(f, x, v) /\ Put(f, x, v)[x] = v
               /\ \A y \in DOMAIN f : y # x => /\ y \in DOMAIN Put(f, x, v)
                                               /\ Put(f, x, v)[y] = f[y]
BY DEF Put

\* What a line of each kind does.
LEMMA StepIs ==
  ASSUME NEW r, IsMeaning(r), NEW i \in Lines, NEW s, s = MeaningStep(r, i)
  PROVE  /\ IsIf(i) => s = [r EXCEPT !.live = Holds(r, i), !.taken = Holds(r, i)]
         /\ IsElse(i) => s = [r EXCEPT !.live = Holds(r, i) /\ ~r.taken,
                                       !.taken = r.taken \/ Holds(r, i)]
         /\ IsEndif(i) => s = [r EXCEPT !.live = TRUE]
         /\ Defines(r, i) => s = [r EXCEPT !.macros = Put(@, source[i].x, Standing(source[i].args[1], @))]
         /\ DefinesFn(r, i) => s = [r EXCEPT !.fns = Put(@, source[i].x, i)]
         /\ Symbolic(r, i) => s = [r EXCEPT !.symbols = @ \cup Labels(Ways(i, r.fns))]
         /\ ~(\/ IsIf(i) \/ IsElse(i) \/ IsEndif(i) \/ Defines(r, i) \/ DefinesFn(r, i)
              \/ Symbolic(r, i)) => s = r
<1>1. ASSUME IsIf(i)
      PROVE  /\ s = [r EXCEPT !.live = Holds(r, i), !.taken = Holds(r, i)]
             /\ ~IsElse(i) /\ ~IsEndif(i) /\ ~Defines(r, i) /\ ~DefinesFn(r, i) /\ ~Symbolic(r, i)
  BY <1>1 DEF MeaningStep, IsIf, IsElse, IsEndif, Defines, DefinesFn, Symbolic, IsDirective
<1>2. ASSUME IsElse(i)
      PROVE  /\ s = [r EXCEPT !.live = Holds(r, i) /\ ~r.taken, !.taken = r.taken \/ Holds(r, i)]
             /\ ~IsIf(i) /\ ~IsEndif(i) /\ ~Defines(r, i) /\ ~DefinesFn(r, i) /\ ~Symbolic(r, i)
  BY <1>2 DEF MeaningStep, IsIf, IsElse, IsEndif, Defines, DefinesFn, Symbolic, IsDirective
<1>3. ASSUME IsEndif(i)
      PROVE  /\ s = [r EXCEPT !.live = TRUE]
             /\ ~IsIf(i) /\ ~IsElse(i) /\ ~Defines(r, i) /\ ~DefinesFn(r, i) /\ ~Symbolic(r, i)
  BY <1>3 DEF MeaningStep, IsIf, IsElse, IsEndif, Defines, DefinesFn, Symbolic, IsDirective
<1>4. ASSUME Defines(r, i)
      PROVE  /\ s = [r EXCEPT !.macros = Put(@, source[i].x, Standing(source[i].args[1], @))]
             /\ ~IsIf(i) /\ ~IsElse(i) /\ ~IsEndif(i) /\ ~DefinesFn(r, i) /\ ~Symbolic(r, i)
  BY <1>4 DEF MeaningStep, IsIf, IsElse, IsEndif, Defines, DefinesFn, Symbolic, IsDirective
<1>5. ASSUME DefinesFn(r, i)
      PROVE  /\ s = [r EXCEPT !.fns = Put(@, source[i].x, i)]
             /\ ~IsIf(i) /\ ~IsElse(i) /\ ~IsEndif(i) /\ ~Defines(r, i) /\ ~Symbolic(r, i)
  BY <1>5 DEF MeaningStep, IsIf, IsElse, IsEndif, Defines, DefinesFn, Symbolic, IsDirective
<1>6. ASSUME Symbolic(r, i)
      PROVE  /\ s = [r EXCEPT !.symbols = @ \cup Labels(Ways(i, r.fns))]
             /\ ~IsIf(i) /\ ~IsElse(i) /\ ~IsEndif(i) /\ ~Defines(r, i) /\ ~DefinesFn(r, i)
  BY <1>6 DEF MeaningStep, IsIf, IsElse, IsEndif, Defines, DefinesFn, Symbolic, IsDirective
<1>7. ASSUME ~(\/ IsIf(i) \/ IsElse(i) \/ IsEndif(i) \/ Defines(r, i) \/ DefinesFn(r, i)
               \/ Symbolic(r, i))
      PROVE  s = r
  BY <1>7 DEF MeaningStep, IsIf, IsElse, IsEndif, Defines, DefinesFn, Symbolic
<1> QED BY Zenon, <1>1, <1>2, <1>3, <1>4, <1>5, <1>6, <1>7

LEMMA HoldsBoolean == \A r, i : Holds(r, i) \in BOOLEAN
<1> SUFFICES ASSUME NEW r, NEW i PROVE Holds(r, i) \in BOOLEAN
  OBVIOUS
<1>1. CASE source[i].d \in {"ifdef", "elifdef"}
  BY <1>1 DEF Holds
<1>2. CASE source[i].d \notin {"ifdef", "elifdef"}
  BY <1>2 DEF Holds
<1> QED BY <1>1, <1>2

\* s follows r at line i.
Follows(r, s, i) ==
  /\ IsMeaning(s)
  /\ IsIf(i) => s.live = Holds(r, i) /\ s.taken = Holds(r, i)
  /\ IsElse(i) => s.live = (Holds(r, i) /\ ~r.taken) /\ s.taken = (r.taken \/ Holds(r, i))
  /\ IsEndif(i) => s.live
  /\ ~IsIf(i) /\ ~IsElse(i) /\ ~IsEndif(i) => s.live = r.live
  /\ ~IsIf(i) /\ ~IsElse(i) => s.taken = r.taken
  /\ s.macros = IF Defines(r, i) THEN Put(r.macros, source[i].x, Standing(source[i].args[1], r.macros))
                ELSE r.macros
  /\ s.fns = IF DefinesFn(r, i) THEN Put(r.fns, source[i].x, i) ELSE r.fns
  /\ s.symbols = IF Symbolic(r, i) THEN r.symbols \cup Labels(Ways(i, r.fns))
                 ELSE r.symbols

LEMMA StepKeeps ==
  ASSUME NEW r, IsMeaning(r), NEW i \in Lines, NEW s, s = MeaningStep(r, i)
  PROVE  Follows(r, s, i)
<1> USE DEF Follows
<1>0. PICK h \in BOOLEAN : h = Holds(r, i)
  BY HoldsBoolean
<1>1. /\ IsIf(i) => s = [r EXCEPT !.live = Holds(r, i), !.taken = Holds(r, i)]
      /\ IsElse(i) => s = [r EXCEPT !.live = Holds(r, i) /\ ~r.taken,
                                    !.taken = r.taken \/ Holds(r, i)]
      /\ IsEndif(i) => s = [r EXCEPT !.live = TRUE]
      /\ Defines(r, i) => s = [r EXCEPT !.macros = Put(@, source[i].x, Standing(source[i].args[1], @))]
      /\ DefinesFn(r, i) => s = [r EXCEPT !.fns = Put(@, source[i].x, i)]
      /\ Symbolic(r, i) => s = [r EXCEPT !.symbols = @ \cup Labels(Ways(i, r.fns))]
      /\ ~(\/ IsIf(i) \/ IsElse(i) \/ IsEndif(i) \/ Defines(r, i) \/ DefinesFn(r, i)
           \/ Symbolic(r, i)) => s = r
  BY StepIs
<1>2. /\ r = [macros |-> r.macros, fns |-> r.fns, live |-> r.live, taken |-> r.taken,
              symbols |-> r.symbols]
      /\ r.live \in BOOLEAN /\ r.taken \in BOOLEAN
      /\ \A x \in DOMAIN r.fns : r.fns[x] \in Lines /\ IsDirective(r.fns[x], {"macro"})
  BY DEF IsMeaning
<1>3. /\ IsIf(i) => ~IsElse(i) /\ ~IsEndif(i)
      /\ IsElse(i) => ~IsIf(i) /\ ~IsEndif(i)
      /\ IsIf(i) \/ IsElse(i) \/ IsEndif(i) =>
           ~Defines(r, i) /\ ~DefinesFn(r, i) /\ ~Symbolic(r, i)
      /\ Defines(r, i) => ~DefinesFn(r, i) /\ ~Symbolic(r, i)
      /\ DefinesFn(r, i) => ~Symbolic(r, i)
  BY DEF IsIf, IsElse, IsEndif, Defines, DefinesFn, Symbolic, IsDirective
<1> DEFINE new(l, t, m, f, y) == [macros |-> m, fns |-> f, live |-> l, taken |-> t, symbols |-> y]
<1>4. CASE IsIf(i)
  <2>1. s = new(h, h, r.macros, r.fns, r.symbols)
    BY <1>0, <1>1, <1>2, <1>4
  <2>2. IsMeaning(s)
    BY <1>2, <2>1 DEF IsMeaning
  <2>3. s.live = h /\ s.taken = h /\ s.macros = r.macros /\ s.fns = r.fns /\ s.symbols = r.symbols
    BY <2>1
  <2> QED BY Zenon, <1>0, <1>3, <1>4, <2>2, <2>3
<1>5. CASE IsElse(i)
  <2>1. PICK l \in BOOLEAN : l = (h /\ ~r.taken)
    BY <1>2
  <2>2. PICK t \in BOOLEAN : t = (r.taken \/ h)
    BY <1>2
  <2>3. s = new(l, t, r.macros, r.fns, r.symbols)
    <3>1. s = [r EXCEPT !.live = l, !.taken = t]
      BY Zenon, <1>0, <1>1, <1>5, <2>1, <2>2
    <3> QED BY <1>2, <3>1
  <2>4. s.live = l /\ s.taken = t /\ s.macros = r.macros /\ s.fns = r.fns /\ s.symbols = r.symbols
    BY <2>3
  <2>5. IsMeaning(s)
    BY <1>2, <2>3 DEF IsMeaning
  <2> HIDE DEF new
  <2> QED BY Zenon, <1>0, <1>3, <1>5, <2>1, <2>2, <2>4, <2>5
<1>6. CASE IsEndif(i)
  <2>1. s = new(TRUE, r.taken, r.macros, r.fns, r.symbols)
    BY <1>1, <1>2, <1>6
  <2>2. IsMeaning(s)
    BY <1>2, <2>1 DEF IsMeaning
  <2>3. s.live = TRUE /\ s.taken = r.taken /\ s.macros = r.macros /\ s.fns = r.fns /\ s.symbols = r.symbols
    BY <2>1
  <2> QED BY Zenon, <1>0, <1>3, <1>6, <2>2, <2>3
<1>7. CASE Defines(r, i)
  <2>1. s = new(r.live, r.taken, Put(r.macros, source[i].x, Standing(source[i].args[1], r.macros)), r.fns, r.symbols)
    BY <1>1, <1>2, <1>7
  <2>2. IsMeaning(s)
    BY <1>2, <2>1 DEF IsMeaning
  <2>3. s.live = r.live /\ s.taken = r.taken /\ s.macros = Put(r.macros, source[i].x, Standing(source[i].args[1], r.macros)) /\ s.fns = r.fns /\ s.symbols = r.symbols
    BY <2>1
  <2> QED BY Zenon, <1>0, <1>3, <1>7, <2>2, <2>3
<1>8. CASE DefinesFn(r, i)
  <2> DEFINE p == Put(r.fns, source[i].x, i)
  <2>1. s = new(r.live, r.taken, r.macros, p, r.symbols)
    BY <1>1, <1>2, <1>8
  <2>2. \A x \in DOMAIN p : p[x] \in Lines /\ IsDirective(p[x], {"macro"})
    <3>0. DOMAIN p = DOMAIN r.fns \cup {source[i].x} /\ p[source[i].x] = i
      BY DEF Put
    <3>1. \A x \in DOMAIN p : (x = source[i].x /\ p[x] = i) \/ (x \in DOMAIN r.fns /\ p[x] = r.fns[x])
      <4> SUFFICES ASSUME NEW x \in DOMAIN p, x # source[i].x
                   PROVE  x \in DOMAIN r.fns /\ p[x] = r.fns[x]
        BY Zenon, <3>0
      <4>1. x \in DOMAIN r.fns
        BY <3>0
      <4> QED BY <4>1 DEF Put
    <3> QED BY Zenon, <1>2, <1>8, <3>1 DEF DefinesFn
  <2> HIDE DEF p
  <2>3. IsMeaning(s)
    BY <1>2, <2>1, <2>2 DEF IsMeaning
  <2>4. s.live = r.live /\ s.taken = r.taken /\ s.macros = r.macros /\ s.fns = p /\ s.symbols = r.symbols
    BY <2>1
  <2> QED BY Zenon, <1>3, <1>8, <2>3, <2>4 DEF p
<1>9. CASE Symbolic(r, i)
  <2>1. s = new(r.live, r.taken, r.macros, r.fns, r.symbols \cup Labels(Ways(i, r.fns)))
    BY <1>1, <1>2, <1>9
  <2>2. IsMeaning(s)
    BY <1>2, <2>1 DEF IsMeaning
  <2>3. s.live = r.live /\ s.taken = r.taken /\ s.macros = r.macros /\ s.fns = r.fns /\ s.symbols = r.symbols \cup Labels(Ways(i, r.fns))
    BY <2>1
  <2> QED BY Zenon, <1>0, <1>3, <1>9, <2>2, <2>3
<1>10. CASE ~(\/ IsIf(i) \/ IsElse(i) \/ IsEndif(i) \/ Defines(r, i) \/ DefinesFn(r, i)
              \/ Symbolic(r, i))
  BY <1>1, <1>10
<1> QED BY Zenon, <1>4, <1>5, <1>6, <1>7, <1>8, <1>9, <1>10

LEMMA MeaningFacts ==
  ASSUME source \in Sources PROVE \A i \in 0..N : IsMeaning(Meaning[i])
<1> DEFINE S == {i \in Nat : i \in 0..N => IsMeaning(Meaning[i])}
<1>1. N \in Nat /\ Lines = 1..N
  BY SourceFacts
<1>2. 0 \in S
  <2>1. IsMeaning(MeaningStart)
    BY DEF IsMeaning, MeaningStart, Nothing
  <2> QED BY <2>1, MeaningIs
<1>3. ASSUME NEW i \in Nat, i \in S PROVE i + 1 \in S
  <2> SUFFICES ASSUME i + 1 \in 0..N PROVE IsMeaning(Meaning[i + 1])
    OBVIOUS
  <2>1. i + 1 \in Lines /\ (i + 1) - 1 = i /\ IsMeaning(Meaning[i])
    BY <1>1, <1>3
  <2>2. Meaning[i + 1] = MeaningStep(Meaning[i], i + 1)
    BY <2>1, MeaningIs
  <2>3. \A r, s : IsMeaning(r) /\ s = MeaningStep(r, i + 1) => IsMeaning(s)
    BY <2>1, StepKeeps DEF Follows
  <2> QED BY <2>1, <2>2, <2>3
<1> HIDE DEF S
<1>4. Nat \subseteq S
  BY <1>2, <1>3, NatSetInduction
<1> QED BY <1>4 DEF S

LEMMA MeaningNext ==
  ASSUME source \in Sources, NEW i \in Lines
  PROVE  /\ i - 1 \in 0..N /\ IsMeaning(Meaning[i - 1]) /\ IsMeaning(Meaning[i])
         /\ Follows(Meaning[i - 1], Meaning[i], i)
<1>1. i - 1 \in 0..N /\ i \in 0..N
  BY SourceFacts
<1>2. IsMeaning(Meaning[i - 1]) /\ IsMeaning(Meaning[i])
  BY <1>1, MeaningFacts
<1>3. Meaning[i] = MeaningStep(Meaning[i - 1], i)
  BY MeaningIs
<1> QED BY <1>1, <1>2, <1>3, StepKeeps

LEMMA IsConditional ==
  ASSUME NEW i
  PROVE  /\ IsDirective(i, Conditional) <=> IsIf(i) \/ IsElse(i) \/ IsEndif(i)
         /\ InMacro[i] => ~IsIf(i) /\ ~IsElse(i) /\ ~IsEndif(i)
BY DEF IsDirective, Conditional, IsIf, IsElse, IsEndif

LEMMA LiveBoolean ==
  ASSUME source \in Sources, NEW i \in 0..N
  PROVE  Meaning[i].live \in BOOLEAN /\ Meaning[i].taken \in BOOLEAN
BY MeaningFacts DEF IsMeaning

\* Outside conditionals every line is read.
LEMMA LiveOutside ==
  ASSUME source \in Sources, WellFormed
  PROVE  \A i \in 0..N : Depth[i] = 0 => Meaning[i].live
<1> DEFINE S == {i \in Nat : i \in 0..N /\ Depth[i] = 0 => Meaning[i].live}
<1>1. N \in Nat /\ Lines = 1..N
  BY SourceFacts
<1>2. 0 \in S
  BY MeaningIs DEF MeaningStart
<1>3. ASSUME NEW i \in Nat, i \in S PROVE i + 1 \in S
  <2> SUFFICES ASSUME i + 1 \in 0..N, Depth[i + 1] = 0 PROVE Meaning[i + 1].live
    OBVIOUS
  <2> DEFINE k == i + 1
  <2>1. k \in Lines /\ k - 1 = i /\ i \in 0..N
    BY <1>1
  <2>2. Depth[i] \in {0, 1}
    BY <2>1 DEF WellFormed, N
  <2> HIDE DEF k
  <2>3. CASE IsEndif(k)
    BY <2>1, <2>3, MeaningNext DEF Follows, k
  <2>4. CASE ~IsEndif(k)
    <3>1. ~IsIf(k)
      BY <2>1, <2>2, DepthIs DEF k
    <3>2. ~IsElse(k)
      BY <2>1 DEF WellFormed, IsElse, k
    <3>3. Depth[i] = 0
      <4>1. CASE InMacro[k]
        BY <2>1, <4>1, DepthIs DEF k
      <4>2. CASE ~InMacro[k]
        <5>1. source[k].d \notin {"ifdef", "ifndef", "endif"}
          BY <2>4, <3>1, <4>2 DEF IsEndif, IsIf, IsDirective
        <5> QED BY <2>1, <5>1, DepthIs DEF k
      <4> QED BY <4>1, <4>2
    <3>4. Meaning[i].live
      BY <1>3, <2>1, <3>3
    <3>5. Meaning[k].live = Meaning[i].live
      BY Zenon, <2>1, <2>4, <3>1, <3>2, MeaningNext DEF Follows
    <3> QED BY Zenon, <3>4, <3>5 DEF k
  <2> QED BY <2>3, <2>4
<1> HIDE DEF S
<1>4. Nat \subseteq S
  BY <1>2, <1>3, NatSetInduction
<1> QED BY <1>4 DEF S

\* A line in a macro function follows one that goes on.
LEMMA InMacroFollows ==
  ASSUME source \in Sources, NEW i \in Lines, InMacro[i]
  PROVE  /\ i - 1 \in Lines /\ source[i - 1].more
         /\ InMacro[i - 1] \/ source[i - 1].d = "macro"
         /\ ~IsDirective(i - 1, Conditional)
         /\ Meaning[i].live = Meaning[i - 1].live
         /\ Alive(i) <=> Alive(i - 1)
<1>1. i - 1 \in Lines /\ (i - 1) + 1 = i
  BY SourceFacts, InMacroIs
<1>2. source[i - 1].more /\ (InMacro[i - 1] \/ source[i - 1].d = "macro")
  BY <1>1, InMacroIs
<1>3. ~IsDirective(i - 1, Conditional) /\ ~IsDirective(i, Conditional)
  BY <1>2 DEF IsDirective, Conditional
<1>4. ~IsIf(i) /\ ~IsElse(i) /\ ~IsEndif(i)
  BY Zenon, IsConditional
<1>5. Meaning[i].live = Meaning[i - 1].live
  BY Zenon, <1>4, MeaningNext DEF Follows
<1> QED BY Zenon, <1>1, <1>2, <1>3, <1>5 DEF Alive

\* What lines define that are not read is not defined.
LEMMA SameBetween ==
  ASSUME source \in Sources, NEW a \in 0..N, NEW b \in a..N,
         \A j \in (a + 1)..b : ~Alive(j) \/ InMacro[j]
  PROVE  Meaning[b].macros = Meaning[a].macros /\ Meaning[b].fns = Meaning[a].fns
<1> DEFINE S == {i \in Nat : i \in a..b =>
                   Meaning[i].macros = Meaning[a].macros /\ Meaning[i].fns = Meaning[a].fns}
<1>1. N \in Nat /\ Lines = 1..N
  BY SourceFacts
<1>2. 0 \in S
  BY <1>1
<1>3. ASSUME NEW i \in Nat, i \in S PROVE i + 1 \in S
  <2> SUFFICES ASSUME i + 1 \in a..b
               PROVE  /\ Meaning[i + 1].macros = Meaning[a].macros
                      /\ Meaning[i + 1].fns = Meaning[a].fns
    OBVIOUS
  <2>1. CASE i + 1 = a
    BY <2>1
  <2>2. CASE i + 1 # a
    <3> DEFINE k == i + 1
    <3>1. i \in a..b /\ k \in Lines /\ k - 1 = i /\ (~Alive(k) \/ InMacro[k]) /\ i \in 0..N
      BY <1>1, <2>2
    <3> HIDE DEF k
    <3>2. ~Defines(Meaning[i], k) /\ ~DefinesFn(Meaning[i], k)
      <4> SUFFICES ASSUME Defines(Meaning[i], k) \/ DefinesFn(Meaning[i], k) PROVE FALSE
        OBVIOUS
      <4>1. ~IsDirective(k, Conditional) /\ Meaning[i].live /\ ~InMacro[k]
        BY DEF Defines, DefinesFn, IsDirective, Conditional
      <4>2. ~IsIf(k) /\ ~IsElse(k) /\ ~IsEndif(k)
        BY Zenon, <4>1, IsConditional
      <4>3. Meaning[k].live = Meaning[i].live
        BY Zenon, <3>1, <4>2, MeaningNext DEF Follows
      <4> QED BY Zenon, <3>1, <4>1, <4>3 DEF Alive
    <3>3. Meaning[k].macros = Meaning[i].macros /\ Meaning[k].fns = Meaning[i].fns
      BY Zenon, <3>1, <3>2, MeaningNext DEF Follows
    <3>4. Meaning[i].macros = Meaning[a].macros /\ Meaning[i].fns = Meaning[a].fns
      BY <1>3, <3>1
    <3> QED BY Zenon, <3>3, <3>4 DEF k
  <2> QED BY <2>1, <2>2
<1> HIDE DEF S
<1>4. Nat \subseteq S
  BY <1>2, <1>3, NatSetInduction
<1>5. b \in Nat /\ b \in a..b
  BY <1>1
<1> QED BY <1>4, <1>5 DEF S

\* The last definition of a macro function is the one that counts.
LEMMA LastWins ==
  ASSUME source \in Sources, NEW m \in Lines, IsLast(m)
  PROVE  source[m].x \in DOMAIN Meaning[N].fns /\ Meaning[N].fns[source[m].x] = m
<1> DEFINE x == source[m].x
           S == {i \in Nat : i \in m..N => x \in DOMAIN Meaning[i].fns /\ Meaning[i].fns[x] = m}
<1>1. N \in Nat /\ Lines = 1..N /\ m \in Nat /\ m > 0
  BY SourceFacts
<1> HIDE DEF x
<1>2. 0 \in S
  BY <1>1
<1>3. ASSUME NEW i \in Nat, i \in S PROVE i + 1 \in S
  <2> DEFINE k == i + 1
  <2> SUFFICES ASSUME k \in m..N
               PROVE  x \in DOMAIN Meaning[k].fns /\ Meaning[k].fns[x] = m
    OBVIOUS
  <2>1. k \in Lines /\ k - 1 = i /\ i \in 0..N /\ k \in m..N
    BY <1>1
  <2> HIDE DEF k
  <2>2. IsDirective(k, {"macro"}) => Meaning[k].live = Meaning[i].live
    <3> SUFFICES ASSUME IsDirective(k, {"macro"}) PROVE Meaning[k].live = Meaning[i].live
      OBVIOUS
    <3>1. ~IsIf(k) /\ ~IsElse(k) /\ ~IsEndif(k)
      BY DEF IsDirective, IsIf, IsElse, IsEndif
    <3> QED BY Zenon, <2>1, <3>1, MeaningNext DEF Follows
  <2>3. Meaning[k].fns = IF DefinesFn(Meaning[i], k) THEN Put(Meaning[i].fns, source[k].x, k)
                         ELSE Meaning[i].fns
    BY Zenon, <2>1, MeaningNext DEF Follows
  <2>4. CASE k = m
    <3>1. DefinesFn(Meaning[i], k)
      BY Zenon, <2>2, <2>4 DEF DefinesFn, IsLast
    <3>2. source[k].x = x
      BY <2>4 DEF x
    <3>3. Meaning[k].fns = Put(Meaning[i].fns, x, m)
      BY Zenon, <2>3, <2>4, <3>1, <3>2
    <3> QED BY <3>3, PutHas
  <2>5. CASE k # m
    <3>1. i \in m..N /\ k > m
      BY <1>1, <2>1, <2>5
    <3>2. x \in DOMAIN Meaning[i].fns /\ Meaning[i].fns[x] = m
      BY <1>3, <3>1
    <3>3. CASE DefinesFn(Meaning[i], k)
      <4>1. source[k].x # x
        BY Zenon, <2>1, <2>2, <3>1, <3>3 DEF DefinesFn, IsLast, x
      <4>2. Meaning[k].fns = Put(Meaning[i].fns, source[k].x, k)
        BY Zenon, <2>3, <3>3
      <4> QED BY <3>2, <4>1, <4>2, PutHas
    <3>4. CASE ~DefinesFn(Meaning[i], k)
      BY Zenon, <2>3, <3>2, <3>4
    <3> QED BY <3>3, <3>4
  <2> QED BY <2>4, <2>5
<1> HIDE DEF S
<1>4. Nat \subseteq S
  BY <1>2, <1>3, NatSetInduction
<1>5. N \in m..N
  BY <1>1
<1> QED BY <1>1, <1>4, <1>5 DEF S, x

-----------------------------------------------------------------------------
(* The ways from a line, as sequences of lines.                            *)

LEMMA LastIs == \A s : Last(s) = s[Len(s)]
BY DEF Last

LEMMA AppendOf ==
  ASSUME NEW S, NEW s \in Seq(S), NEW e \in S
  PROVE  /\ Append(s, e) \in Seq(S) /\ Len(Append(s, e)) = Len(s) + 1 /\ Len(s) \in Nat
         /\ DOMAIN s = 1..Len(s) /\ DOMAIN Append(s, e) = 1..(Len(s) + 1)
         /\ \A m \in 1..Len(s) : Append(s, e)[m] = s[m]
         /\ Append(s, e)[Len(s) + 1] = e
OBVIOUS

LEMMA FrontOf ==
  ASSUME NEW S, NEW s \in Seq(S), Len(s) > 0
  PROVE  \E p \in Seq(S) : /\ Len(p) = Len(s) - 1 /\ \A m \in 1..Len(p) : p[m] = s[m]
                           /\ s = Append(p, s[Len(s)])
<1> DEFINE n == Len(s) - 1
           p == [m \in 1..n |-> s[m]]
<1>1. n \in Nat /\ Len(s) = n + 1 /\ n + 1 \in DOMAIN s
  OBVIOUS
<1>2. \A m \in 1..n : s[m] \in S
  BY <1>1
<1>3. p \in Seq(S) /\ Len(p) = n
  BY <1>1, <1>2
<1>4. \A m \in 1..n : p[m] = s[m]
  OBVIOUS
<1> HIDE DEF p
<1>5. Append(p, s[n + 1]) = s
  <2> DEFINE a == Append(p, s[n + 1])
  <2>1. s[n + 1] \in S
    BY <1>1
  <2>2. a \in Seq(S) /\ Len(a) = n + 1 /\ \A m \in 1..n : a[m] = p[m]
    BY <1>3, <2>1, AppendOf
  <2>3. a[n + 1] = s[n + 1]
    BY <1>3, <2>1, AppendOf
  <2> HIDE DEF a
  <2>4. \A m \in 1..(n + 1) : a[m] = s[m]
    BY <1>1, <1>4, <2>2, <2>3
  <2>5. a = [m \in 1..(n + 1) |-> a[m]] /\ s = [m \in 1..(n + 1) |-> s[m]]
    BY <1>1, <2>2
  <2>6. a = s
    BY <2>4, <2>5
  <2> QED BY <2>6 DEF a
<1> HIDE DEF n
<1> QED BY <1>1, <1>3, <1>5, <1>4

\* What line j calls, in fns.

NextWays(W, fns) ==
  UNION {{Append(k, j) : j \in BodyOf(fns[source[Last(k)].x])} :
         k \in {k \in W : GoodCall(Last(k), fns)}}

WayTable(f, i, fns, n) ==
  f = [m \in 0..n |-> IF m = 0 THEN {<<i>>} ELSE NextWays(f[m - 1], fns)]

LEMMA WayTableExists ==
  ASSUME NEW i, NEW fns PROVE \A n \in Nat : \E f : WayTable(f, i, fns, n)
<1> DEFINE S == {n \in Nat : \E f : WayTable(f, i, fns, n)}
<1>1. 0 \in S
  <2> DEFINE f == [m \in 0..0 |-> {<<i>>}]
  <2>1. WayTable(f, i, fns, 0)
    BY DEF WayTable
  <2> QED BY <2>1
<1>2. ASSUME NEW n \in Nat, n \in S PROVE n + 1 \in S
  <2>1. PICK f : WayTable(f, i, fns, n)
    BY <1>2
  <2> DEFINE g == [m \in 0..(n + 1) |-> IF m \in 0..n THEN f[m] ELSE NextWays(f[m - 1], fns)]
             h == [m \in 0..(n + 1) |-> IF m = 0 THEN {<<i>>} ELSE NextWays(g[m - 1], fns)]
  <2>2. ASSUME NEW m \in 0..(n + 1) PROVE g[m] = h[m]
    <3>1. m # 0 => m - 1 \in 0..n /\ m - 1 \in 0..(n + 1)
      OBVIOUS
    <3>2. m # 0 => g[m - 1] = f[m - 1]
      BY <3>1
    <3>3. m = 0 => h[m] = {<<i>>}
      BY Zenon
    <3>4. m # 0 => h[m] = NextWays(f[m - 1], fns)
      BY Zenon, <3>2
    <3>5. m \notin 0..n => m # 0 /\ 0 \in 0..n
      OBVIOUS
    <3>6. CASE m \in 0..n
      <4>1. /\ m = 0 => f[m] = {<<i>>}
            /\ m # 0 => f[m] = NextWays(f[m - 1], fns)
        BY Zenon, <2>1, <3>6 DEF WayTable
      <4>2. g[m] = f[m]
        BY Zenon, <3>6
      <4> QED BY Zenon, <3>3, <3>4, <4>1, <4>2
    <3>7. CASE m \notin 0..n
      <4>1. g[m] = NextWays(f[m - 1], fns)
        BY Zenon, <3>7
      <4> QED BY Zenon, <3>4, <3>5, <3>7, <4>1
    <3> QED BY <3>6, <3>7
  <2>3. g = h
    BY <2>2
  <2>4. WayTable(g, i, fns, n + 1)
    <3> HIDE DEF g
    <3> QED BY <2>3 DEF WayTable
  <2> QED BY <2>4
<1> HIDE DEF S
<1>3. Nat \subseteq S
  BY <1>1, <1>2, NatSetInduction
<1> QED BY <1>3 DEF S

\* The lines from i on that are called one from another.
IsWay(k, i, fns) ==
  /\ k \in Seq(Lines) /\ Len(k) > 0 /\ k[1] = i
  /\ \A m \in 1..(Len(k) - 1) : /\ GoodCall(k[m], fns)
                                /\ k[m + 1] \in BodyOf(Called(k[m], fns))

LEMMA BodyLines ==
  ASSUME NEW m \in Lines PROVE BodyOf(m) \subseteq Lines
BY DEF BodyOf

LEMMA NextWay ==
  ASSUME source \in Sources, NEW i \in Lines, NEW fns, \A x \in DOMAIN fns : fns[x] \in Lines,
         NEW n \in Nat, NEW W, \A k : k \in W <=> IsWay(k, i, fns) /\ Len(k) = n + 1
  PROVE  \A k : k \in NextWays(W, fns) <=> IsWay(k, i, fns) /\ Len(k) = n + 2
<1>1. ASSUME NEW k \in NextWays(W, fns) PROVE IsWay(k, i, fns) /\ Len(k) = n + 2
  <2>0. PICK p \in W : /\ GoodCall(Last(p), fns)
                        /\ \E j \in BodyOf(fns[source[Last(p)].x]) : k = Append(p, j)
    BY <1>1 DEF NextWays
  <2>1. PICK j \in BodyOf(fns[source[Last(p)].x]) : GoodCall(Last(p), fns) /\ k = Append(p, j)
    BY <2>0
  <2>2. IsWay(p, i, fns) /\ Len(p) = n + 1
    BY <2>1
  <2>3. Last(p) = p[n + 1]
    BY <2>2, LastIs
  <2>4. j \in BodyOf(Called(p[n + 1], fns)) /\ GoodCall(p[n + 1], fns)
    BY <2>1, <2>3 DEF Called
  <2>5. j \in Lines
    BY <2>4, BodyLines DEF Called, GoodCall
  <2>6. /\ k \in Seq(Lines) /\ Len(k) = n + 2
        /\ \A m \in 1..(n + 1) : k[m] = p[m]
        /\ k[n + 2] = j
    BY <2>1, <2>2, <2>5, AppendOf DEF IsWay
  <2>7. ASSUME NEW m \in 1..(Len(k) - 1)
        PROVE  GoodCall(k[m], fns) /\ k[m + 1] \in BodyOf(Called(k[m], fns))
    <3>1. CASE m = n + 1
      BY <2>4, <2>6, <3>1
    <3>2. CASE m # n + 1
      <4>1. m \in 1..(Len(p) - 1) /\ m \in 1..(n + 1) /\ m + 1 \in 1..(n + 1)
        BY <2>2, <2>6, <3>2
      <4> QED BY <2>2, <2>6, <4>1 DEF IsWay
    <3> QED BY <3>1, <3>2
  <2>8. k[1] = i /\ Len(k) > 0
    BY <2>2, <2>6 DEF IsWay
  <2> QED BY <2>6, <2>7, <2>8 DEF IsWay
<1>2. ASSUME NEW k, IsWay(k, i, fns), Len(k) = n + 2 PROVE k \in NextWays(W, fns)
  <2>1. k \in Seq(Lines)
    BY <1>2 DEF IsWay
  <2>2. PICK p \in Seq(Lines) : /\ Len(p) = n + 1 /\ \A m \in 1..Len(p) : p[m] = k[m]
                                /\ k = Append(p, k[n + 2])
    BY <1>2, <2>1, FrontOf
  <2>3. /\ p[1] = i /\ Len(p) > 0 /\ p[n + 1] = k[n + 1]
        /\ \A m \in 1..(Len(p) - 1) : p[m] = k[m] /\ p[m + 1] = k[m + 1] /\ m \in 1..(Len(k) - 1)
    BY <1>2, <2>2 DEF IsWay
  <2>4. IsWay(p, i, fns)
    BY <1>2, <2>2, <2>3 DEF IsWay
  <2>5. p \in W
    BY <2>2, <2>4
  <2>6. Last(p) = p[n + 1]
    BY <2>2, LastIs
  <2>7. GoodCall(k[n + 1], fns) /\ k[n + 2] \in BodyOf(Called(k[n + 1], fns))
    <3>1. n + 1 \in 1..(Len(k) - 1) /\ (n + 1) + 1 = n + 2
      BY <1>2
    <3> QED BY <1>2, <3>1 DEF IsWay
  <2>8. GoodCall(Last(p), fns) /\ k[n + 2] \in BodyOf(fns[source[Last(p)].x])
    BY <2>3, <2>6, <2>7 DEF Called
  <2> QED BY <2>2, <2>5, <2>8 DEF NextWays
<1> QED BY <1>1, <1>2

LEMMA FirstWay ==
  ASSUME source \in Sources, NEW i \in Lines, NEW fns
  PROVE  \A k : k \in {<<i>>} <=> IsWay(k, i, fns) /\ Len(k) = 1
<1>1. <<i>> \in Seq(Lines) /\ Len(<<i>>) = 1 /\ <<i>>[1] = i
  OBVIOUS
<1>2. IsWay(<<i>>, i, fns)
  BY <1>1 DEF IsWay
<1>3. ASSUME NEW k, IsWay(k, i, fns), Len(k) = 1 PROVE k = <<i>>
  BY <1>3 DEF IsWay
<1> QED BY <1>1, <1>2, <1>3

\* The ways are just these, of no more than Limit calls.
LEMMA WaysAre ==
  ASSUME source \in Sources, NEW i \in Lines, NEW fns, \A x \in DOMAIN fns : fns[x] \in Lines
  PROVE  \A k : k \in Ways(i, fns) <=> IsWay(k, i, fns) /\ Len(k) =< Limit + 1
<1> DEFINE w == CHOOSE f : WayTable(f, i, fns, Limit)
           S == {n \in Nat : n \in 0..Limit =>
                   \A k : k \in w[n] <=> IsWay(k, i, fns) /\ Len(k) = n + 1}
<1>1. WayTable(w, i, fns, Limit)
  BY WayTableExists, LimitAssumption
<1>2. Ways(i, fns) = UNION {w[n] : n \in 0..Limit}
  BY DEF Ways, WayTable, NextWays
<1> HIDE DEF w
<1>a. \A n \in 1..Limit : n \in 0..Limit /\ n # 0
  BY LimitAssumption
<1>3. w[0] = {<<i>>} /\ \A n \in 1..Limit : w[n] = NextWays(w[n - 1], fns)
  BY Zenon, <1>1, <1>a, ZeroIn, LimitAssumption DEF WayTable
<1>4. 0 \in S
  BY <1>3, FirstWay
<1>5. ASSUME NEW n \in Nat, n \in S PROVE n + 1 \in S
  <2> SUFFICES ASSUME n + 1 \in 0..Limit
               PROVE  \A k : k \in w[n + 1] <=> IsWay(k, i, fns) /\ Len(k) = n + 2
    OBVIOUS
  <2>1. n \in 0..Limit /\ n + 1 \in 1..Limit /\ (n + 1) - 1 = n
    BY LimitAssumption
  <2>2. \A k : k \in w[n] <=> IsWay(k, i, fns) /\ Len(k) = n + 1
    BY <1>5, <2>1
  <2>3. w[n + 1] = NextWays(w[n], fns)
    BY <1>3, <2>1
  <2>4. \A W : (\A k : k \in W <=> IsWay(k, i, fns) /\ Len(k) = n + 1)
                => \A k : k \in NextWays(W, fns) <=> IsWay(k, i, fns) /\ Len(k) = n + 2
    BY NextWay
  <2> QED BY Zenon, <2>2, <2>3, <2>4
<1> HIDE DEF S
<1>6. Nat \subseteq S
  BY <1>4, <1>5, NatSetInduction
<1>7. \A n \in 0..Limit : \A k : k \in w[n] <=> IsWay(k, i, fns) /\ Len(k) = n + 1
  BY <1>6 DEF S
<1>8. ASSUME NEW k, IsWay(k, i, fns), Len(k) =< Limit + 1 PROVE k \in Ways(i, fns)
  <2>1. Len(k) - 1 \in 0..Limit /\ Len(k) = (Len(k) - 1) + 1
    BY <1>8, LimitAssumption DEF IsWay
  <2>2. k \in w[Len(k) - 1]
    BY <1>7, <1>8, <2>1
  <2> QED BY <1>2, <2>1, <2>2
<1>9. ASSUME NEW k \in Ways(i, fns) PROVE IsWay(k, i, fns) /\ Len(k) =< Limit + 1
  <2>1. PICK n \in 0..Limit : k \in w[n]
    BY <1>2, <1>9
  <2> QED BY <1>7, <2>1, LimitAssumption
<1> QED BY <1>8, <1>9

-----------------------------------------------------------------------------
(* All that comes of the lines that count.                                 *)

LEMMA FnsLines ==
  ASSUME source \in Sources, NEW i \in 0..N
  PROVE  \A x \in DOMAIN Meaning[i].fns :
           Meaning[i].fns[x] \in Lines /\ IsDirective(Meaning[i].fns[x], {"macro"})
BY MeaningFacts DEF IsMeaning

LEMMA KeptIs ==
  ASSUME source \in Sources, NEW i \in Kept
  PROVE  /\ i \in Lines /\ i - 1 \in 0..N /\ i \in 0..N /\ Alive(i) /\ ~InMacro[i]
         /\ source[i].d \notin Directives
         /\ Meaning[i - 1].live
         /\ Meaning[i].fns = Meaning[i - 1].fns /\ Meaning[i].macros = Meaning[i - 1].macros
<1>1. i \in Lines /\ source[i].d \notin Directives /\ ~InMacro[i] /\ Meaning[i].live
  BY DEF Kept
<1>2. i - 1 \in 0..N /\ i \in 0..N
  BY <1>1, SourceFacts
<1>3. /\ ~IsDirective(i, Conditional) /\ ~IsDirective(i, {"define"}) /\ ~IsDirective(i, {"macro"})
      /\ ~IsIf(i) /\ ~IsElse(i) /\ ~IsEndif(i)
  BY <1>1 DEF IsDirective, Conditional, Directives, IsIf, IsElse, IsEndif
<1>4. Meaning[i].live = Meaning[i - 1].live
  BY Zenon, <1>1, <1>3, MeaningNext DEF Follows
<1>5. Meaning[i].fns = Meaning[i - 1].fns /\ Meaning[i].macros = Meaning[i - 1].macros
  BY Zenon, <1>1, <1>3, MeaningNext DEF Follows, Defines, DefinesFn
<1>6. Alive(i)
  BY Zenon, <1>1, <1>3 DEF Alive
<1> QED BY Zenon, <1>1, <1>2, <1>4, <1>5, <1>6

LEMMA ExpandedIs ==
  ASSUME source \in Sources
  PROVE  \A k : k \in Expanded <=> /\ k[1] \in Kept /\ IsWay(k, k[1], Meaning[k[1]].fns)
                                   /\ Len(k) =< Limit + 1
<1>1. ASSUME NEW k, NEW i \in Kept
      PROVE  k \in Ways(i, Meaning[i].fns) <=> IsWay(k, i, Meaning[i].fns) /\ Len(k) =< Limit + 1
  BY <1>1, KeptIs, FnsLines, WaysAre
<1>2. ASSUME NEW k \in Expanded
      PROVE  k[1] \in Kept /\ IsWay(k, k[1], Meaning[k[1]].fns) /\ Len(k) =< Limit + 1
  <2>1. PICK i \in Kept : k \in Ways(i, Meaning[i].fns)
    BY DEF Expanded
  <2>2. IsWay(k, i, Meaning[i].fns) /\ Len(k) =< Limit + 1
    BY <1>1, <2>1
  <2>3. k[1] = i
    BY <2>2 DEF IsWay
  <2> QED BY <2>2, <2>3
<1>3. ASSUME NEW k, k[1] \in Kept, IsWay(k, k[1], Meaning[k[1]].fns), Len(k) =< Limit + 1
      PROVE  k \in Expanded
  BY <1>1, <1>3 DEF Expanded
<1> QED BY <1>2, <1>3

LEMMA ExpandedFacts ==
  ASSUME source \in Sources, NEW k \in Expanded
  PROVE  /\ k \in Seq(Lines) /\ k \in Seq(Nat) /\ Len(k) \in Nat /\ Len(k) > 0 /\ DOMAIN k = 1..Len(k)
         /\ k[1] \in Kept /\ k[1] \in Lines /\ Last(k) = k[Len(k)] /\ Last(k) \in Lines
<1>1. k[1] \in Kept /\ k \in Seq(Lines) /\ Len(k) > 0
  BY ExpandedIs DEF IsWay
<1>2. Lines \subseteq Nat
  BY SourceFacts
<1>3. Len(k) \in Nat /\ DOMAIN k = 1..Len(k) /\ \A n \in 1..Len(k) : k[n] \in Lines
  BY <1>1
<1>4. k = [n \in 1..Len(k) |-> k[n]] /\ k[Len(k)] \in Lines
  BY <1>1, <1>3
<1>5. k \in Seq(Nat)
  BY <1>2, <1>3, <1>4
<1> QED BY <1>1, <1>3, <1>4, <1>5, LastIs DEF Kept

\* A line that is not a call comes to itself.
LEMMA NoCall ==
  ASSUME source \in Sources, NEW k \in Expanded, source[k[1]].d # "call"
  PROVE  Len(k) = 1 /\ k = <<k[1]>> /\ Last(k) = k[1]
<1>1. IsWay(k, k[1], Meaning[k[1]].fns) /\ k \in Seq(Lines) /\ Len(k) \in Nat /\ Len(k) > 0
  BY ExpandedIs, ExpandedFacts
<1>2. Len(k) = 1
  <2>1. ASSUME 1 \in 1..(Len(k) - 1) PROVE FALSE
    <3>1. GoodCall(k[1], Meaning[k[1]].fns)
      BY <1>1, <2>1 DEF IsWay
    <3> QED BY <3>1 DEF GoodCall
  <2>2. \A n \in Nat : n > 0 /\ n # 1 => 1 \in 1..(n - 1)
    OBVIOUS
  <2> QED BY Zenon, <1>1, <2>1, <2>2
<1>3. k = <<k[1]>>
  <2>1. k = [n \in 1..1 |-> k[n]]
    BY <1>1, <1>2
  <2> QED BY <2>1
<1>4. Last(k) = k[1]
  BY <1>2, LastIs
<1> QED BY <1>2, <1>3, <1>4

LEMMA LabelsUnion == \A S, T : Labels(S \cup T) = Labels(S) \cup Labels(T)
BY DEF Labels

\* The symbols are those of every equ, and the labels that are read.
LEMMA SymbolsAre ==
  ASSUME source \in Sources
  PROVE  \A b \in 0..N :
           Meaning[b].symbols = ConstNames \cup Labels({k \in Expanded : k[1] =< b})
<1> DEFINE To(b) == {k \in Expanded : k[1] =< b}
           S == {b \in Nat : b \in 0..N => Meaning[b].symbols = ConstNames \cup Labels(To(b))}
<1>1. N \in Nat /\ Lines = 1..N
  BY SourceFacts
<1>2. \A k \in Expanded : k[1] \in Lines /\ k[1] \in Kept
  BY ExpandedFacts
<1>3. 0 \in S
  <2>1. To(0) = {}
    BY <1>1, <1>2
  <2>2. Labels(To(0)) = {}
    BY <2>1 DEF Labels
  <2>3. Meaning[0].symbols = ConstNames
    BY MeaningIs DEF MeaningStart
  <2> QED BY <2>2, <2>3
<1>4. ASSUME NEW b \in Nat, b \in S PROVE b + 1 \in S
  <2> DEFINE i == b + 1
             r == Meaning[b]
  <2> SUFFICES ASSUME i \in 0..N PROVE Meaning[i].symbols = ConstNames \cup Labels(To(i))
    OBVIOUS
  <2>1. i \in Lines /\ i - 1 = b /\ b \in 0..N /\ b < i
    BY <1>1
  <2>2. To(i) = To(b) \cup {k \in Expanded : k[1] = i}
    BY <1>1, <1>2
  <2>3. r.symbols = ConstNames \cup Labels(To(b))
    BY <1>4, <2>1
  <2> HIDE DEF i, r, To
  <2>4. Meaning[i].symbols = IF Symbolic(r, i) THEN r.symbols \cup Labels(Ways(i, r.fns))
                             ELSE r.symbols
    BY Zenon, <2>1, MeaningNext DEF Follows, r
  <2>5. source[i].d \in {"label", "call"} => ~IsIf(i) /\ ~IsElse(i) /\ ~IsEndif(i)
    BY DEF IsIf, IsElse, IsEndif, IsDirective
  <2>6. source[i].d \in {"label", "call"} => Meaning[i].live = r.live
    BY Zenon, <2>1, <2>5, MeaningNext DEF Follows, r
  <2>7. CASE Symbolic(r, i)
    <3>1. i \in Kept
      <4>1. r.live /\ source[i].d \in {"label", "call"} /\ ~InMacro[i]
        BY <2>7 DEF Symbolic, IsDirective
      <4>2. source[i].d \notin Directives
        BY <4>1 DEF Directives, Conditional
      <4>3. Meaning[i].live
        BY Zenon, <2>6, <4>1
      <4> QED BY <2>1, <4>1, <4>2, <4>3 DEF Kept
    <3>2. Meaning[i].fns = r.fns
      BY <2>1, <3>1, KeptIs DEF r
    <3>3. \A k : k \in Ways(i, r.fns) <=> IsWay(k, i, r.fns) /\ Len(k) =< Limit + 1
      BY <2>1, FnsLines, WaysAre DEF r
    <3>4. \A k : k \in Expanded /\ k[1] = i <=> k \in Ways(i, r.fns)
      BY <3>1, <3>2, <3>3, ExpandedIs DEF IsWay
    <3>5. {k \in Expanded : k[1] = i} = Ways(i, r.fns)
      BY Zenon, <3>4
    <3>6. Labels(To(i)) = Labels(To(b)) \cup Labels(Ways(i, r.fns))
      BY Zenon, <2>2, <3>5, LabelsUnion
    <3> QED BY <2>3, <2>4, <2>7, <3>6
  <2>8. CASE ~Symbolic(r, i)
    <3>1. ASSUME NEW k \in Expanded, k[1] = i, IsLabel(k) PROVE FALSE
      <4>1. i \in Kept
        BY <1>2, <3>1
      <4>2. Meaning[i - 1].live /\ ~InMacro[i]
        BY <4>1, KeptIs
      <4>3. source[i].d \notin {"label", "call"}
        BY <2>1, <2>8, <4>2 DEF Symbolic, IsDirective, r
      <4>4. Last(k) = i
        BY <3>1, <4>3, NoCall
      <4> QED BY <3>1, <4>3, <4>4 DEF IsLabel
    <3>2. Labels({k \in Expanded : k[1] = i}) = {}
      BY <3>1 DEF Labels
    <3>3. Labels(To(i)) = Labels(To(b)) \cup {}
      BY ZenonT(30), <2>2, <3>2, LabelsUnion
    <3> QED BY <2>3, <2>4, <2>8, <3>3
  <2> QED BY <2>7, <2>8
<1> HIDE DEF S
<1>5. Nat \subseteq S
  BY <1>3, <1>4, NatSetInduction
<1> QED BY <1>1, <1>5 DEF S

-----------------------------------------------------------------------------
(* A way and the ways on from it.                                          *)

LEMMA ExtendsOne ==
  ASSUME NEW i, NEW k \in Seq(Nat), Len(k) > 0 PROVE Extends(<<i>>, k) <=> k[1] = i
<1>1. Len(<<i>>) = 1 /\ DOMAIN <<i>> = {1} /\ <<i>>[1] = i
  OBVIOUS
<1> QED BY <1>1 DEF Extends

LEMMA ExtendsSelf == ASSUME NEW k \in Seq(Nat) PROVE Extends(k, k)
BY DEF Extends

\* Two ways of which one is before the other have no way on in common.
LEMMA ExtendsApart ==
  ASSUME NEW g \in Seq(Nat), NEW h \in Seq(Nat), Before(g, h), NEW k
  PROVE  ~(Extends(g, k) /\ Extends(h, k))
<1>1. PICK n \in DOMAIN g \cap DOMAIN h : g[n] < h[n]
  BY DEF Before
<1>2. g[n] \in Nat /\ h[n] \in Nat
  OBVIOUS
<1> SUFFICES ASSUME Extends(g, k), Extends(h, k) PROVE FALSE
  OBVIOUS
<1>3. g[n] = k[n] /\ h[n] = k[n]
  BY <1>1 DEF Extends
<1> QED BY <1>1, <1>2, <1>3

LEMMA ExtendsNext ==
  ASSUME NEW h \in Seq(Nat), NEW j \in Nat, NEW k \in Seq(Nat)
  PROVE  Extends(Append(h, j), k) <=> Extends(h, k) /\ Len(k) > Len(h) /\ k[Len(h) + 1] = j
<1> DEFINE a == Append(h, j)
<1>1. /\ Len(a) = Len(h) + 1 /\ Len(h) \in Nat /\ Len(k) \in Nat
      /\ DOMAIN h = 1..Len(h) /\ DOMAIN a = 1..(Len(h) + 1)
      /\ \A m \in 1..Len(h) : a[m] = h[m]
      /\ a[Len(h) + 1] = j
  BY AppendOf
<1> HIDE DEF a
<1>2. ASSUME Extends(a, k) PROVE Extends(h, k) /\ Len(k) > Len(h) /\ k[Len(h) + 1] = j
  BY SMTT(30), <1>1, <1>2 DEF Extends
<1>3. ASSUME Extends(h, k), Len(k) > Len(h), k[Len(h) + 1] = j PROVE Extends(a, k)
  BY SMTT(30), <1>1, <1>3 DEF Extends
<1> QED BY <1>2, <1>3 DEF a

LEMMA ExtendsSame ==
  ASSUME NEW h \in Seq(Nat), NEW k \in Seq(Nat), Extends(h, k), Len(k) =< Len(h)
  PROVE  k = h
<1>1. Len(k) = Len(h) /\ Len(h) \in Nat /\ \A n \in 1..Len(h) : h[n] = k[n]
  BY DEF Extends
<1>2. k = [n \in 1..Len(h) |-> k[n]] /\ h = [n \in 1..Len(h) |-> h[n]]
  BY <1>1
<1> QED BY <1>1, <1>2

-----------------------------------------------------------------------------
(* A source and what it means stay as they are.                            *)

LEMMA LinesSame ==
  ASSUME source' = source
  PROVE  /\ N' = N /\ Lines' = Lines /\ Consts' = Consts /\ InMacro' = InMacro
         /\ ConstNames' = ConstNames
         /\ \A m : BodyOf(m)' = BodyOf(m) /\ ParamsOf(m)' = ParamsOf(m)
         /\ \A i, ds : IsDirective(i, ds)' <=> IsDirective(i, ds)
         /\ \A k : (IsLabel(k)' <=> IsLabel(k)) /\ (IsIns(k)' <=> IsIns(k)) /\ Name(k)' = Name(k)
<1>1. Lines' = Lines /\ N' = N
  BY DEF Lines, N
<1>2. Consts' = Consts
  BY <1>1 DEF Consts
<1>3. InMacro' = InMacro
  BY <1>1 DEF InMacro
<1>4. ConstNames' = ConstNames
  BY <1>2 DEF ConstNames
<1>5. ASSUME NEW m PROVE BodyOf(m)' = BodyOf(m) /\ ParamsOf(m)' = ParamsOf(m)
  BY <1>1, <1>3 DEF BodyOf, ParamsOf
<1>6. ASSUME NEW i, NEW ds PROVE IsDirective(i, ds)' <=> IsDirective(i, ds)
  BY <1>3 DEF IsDirective
<1>7. ASSUME NEW k
      PROVE  (IsLabel(k)' <=> IsLabel(k)) /\ (IsIns(k)' <=> IsIns(k)) /\ Name(k)' = Name(k)
  BY DEF IsLabel, IsIns, Name
<1> QED BY <1>1, <1>2, <1>3, <1>4, <1>5, <1>6, <1>7

LEMMA MeaningSame ==
  ASSUME source' = source
  PROVE  /\ Meaning' = Meaning /\ Kept' = Kept /\ Expanded' = Expanded
         /\ \A i : (Alive(i)' <=> Alive(i)) /\ (IsIf(i)' <=> IsIf(i))
         /\ \A c, e : Left(c, e)' = Left(c, e)
         /\ \A j, fns : GoodCall(j, fns)' <=> GoodCall(j, fns)
<1>1. /\ N' = N /\ Lines' = Lines /\ Consts' = Consts /\ InMacro' = InMacro
      /\ \A m : BodyOf(m)' = BodyOf(m) /\ ParamsOf(m)' = ParamsOf(m)
      /\ \A i, ds : IsDirective(i, ds)' <=> IsDirective(i, ds)
      /\ \A k : IsLabel(k)' <=> IsLabel(k)
  BY LinesSame
<1>2. ASSUME NEW j, NEW fns PROVE GoodCall(j, fns)' <=> GoodCall(j, fns)
  BY <1>1 DEF GoodCall
<1>3. ASSUME NEW i, NEW fns PROVE Ways(i, fns)' = Ways(i, fns)
  BY <1>1 DEF Ways, GoodCall, BodyOf, ParamsOf
<1>4. Meaning' = Meaning
  BY <1>1 DEF Meaning, IsDirective, Ways, GoodCall, BodyOf, ParamsOf, IsLabel
<1>5. Kept' = Kept
  BY <1>1, <1>4 DEF Kept
<1>6. Expanded' = Expanded
  BY <1>3, <1>4, <1>5 DEF Expanded
<1>7. ASSUME NEW i PROVE (Alive(i)' <=> Alive(i)) /\ (IsIf(i)' <=> IsIf(i))
  BY <1>1, <1>4 DEF Alive, IsIf
<1>8. ASSUME NEW c, NEW e PROVE Left(c, e)' = Left(c, e)
  BY <1>1, <1>7 DEF Left
<1> QED BY <1>2, <1>4, <1>5, <1>6, <1>7, <1>8

LEMMA ShapeSame ==
  ASSUME source' = source
  PROVE  /\ Depth' = Depth /\ BodyDepth' = BodyDepth
         /\ (WellFormed' <=> WellFormed) /\ (Tame' <=> Tame) /\ (Balanced' <=> Balanced)
         /\ (Faulty' <=> Faulty)
<1>1. /\ N' = N /\ Lines' = Lines /\ Consts' = Consts /\ InMacro' = InMacro
      /\ \A m : BodyOf(m)' = BodyOf(m) /\ ParamsOf(m)' = ParamsOf(m)
      /\ \A i, ds : IsDirective(i, ds)' <=> IsDirective(i, ds)
      /\ \A k : IsLabel(k)' <=> IsLabel(k)
  BY LinesSame
<1>2. Depth' = Depth /\ BodyDepth' = BodyDepth
  <2>1. ASSUME NEW inside PROVE DepthOf(inside)' = DepthOf(inside)
    BY <1>1 DEF DepthOf
  <2> QED BY <2>1 DEF Depth, BodyDepth
<1>3. ASSUME NEW i PROVE BranchesTo(i)' = BranchesTo(i)
  <2>1. OpenedAt(i)' = OpenedAt(i)
    BY <1>1 DEF OpenedAt
  <2> QED BY <1>1, <2>1 DEF BranchesTo
<1>4. WellFormed' <=> WellFormed
  BY <1>1, <1>2, <1>3 DEF WellFormed
<1>5. Tame' <=> Tame
  BY <1>1, <1>4 DEF Tame
<1>6. Balanced' <=> Balanced
  BY <1>1, <1>2, <1>4 DEF Balanced
<1>7. Faulty' <=> Faulty
  <2>1. /\ Meaning' = Meaning /\ Expanded' = Expanded
        /\ \A j, fns : GoodCall(j, fns)' <=> GoodCall(j, fns)
    BY MeaningSame
  <2> QED BY <1>1, <2>1 DEF Faulty
<1> QED BY <1>2, <1>4, <1>5, <1>6, <1>7

-----------------------------------------------------------------------------
(* Lists by what is in them.                                               *)

LEMMA ValuesTail ==
  ASSUME NEW s, IsSeq(s), s # <<>>
  PROVE  Values(s) = {Head(s)} \cup Values(Tail(s))
<1>1. /\ 1 \in DOMAIN s /\ Head(s) = s[1] /\ IsSeq(Tail(s))
      /\ \A i \in DOMAIN Tail(s) : i \in Nat /\ i + 1 \in DOMAIN s /\ Tail(s)[i] = s[i + 1]
  BY TailSeq
<1>2. Len(s) \in Nat /\ DOMAIN s = 1..Len(s) /\ DOMAIN Tail(s) = 1..Len(Tail(s))
  BY <1>1, SeqFacts
<1>3. Len(Tail(s)) = Len(s) - 1
  BY HeadTailProperties DEF IsSeq
<1>4. ASSUME NEW i \in DOMAIN s, i # 1 PROVE s[i] \in Values(Tail(s))
  <2>1. i - 1 \in DOMAIN Tail(s) /\ (i - 1) + 1 = i
    BY <1>2, <1>3, <1>4
  <2>2. Tail(s)[i - 1] = s[i]
    BY <1>1, <2>1
  <2> QED BY <2>1, <2>2 DEF Values
<1>5. Values(s) \subseteq {Head(s)} \cup Values(Tail(s))
  BY <1>1, <1>4 DEF Values
<1>6. {Head(s)} \cup Values(Tail(s)) \subseteq Values(s)
  BY <1>1 DEF Values
<1> QED BY <1>5, <1>6

LEMMA ValuesAppend ==
  ASSUME NEW s, IsSeq(s), NEW e PROVE Values(Append(s, e)) = Values(s) \cup {e}
<1> DEFINE u == Append(s, e)
           n == Len(s)
<1>1. /\ DOMAIN u = 1..(n + 1) /\ \A i \in DOMAIN s : u[i] = s[i]
      /\ u[n + 1] = e
  BY AppendSeq
<1>2. n \in Nat /\ DOMAIN s = 1..n
  BY SeqFacts
<1> HIDE DEF u, n
<1>3. \A i \in DOMAIN u : i \in DOMAIN s \/ i = n + 1
  BY <1>1, <1>2
<1>4. DOMAIN s \subseteq DOMAIN u /\ n + 1 \in DOMAIN u
  BY <1>1, <1>2
<1>5. Values(u) \subseteq Values(s) \cup {e}
  BY <1>1, <1>3 DEF Values
<1>6. Values(s) \cup {e} \subseteq Values(u)
  BY <1>1, <1>4 DEF Values
<1> QED BY <1>5, <1>6 DEF u

LEMMA ValuesConcat ==
  ASSUME NEW s, IsSeq(s), NEW t, IsSeq(t) PROVE Values(s \o t) = Values(s) \cup Values(t)
<1> DEFINE u == s \o t
           n == Len(s)
<1>1. /\ DOMAIN u = 1..(n + Len(t))
      /\ \A i \in DOMAIN s : u[i] = s[i]
      /\ \A i \in DOMAIN u : i \notin DOMAIN s => i - n \in DOMAIN t /\ u[i] = t[i - n]
  BY ConcatSeq
<1>2. n \in Nat /\ DOMAIN s = 1..n /\ Len(t) \in Nat /\ DOMAIN t = 1..Len(t)
  BY SeqFacts
<1> HIDE DEF u, n
<1>3. Values(u) \subseteq Values(s) \cup Values(t)
  BY <1>1 DEF Values
<1>4. ASSUME NEW j \in DOMAIN t PROVE t[j] \in Values(u)
  <2>1. n + j \in DOMAIN u /\ n + j \notin DOMAIN s /\ (n + j) - n = j
    BY <1>1, <1>2
  <2>2. u[n + j] = t[j]
    BY <1>1, <2>1
  <2> QED BY <2>1, <2>2 DEF Values
<1>5. \A i \in DOMAIN s : i \in DOMAIN u
  BY <1>1, <1>2
<1>6. Values(s) \cup Values(t) \subseteq Values(u)
  BY <1>1, <1>4, <1>5 DEF Values
<1> QED BY <1>3, <1>6 DEF u

LEMMA ValuesEmpty == Values(<<>>) = {}
BY EmptyIsSeq DEF Values

LEMMA ValuesBranched ==
  ASSUME NEW b, Items(b)
  PROVE  /\ \A it \in Values(Branched(b)) : \E a \in Values(b) :
              IsItem(a) /\ it.path = a.path /\ it.line = a.line /\ it.d = a.d /\ it.more = a.more
         /\ \A a \in Values(b) : \E it \in Values(Branched(b)) :
              it.path = a.path /\ it.line = a.line
         /\ IsSeq(Branched(b))
<1> DEFINE u == Branched(b)
<1>1. PICK over : u = [k \in DOMAIN b |-> [b[k] EXCEPT !.over = over]]
  BY DEF Branched
<1> HIDE DEF u
<1>2. DOMAIN u = DOMAIN b
  BY <1>1
<1>3. ASSUME NEW k \in DOMAIN b
      PROVE  /\ IsItem(b[k]) /\ u[k].path = b[k].path /\ u[k].line = b[k].line
             /\ u[k].d = b[k].d /\ u[k].more = b[k].more
  <2>1. IsItem(b[k]) /\ u[k] = [b[k] EXCEPT !.over = over]
    BY <1>1 DEF Items
  <2> QED BY <2>1 DEF IsItem
<1>4. IsSeq(u)
  <2>1. Len(b) \in Nat /\ DOMAIN b = 1..Len(b)
    BY SeqFacts DEF Items
  <2>2. u = [k \in 1..Len(b) |-> u[k]]
    BY <1>1, <2>1
  <2> QED BY <2>1, <2>2, FunctionIsSeq
<1>5. \A it \in Values(u) : \E a \in Values(b) :
        IsItem(a) /\ it.path = a.path /\ it.line = a.line /\ it.d = a.d /\ it.more = a.more
  BY <1>2, <1>3 DEF Values
<1>6. \A a \in Values(b) : \E it \in Values(u) : it.path = a.path /\ it.line = a.line
  BY <1>2, <1>3 DEF Values
<1> QED BY <1>4, <1>5, <1>6 DEF u

\* What the list of lines to preprocess is without its first.
LEMMA TailTops ==
  ASSUME NEW s, Items(s), InOrder(s), s # <<>>
  PROVE  LET e == Head(s) IN
         /\ e.path = <<>> => /\ OfSource(s) /\ e.line \in Tops(s)
                             /\ \A j \in Tops(s) : j >= e.line
                             /\ Tops(Tail(s)) = Tops(s) \ {e.line}
         /\ e.path # <<>> => Tops(Tail(s)) = Tops(s)
<1> DEFINE e == Head(s)
           r == Tail(s)
<1>1. Values(s) = {e} \cup Values(r)
  BY ValuesTail DEF Items
<1>2. /\ Items(r) /\ IsItem(e) /\ \A j \in DOMAIN r : Earlier(e, r[j])
  BY TailKeeps
<1>3. ASSUME NEW it \in Values(r) PROVE IsItem(it) /\ Earlier(e, it)
  BY <1>2 DEF Values, Items
<1> HIDE DEF e, r
<1>4. ASSUME e.path = <<>>, NEW it \in Values(r)
      PROVE  it.path = <<>> /\ it.line > e.line /\ it.line \in Nat /\ e.line \in Nat
  <2>1. it.path = <<>> /\ Before(Append(<<>>, e.line), Append(<<>>, it.line))
    BY <1>3, <1>4 DEF Earlier, Key
  <2>2. <<>> \in Seq(Nat) /\ it.line \in Nat /\ e.line \in Nat
    BY <1>2, <1>3, <1>4 DEF IsItem
  <2> QED BY <2>1, <2>2, BeforeSiblings
<1>5. ASSUME e.path = <<>>
      PROVE  /\ OfSource(s) /\ e.line \in Tops(s)
             /\ \A j \in Tops(s) : j >= e.line
             /\ Tops(r) = Tops(s) \ {e.line}
  <2>1. \A it \in Values(s) : it.path = <<>>
    BY <1>1, <1>4, <1>5
  <2>2. OfSource(s)
    BY <2>1 DEF OfSource, Values
  <2>3. e.line \in Tops(s)
    BY <1>1, <1>5 DEF Tops
  <2>4. e.line \in Nat
    BY <1>2 DEF IsItem
  <2>5. ASSUME NEW j \in Tops(s) PROVE j >= e.line
    <3>1. PICK it \in Values(s) : it.path = <<>> /\ j = it.line
      BY DEF Tops
    <3>2. CASE it = e
      BY <2>4, <3>1, <3>2
    <3>3. CASE it \in Values(r)
      <4>1. it.line > e.line /\ it.line \in Nat /\ e.line \in Nat
        BY <1>4, <1>5, <3>3
      <4> QED BY <3>1, <4>1
    <3> QED BY <1>1, <3>2, <3>3
  <2>6. Tops(s) = {e.line} \cup Tops(r)
    BY <1>1, <1>5 DEF Tops
  <2>7. e.line \notin Tops(r)
    <3> SUFFICES ASSUME NEW it \in Values(r), it.line = e.line PROVE FALSE
      BY DEF Tops
    <3>1. it.line > e.line /\ it.line \in Nat /\ e.line \in Nat
      BY <1>4, <1>5
    <3> QED BY <3>1
  <2> QED BY <2>2, <2>3, <2>5, <2>6, <2>7
<1>6. ASSUME e.path # <<>> PROVE Tops(r) = Tops(s)
  BY <1>1, <1>6 DEF Tops
<1> QED BY <1>5, <1>6 DEF e, r

-----------------------------------------------------------------------------
(* Where the reading is.                                                   *)

LEMMA LeftNext ==
  ASSUME source \in Sources, NEW i \in Lines, NEW d
  PROVE  Left(i, d) \ {i} = Left(i + 1, d)
<1>1. Lines \subseteq Nat
  BY SourceFacts
<1>2. ASSUME NEW j \in Lines PROVE j >= i /\ j # i <=> j >= i + 1
  BY <1>1
<1>3. \A j \in Lines : j \in Left(i, d) \ {i} <=> j \in Left(i + 1, d)
  BY <1>2 DEF Left
<1>4. Left(i, d) \subseteq Lines /\ Left(i + 1, d) \subseteq Lines
  BY DEF Left
<1> QED BY <1>3, <1>4

\* From any place outside conditionals the first line left is like the next.
LEMMA FirstLeft ==
  ASSUME source \in Sources, WellFormed, NEW c \in 1..(N + 1), NEW e \in 0..N, c =< e + 1,
         Depth[e] = 0, c =< N => ~InMacro[c],
         NEW i \in Left(c, e), \A j \in Left(c, e) : j >= i
  PROVE  \E d \in 0..N :
           /\ Depth[d] = 0 /\ i =< d + 1 /\ Left(c, e) = Left(i, d)
           /\ i \in Lines /\ ~InMacro[i]
           /\ Meaning[i - 1].macros = Meaning[c - 1].macros
           /\ Meaning[i - 1].fns = Meaning[c - 1].fns
           /\ i >= c
           /\ IF IsDirective(i, Conditional) THEN d = i - 1 ELSE i =< d /\ Alive(i)
<1>1. N \in Nat /\ Lines = 1..N
  BY SourceFacts
<1>2. i \in Lines /\ i >= c /\ i \in Nat
  BY <1>1 DEF Left
<1>3. ASSUME NEW j \in c..(i - 1) PROVE j =< e /\ ~Alive(j) /\ j \in Lines
  <2>1. j \in Lines /\ j >= c /\ ~(j >= i)
    BY <1>1, <1>2
  <2>2. j \notin Left(c, e)
    BY <2>1
  <2>3. ~(j > e \/ Alive(j))
    BY <2>1, <2>2 DEF Left
  <2>4. j =< e
    BY <1>1, <2>1, <2>3
  <2> QED BY <2>1, <2>3, <2>4
<1>4. i =< e + 1
  <2> SUFFICES ASSUME i > e + 1 PROVE FALSE
    BY <1>1, <1>2
  <2>1. e + 1 \in c..(i - 1)
    BY <1>1, <1>2
  <2>2. e + 1 =< e
    BY <1>3, <2>1
  <2> QED BY <2>2
<1>5. Meaning[i - 1].macros = Meaning[c - 1].macros /\ Meaning[i - 1].fns = Meaning[c - 1].fns
  <2>1. c - 1 \in 0..N /\ i - 1 \in (c - 1)..N
    BY <1>1, <1>2
  <2>2. \A j \in ((c - 1) + 1)..(i - 1) : ~Alive(j)
    BY <1>1, <1>3
  <2> QED BY <2>1, <2>2, SameBetween
<1>6. i =< e => Alive(i)
  BY <1>1, <1>2 DEF Left
<1>7. ~InMacro[i]
  <2> SUFFICES ASSUME InMacro[i] PROVE FALSE
    OBVIOUS
  <2>1. /\ i - 1 \in Lines /\ ~IsDirective(i - 1, Conditional)
        /\ Alive(i) <=> Alive(i - 1)
    BY <1>2, InMacroFollows
  <2>2. i # c
    BY <1>1, <1>2
  <2>3. i - 1 \in c..(i - 1)
    BY <1>2, <2>2
  <2>4. ~Alive(i - 1)
    BY <1>3, <2>3
  <2>5. i = e + 1
    BY <1>1, <1>2, <1>4, <1>6, <2>1, <2>4
  <2>6. Meaning[e].live
    BY LiveOutside
  <2>7. Alive(i - 1)
    BY <2>1, <2>5, <2>6 DEF Alive
  <2> QED BY <2>4, <2>7
<1>8. Left(c, e) = Left(i, e)
  <2>1. \A j \in Lines : j \in Left(c, e) <=> j \in Left(i, e)
    BY <1>1, <1>2 DEF Left
  <2> QED BY <2>1 DEF Left
<1>9. CASE i =< e
  <2>1. Alive(i) /\ ~IsDirective(i, Conditional)
    BY <1>6, <1>9 DEF Alive
  <2> QED BY <1>2, <1>4, <1>5, <1>7, <1>8, <1>9, <2>1
<1>10. CASE i = e + 1 /\ IsDirective(i, Conditional)
  <2>1. e = i - 1
    BY <1>1, <1>10
  <2> QED BY <1>2, <1>4, <1>5, <1>7, <1>8, <1>10, <2>1
<1>11. CASE i = e + 1 /\ ~IsDirective(i, Conditional)
  <2>1. ~IsIf(i) /\ ~IsEndif(i)
    BY Zenon, <1>11, IsConditional
  <2>2. source[i].d \notin {"ifdef", "ifndef", "endif"}
    BY <1>7, <2>1 DEF IsIf, IsEndif, IsDirective
  <2>3. i - 1 = e
    BY <1>1, <1>11
  <2>4. Depth[i] = 0
    BY <1>2, <2>2, <2>3, DepthIs
  <2>5. i \in 0..N
    BY <1>1, <1>2
  <2>6. Alive(i)
    BY <1>2, <1>11, <2>4, <2>5, LiveOutside DEF Alive
  <2>7. Left(i, e) = Left(i, i)
    <3>1. \A j \in Lines : j >= i => j > e /\ (j > i \/ j = i)
      BY <1>1, <1>11
    <3> QED BY <2>6, <3>1 DEF Left
  <2>8. i =< i + 1 /\ i =< i
    BY <1>2
  <2> QED BY <1>2, <1>5, <1>7, <1>8, <1>11, <2>4, <2>5, <2>6, <2>7, <2>8
<1> QED BY <1>1, <1>2, <1>4, <1>9, <1>10, <1>11

LEMMA ItemsSame ==
  ASSUME source' = source
  PROVE  /\ \A it : OwnItem(it)' <=> OwnItem(it)
         /\ \A it, c : CallItem(it, c)' <=> CallItem(it, c)
         /\ \A m, b : Whole(m, b)' <=> Whole(m, b)
         /\ \A f, fns : FunctionsAre(f, fns)' <=> FunctionsAre(f, fns)
<1>1. /\ Lines' = Lines /\ \A m : BodyOf(m)' = BodyOf(m) /\ ParamsOf(m)' = ParamsOf(m)
  BY LinesSame
<1>2. Expanded' = Expanded
  BY MeaningSame
<1>3. ASSUME NEW it PROVE OwnItem(it)' <=> OwnItem(it)
  BY <1>1 DEF OwnItem
<1>4. ASSUME NEW it, NEW c PROVE CallItem(it, c)' <=> CallItem(it, c)
  BY <1>2 DEF CallItem
<1>5. ASSUME NEW m, NEW b PROVE Whole(m, b)' <=> Whole(m, b)
  BY <1>1 DEF Whole
<1>6. ASSUME NEW f, NEW fns PROVE FunctionsAre(f, fns)' <=> FunctionsAre(f, fns)
  BY <1>1, <1>5 DEF FunctionsAre
<1> QED BY <1>3, <1>4, <1>5, <1>6

\* What it takes to be in a place after a step.
LEMMA PlacedNext ==
  ASSUME source' = source, NEW c \in 1..(N + 1), NEW e \in 0..N, c =< e + 1,
         Tops(todo') = Left(c, e),
         \A it \in Values(todo') : OwnItem(it) \/ CallItem(it, c),
         state' = "ifdef" => \A it \in Values(Collected') : OwnItem(it) \/ CallItem(it, c),
         AtOutside(c, e)' \/ AtConditional(c, e)' \/ AtFunction(c, e)'
  PROVE  Placed(c, e)'
<1>1. N' = N /\ Left(c, e)' = Left(c, e)
  BY LinesSame, MeaningSame
<1>2. /\ \A it : OwnItem(it)' <=> OwnItem(it)
      /\ \A it : CallItem(it, c)' <=> CallItem(it, c)
  BY ItemsSame
<1>3. Genuine(todo, c)' /\ (state' = "ifdef" => Genuine(Collected, c)')
  BY <1>2 DEF Genuine
<1>4. Tops(todo)' = Left(c, e)'
  BY <1>1
<1> QED BY <1>1, <1>3, <1>4 DEF Placed

LEMMA OutsideNext ==
  ASSUME source' = source, NEW c \in 1..(N + 1), NEW e \in 0..N,
         state' = "passthrough", Depth[e] = 0, c =< N => ~InMacro[c],
         macros' = Meaning[c - 1].macros, FunctionsAre(functions', Meaning[c - 1].fns)
  PROVE  AtOutside(c, e)'
<1>1. N' = N /\ InMacro' = InMacro /\ Meaning' = Meaning /\ Depth' = Depth
  BY LinesSame, MeaningSame, ShapeSame
<1>2. FunctionsAre(functions, Meaning[c - 1].fns)'
  BY <1>1, ItemsSame
<1> QED BY <1>1, <1>2 DEF AtOutside, ReadTo

LEMMA ConditionalNext ==
  ASSUME source' = source, NEW c \in 1..(N + 1), NEW e \in 0..N, e = c - 1,
         state' = "ifdef", OfSource(todo'), OfSource(Collected'), Depth[e] = 1,
         NEW v, Top.value' = v, v = Meaning[e].taken,
         IF v THEN hungry' = Meaning[e].live ELSE hungry' /\ ~Meaning[e].live,
         NEW o \in 1..e, IsIf(o), \A j \in (o + 1)..e : ~IsIf(j),
         hungry' /\ accepted' = {"endif"} => \E j \in o..e : IsDirective(j, {"else"}),
         NEW b \in 2..c, IsDirective(b - 1, Conditional),
         macros' = Meaning[b - 1].macros, FunctionsAre(functions', Meaning[b - 1].fns),
         IF v THEN Tops(Collected') = {j \in b..e : Alive(j)} ELSE \A j \in b..e : ~Alive(j)
  PROVE  AtConditional(c, e)'
<1>1. /\ N' = N /\ InMacro' = InMacro /\ Meaning' = Meaning /\ Depth' = Depth
      /\ \A i, ds : IsDirective(i, ds)' <=> IsDirective(i, ds)
      /\ \A i : (Alive(i)' <=> Alive(i)) /\ (IsIf(i)' <=> IsIf(i))
  BY LinesSame, MeaningSame, ShapeSame
<1>2. /\ state' = "ifdef" /\ OfSource(todo)' /\ OfSource(Collected)' /\ Depth[e]' = 1
      /\ Top.value' = Meaning[e].taken'
  BY <1>1
<1>3. IF Top.value' THEN hungry' = Meaning[e].live' ELSE hungry' /\ ~Meaning[e].live'
  BY <1>1
<1>4. \E p \in 1..e : /\ IsIf(p)'
                      /\ \A j \in (p + 1)..e : ~IsIf(j)'
                      /\ hungry' /\ accepted' = {"endif"} =>
                           \E j \in p..e : IsDirective(j, {"else"})'
  BY <1>1
<1>5. ReadTo(b)' /\ IsDirective(b - 1, Conditional)'
  BY <1>1, ItemsSame DEF ReadTo
<1>6. IF Top.value' THEN Tops(Collected') = {j \in b..e : Alive(j)'}
      ELSE \A j \in b..e : ~Alive(j)'
  BY <1>1
<1> QED BY <1>2, <1>3, <1>4, <1>5, <1>6 DEF AtConditional

LEMMA FunctionNext ==
  ASSUME source' = source, NEW c \in 1..(N + 1), NEW e \in 0..N,
         state' = "define", Depth[e] = 0, c =< N, c \in Left(c, e), OfSource(todo'),
         NEW m \in 1..(c - 1), Top.value' = m, IsDirective(m, {"macro"}), source[m].more, Alive(m),
         \A j \in (m + 1)..c : InMacro[j],
         macros' = Meaning[m - 1].macros, FunctionsAre(functions', Meaning[m - 1].fns),
         NEW q, Collected' = q, DOMAIN q = 1..(c - 1 - m),
         \A k \in DOMAIN q : q[k].line = m + k /\ q[k].d = source[m + k].d
  PROVE  AtFunction(c, e)'
<1>1. /\ N' = N /\ InMacro' = InMacro /\ Meaning' = Meaning /\ Depth' = Depth
      /\ \A i, ds : IsDirective(i, ds)' <=> IsDirective(i, ds)
      /\ \A i : Alive(i)' <=> Alive(i)
      /\ Left(c, e)' = Left(c, e)
  BY LinesSame, MeaningSame, ShapeSame
<1>2. /\ state' = "define" /\ Depth[e]' = 0 /\ c =< N' /\ c \in Left(c, e)' /\ OfSource(todo)'
  BY <1>1
<1>3. /\ Top.value' = m /\ IsDirective(m, {"macro"})' /\ source[m].more' /\ Alive(m)'
      /\ \A j \in (m + 1)..c : InMacro[j]'
  BY <1>1
<1>4. ReadTo(m)'
  BY <1>1, ItemsSame DEF ReadTo
<1>5. DOMAIN Collected' = 1..(c - 1 - m)
  OBVIOUS
<1>6. \A k \in DOMAIN Collected' : /\ Collected'[k].line = m + k
                                   /\ Collected'[k].d = source'[m + k].d
  OBVIOUS
<1> QED BY <1>2, <1>3, <1>4, <1>5, <1>6 DEF AtFunction

-----------------------------------------------------------------------------
(* What is read, and what is still to come.                                *)

LEMMA ReadSame ==
  ASSUME source' = source, \A k \in Expanded : Pending(k)' <=> Pending(k) PROVE Read' = Read
<1>1. Expanded' = Expanded
  BY MeaningSame
<1> QED BY <1>1 DEF Read

LEMMA ReadMore ==
  ASSUME source' = source, NEW h \in Expanded, ~Pending(h)',
         \A k \in Expanded : Pending(k) <=> Pending(k)' \/ k = h
  PROVE  Read' = Read \cup {h} /\ h \notin Read
<1>1. Expanded' = Expanded
  BY MeaningSame
<1> QED BY <1>1 DEF Read

LEMMA WaysOfLists ==
  /\ \A k : ~WaysOn(<<>>, k)
  /\ \A s, k : IsSeq(s) /\ s # <<>> =>
       (WaysOn(s, k) <=> Extends(Key(Head(s)), k) \/ WaysOn(Tail(s), k))
  /\ \A s, e, k : IsSeq(s) => (WaysOn(Append(s, e), k) <=> WaysOn(s, k) \/ Extends(Key(e), k))
  /\ \A s, t, k : IsSeq(s) /\ IsSeq(t) => (WaysOn(s \o t, k) <=> WaysOn(s, k) \/ WaysOn(t, k))
<1>1. \A k : ~WaysOn(<<>>, k)
  BY ValuesEmpty DEF WaysOn
<1>2. ASSUME NEW s, NEW k, IsSeq(s), s # <<>>
      PROVE  WaysOn(s, k) <=> Extends(Key(Head(s)), k) \/ WaysOn(Tail(s), k)
  <2>1. Values(s) = {Head(s)} \cup Values(Tail(s))
    BY <1>2, ValuesTail
  <2> QED BY Zenon, <2>1 DEF WaysOn
<1>3. ASSUME NEW s, NEW e, NEW k, IsSeq(s)
      PROVE  WaysOn(Append(s, e), k) <=> WaysOn(s, k) \/ Extends(Key(e), k)
  <2>1. Values(Append(s, e)) = Values(s) \cup {e}
    BY <1>3, ValuesAppend
  <2> QED BY Zenon, <2>1 DEF WaysOn
<1>4. ASSUME NEW s, NEW t, NEW k, IsSeq(s), IsSeq(t)
      PROVE  WaysOn(s \o t, k) <=> WaysOn(s, k) \/ WaysOn(t, k)
  <2>1. Values(s \o t) = Values(s) \cup Values(t)
    BY <1>4, ValuesConcat
  <2> QED BY Zenon, <2>1 DEF WaysOn
<1> QED BY <1>1, <1>2, <1>3, <1>4

LEMMA WaysBranched ==
  ASSUME NEW b, Items(b), NEW k PROVE WaysOn(Branched(b), k) <=> WaysOn(b, k)
<1>1. ASSUME WaysOn(Branched(b), k) PROVE WaysOn(b, k)
  <2>1. PICK it \in Values(Branched(b)) : Extends(Key(it), k)
    BY <1>1 DEF WaysOn
  <2>2. PICK a \in Values(b) : it.path = a.path /\ it.line = a.line
    BY ValuesBranched
  <2>3. Key(it) = Key(a)
    BY <2>2 DEF Key
  <2> QED BY <2>1, <2>2, <2>3 DEF WaysOn
<1>2. ASSUME WaysOn(b, k) PROVE WaysOn(Branched(b), k)
  <2>1. PICK a \in Values(b) : Extends(Key(a), k)
    BY <1>2 DEF WaysOn
  <2>2. PICK it \in Values(Branched(b)) : it.path = a.path /\ it.line = a.line
    BY ValuesBranched
  <2>3. Key(it) = Key(a)
    BY <2>2 DEF Key
  <2> QED BY <2>1, <2>2, <2>3 DEF WaysOn
<1> QED BY <1>1, <1>2

\* What a line stands for is not in the lines that follow it.
LEMMA TailApart ==
  ASSUME NEW s, Items(s), InOrder(s), s # <<>>
  PROVE  \A k : Extends(Key(Head(s)), k) => ~WaysOn(Tail(s), k)
<1>1. /\ Items(Tail(s)) /\ IsItem(Head(s))
      /\ \A j \in DOMAIN Tail(s) : Earlier(Head(s), Tail(s)[j])
  BY TailKeeps
<1> SUFFICES ASSUME NEW k, Extends(Key(Head(s)), k), NEW it \in Values(Tail(s)),
                    Extends(Key(it), k)
             PROVE  FALSE
  BY DEF WaysOn
<1>2. IsItem(it) /\ Before(Key(Head(s)), Key(it))
  BY <1>1 DEF Values, Items, Earlier
<1>3. Key(Head(s)) \in Seq(Nat) /\ Key(it) \in Seq(Nat)
  BY <1>1, <1>2, KeyFacts
<1> QED BY <1>2, <1>3, ExtendsApart

LEMMA OwnKey ==
  ASSUME NEW it, it.path = <<>> PROVE Key(it) = <<it.line>> /\ Key(it)[1] = it.line
BY Pushed DEF Key

\* Nothing comes of a line that does not count.
LEMMA NothingComes ==
  ASSUME source \in Sources, NEW it, it.path = <<>>, it.line \notin Kept
  PROVE  \A k \in Expanded : ~Extends(Key(it), k)
<1> SUFFICES ASSUME NEW k \in Expanded, Extends(Key(it), k) PROVE FALSE
  OBVIOUS
<1>1. Key(it) = <<it.line>>
  BY OwnKey
<1>2. k \in Seq(Nat) /\ Len(k) > 0 /\ k[1] \in Kept
  BY ExpandedFacts
<1>3. k[1] = it.line
  BY <1>1, <1>2, ExtendsOne
<1> QED BY <1>2, <1>3

\* The ways on from a way.
LEMMA WaysFrom ==
  ASSUME source \in Sources, NEW h \in Expanded, NEW k \in Expanded, Extends(h, k)
  PROVE  \/ k = h
         \/ /\ GoodCall(Last(h), Meaning[h[1]].fns) /\ Len(k) > Len(h) /\ Len(h) =< Limit
            /\ k[Len(h) + 1] \in BodyOf(Called(Last(h), Meaning[h[1]].fns))
<1>1. /\ h \in Seq(Nat) /\ Len(h) \in Nat /\ Len(h) > 0 /\ DOMAIN h = 1..Len(h)
      /\ Last(h) = h[Len(h)]
  BY ExpandedFacts
<1>2. k \in Seq(Nat) /\ Len(k) \in Nat /\ Len(k) > 0 /\ DOMAIN k = 1..Len(k)
  BY ExpandedFacts
<1>3. k[1] = h[1] /\ k[Len(h)] = Last(h)
  BY <1>1 DEF Extends
<1>4. CASE Len(k) =< Len(h)
  BY <1>1, <1>2, <1>4, ExtendsSame
<1>5. CASE Len(k) > Len(h)
  <2>1. IsWay(k, k[1], Meaning[k[1]].fns) /\ Len(k) =< Limit + 1
    BY ExpandedIs
  <2>2. Len(h) \in 1..(Len(k) - 1)
    BY <1>1, <1>2, <1>5
  <2>3. /\ GoodCall(k[Len(h)], Meaning[k[1]].fns)
        /\ k[Len(h) + 1] \in BodyOf(Called(k[Len(h)], Meaning[k[1]].fns))
    BY <2>1, <2>2 DEF IsWay
  <2>4. Len(h) =< Limit
    BY <1>1, <1>2, <1>5, <2>1, LimitAssumption
  <2> QED BY <1>3, <1>5, <2>3, <2>4
<1> QED BY <1>1, <1>2, <1>4, <1>5

LEMMA WayOn ==
  ASSUME source \in Sources, NEW h \in Expanded, NEW fns, fns = Meaning[h[1]].fns,
         GoodCall(Last(h), fns), Len(h) =< Limit, NEW j \in BodyOf(Called(Last(h), fns))
  PROVE  /\ Append(h, j) \in Expanded /\ Append(h, j)[1] = h[1] /\ Last(Append(h, j)) = j
         /\ j \in Lines
<1>1. /\ h \in Seq(Lines) /\ Len(h) \in Nat /\ Len(h) > 0 /\ DOMAIN h = 1..Len(h)
      /\ Last(h) = h[Len(h)] /\ h[1] \in Kept /\ h[1] \in Lines
  BY ExpandedFacts
<1>2. IsWay(h, h[1], fns)
  BY ExpandedIs
<1>3. h[1] \in 0..N
  BY <1>1, SourceFacts
<1>4. Called(Last(h), fns) \in Lines
  <2>1. \A x \in DOMAIN fns : fns[x] \in Lines
    BY <1>3, FnsLines
  <2> QED BY <2>1 DEF GoodCall, Called
<1>5. j \in Lines
  BY <1>4, BodyLines
<1> DEFINE a == Append(h, j)
<1>6. /\ a \in Seq(Lines) /\ Len(a) = Len(h) + 1
      /\ \A m \in 1..Len(h) : a[m] = h[m]
      /\ a[Len(h) + 1] = j
  BY <1>1, <1>5, AppendOf
<1> HIDE DEF a
<1>7. a[1] = h[1] /\ Len(a) > 0
  BY <1>1, <1>6
<1>8. ASSUME NEW m \in 1..(Len(a) - 1)
      PROVE  GoodCall(a[m], fns) /\ a[m + 1] \in BodyOf(Called(a[m], fns))
  <2>1. CASE m = Len(h)
    <3>1. a[m] = Last(h) /\ a[m + 1] = j
      BY <1>1, <1>6, <2>1
    <3> QED BY <3>1
  <2>2. CASE m # Len(h)
    <3>1. m \in 1..(Len(h) - 1) /\ m \in 1..Len(h) /\ m + 1 \in 1..Len(h)
      BY <1>1, <1>6, <2>2
    <3>2. a[m] = h[m] /\ a[m + 1] = h[m + 1]
      BY <1>6, <3>1
    <3> QED BY <1>2, <3>1, <3>2 DEF IsWay
  <2> QED BY <2>1, <2>2
<1>9. IsWay(a, a[1], fns)
  BY <1>6, <1>7, <1>8 DEF IsWay
<1>10. a \in Expanded
  <2>1. a[1] \in Kept /\ fns = Meaning[a[1]].fns /\ Len(a) =< Limit + 1
    BY <1>1, <1>6, <1>7, LimitAssumption
  <2> QED BY <1>9, <2>1, ExpandedIs
<1>11. Last(a) = j
  BY <1>6, LastIs
<1> QED BY <1>5, <1>7, <1>10, <1>11 DEF a

-----------------------------------------------------------------------------
(* The first of the lines to preprocess.                                   *)

LEMMA CallsMeanLines ==
  ASSUME source \in Sources, Tame, NEW k \in Expanded, Len(k) > 1
  PROVE  source[Last(k)].d = "macro" \/ source[Last(k)].d \notin Directives
<1>1. /\ Len(k) \in Nat /\ k[1] \in Kept /\ k[1] \in Lines /\ Last(k) = k[Len(k)] /\ Last(k) \in Lines
  BY ExpandedFacts
<1>2. source[k[1]].d = "call"
  BY NoCall
<1>3. \A i \in Lines : InMacro[i] => source[i].d \notin Directives
  BY <1>1, <1>2 DEF Tame
<1> DEFINE m == Len(k) - 1
           fns == Meaning[k[1]].fns
<1>4. GoodCall(k[m], fns) /\ k[m + 1] \in BodyOf(Called(k[m], fns))
  <2>1. IsWay(k, k[1], fns)
    BY ExpandedIs
  <2>2. m \in 1..(Len(k) - 1)
    BY <1>1
  <2> QED BY <2>1, <2>2 DEF IsWay
<1>5. m + 1 = Len(k)
  BY <1>1
<1> DEFINE f == Called(k[m], fns)
<1>6. f \in Lines /\ IsDirective(f, {"macro"})
  <2>1. k[1] \in 0..N
    BY <1>1, SourceFacts
  <2>2. \A x \in DOMAIN fns : fns[x] \in Lines /\ IsDirective(fns[x], {"macro"})
    BY <2>1, FnsLines
  <2> QED BY <1>4, <2>2 DEF GoodCall, Called
<1>7. Last(k) \in BodyOf(f)
  BY <1>1, <1>4, <1>5
<1> HIDE DEF f
<1>8. CASE source[f].more
  <2>1. Last(k) > f /\ \A j \in (f + 1)..Last(k) : InMacro[j]
    BY <1>7, <1>8 DEF BodyOf
  <2>2. Last(k) \in (f + 1)..Last(k)
    BY <1>1, <1>6, <2>1, SourceFacts
  <2> QED BY <1>1, <1>3, <2>1, <2>2
<1>9. CASE ~source[f].more
  <2>1. Last(k) = f
    BY <1>7, <1>9 DEF BodyOf
  <2> QED BY <1>6, <2>1 DEF IsDirective
<1> QED BY <1>8, <1>9

LEMMA CallHead ==
  ASSUME source \in Sources, OrderInv, todo # <<>>,
         NEW c \in 1..(N + 1), NEW e, Placed(c, e), Item.path # <<>>
  PROVE  /\ state = "passthrough" /\ AtOutside(c, e)
         /\ Key(Item) \in Expanded /\ Key(Item)[1] = c - 1 /\ c - 1 \in Kept
         /\ Last(Key(Item)) = Item.line /\ Len(Key(Item)) = Len(Item.path) + 1
         /\ Len(Item.path) \in Nat /\ Len(Item.path) > 0
         /\ Item.d = IF source[Item.line].d = "macro" THEN "ins" ELSE source[Item.line].d
         /\ Tops(Tail(todo)) = Left(c, e)
         /\ \A it \in Values(Tail(todo)) : OwnItem(it) \/ CallItem(it, c)
<1>1. Items(todo) /\ InOrder(todo) /\ IsItem(Item)
  BY Popped DEF OrderInv, Ordered
<1>2. Item \in Values(todo) /\ \A it \in Values(Tail(todo)) : it \in Values(todo)
  BY <1>1, ValuesTail DEF Items, Item
<1>3. CallItem(Item, c)
  BY <1>2 DEF Placed, Genuine, OwnItem
<1>4. ~OfSource(todo)
  <2>1. 1 \in DOMAIN todo /\ Item = todo[1]
    BY <1>1, TailSeq DEF Items, Item
  <2> QED BY <2>1 DEF OfSource
<1>5. AtOutside(c, e) /\ state = "passthrough"
  BY <1>4 DEF Placed, AtConditional, AtFunction, AtOutside
<1>6. Key(Item) \in Expanded /\ Item.path[1] = c - 1
  BY <1>3 DEF CallItem
<1>7. /\ Len(Key(Item)) = Len(Item.path) + 1 /\ Len(Item.path) \in Nat
      /\ DOMAIN Item.path = 1..Len(Item.path) /\ Len(Item.path) > 0
      /\ \A m \in 1..Len(Item.path) : Key(Item)[m] = Item.path[m]
      /\ Key(Item)[Len(Item.path) + 1] = Item.line
  <2>1. Item.path \in Seq(Nat) /\ Item.line \in Nat
    BY <1>1 DEF IsItem
  <2>2. Item.path # <<>>
    OBVIOUS
  <2> HIDE DEF Item
  <2>3. Len(Item.path) > 0
    BY <2>1, <2>2
  <2> QED BY <2>1, <2>3, AppendOf DEF Key
<1>8. Key(Item)[1] = c - 1 /\ Last(Key(Item)) = Item.line
  BY <1>6, <1>7, LastIs
<1>9. c - 1 \in Kept
  BY <1>6, <1>8, ExpandedFacts
<1>10. Item.d = IF source[Item.line].d = "macro" THEN "ins" ELSE source[Item.line].d
  BY <1>3 DEF CallItem
<1>12. Tops(Tail(todo)) = Left(c, e)
  <2>1. Tops(todo) = Left(c, e)
    BY DEF Placed
  <2> QED BY <1>1, <2>1, TailTops DEF Item
<1>13. \A it \in Values(Tail(todo)) : OwnItem(it) \/ CallItem(it, c)
  BY <1>2 DEF Placed, Genuine
<1> QED BY <1>5, <1>6, <1>7, <1>8, <1>9, <1>10, <1>12, <1>13

LEMMA OwnHead ==
  ASSUME source \in Sources, OrderInv, todo # <<>>,
         NEW c \in 1..(N + 1), NEW e, Placed(c, e), Item.path = <<>>
  PROVE  /\ OfSource(todo) /\ OfSource(Tail(todo)) /\ OwnItem(Item)
         /\ Item.line \in Left(c, e) /\ \A j \in Left(c, e) : j >= Item.line
         /\ Tops(Tail(todo)) = Left(c, e) \ {Item.line}
         /\ \A it \in Values(Tail(todo)) : OwnItem(it)
         /\ Key(Item) = <<Item.line>> /\ Last(Key(Item)) = Item.line /\ Len(Key(Item)) = 1
<1>1. Items(todo) /\ InOrder(todo) /\ IsItem(Item)
  BY Popped DEF OrderInv, Ordered
<1>2. Tops(todo) = Left(c, e)
  BY DEF Placed
<1>3. /\ OfSource(todo) /\ Item.line \in Left(c, e) /\ \A j \in Left(c, e) : j >= Item.line
      /\ Tops(Tail(todo)) = Left(c, e) \ {Item.line}
  BY <1>1, <1>2, TailTops DEF Item
<1>4. Values(todo) = {Item} \cup Values(Tail(todo))
  BY <1>1, ValuesTail DEF Items, Item
<1>5. \A it \in Values(todo) : it.path = <<>>
  BY <1>3 DEF OfSource, Values
<1>6. \A it \in Values(todo) : OwnItem(it)
  BY <1>5 DEF Placed, Genuine, CallItem
<1>7. OfSource(Tail(todo))
  <2>1. \A it \in Values(Tail(todo)) : it.path = <<>>
    BY <1>4, <1>5
  <2> QED BY <2>1 DEF OfSource, Values
<1>8. Key(Item) = <<Item.line>>
  BY OwnKey
<1>9. Last(<<Item.line>>) = Item.line /\ Len(<<Item.line>>) = 1
  BY LastIs
<1> QED BY <1>3, <1>4, <1>6, <1>7, <1>8, <1>9

\* Outside, what comes next is a line that counts, or a conditional begins.
LEMMA OutsideHead ==
  ASSUME source \in Sources, WellFormed, OrderInv, todo # <<>>,
         NEW c \in 1..(N + 1), NEW e \in 0..N, Placed(c, e), AtOutside(c, e), Item.path = <<>>,
         NEW i, i = Item.line
  PROVE  /\ i \in Lines /\ ~InMacro[i] /\ i - 1 \in 0..N
         /\ Item.d = source[i].d /\ Item.more = source[i].more
         /\ macros = Meaning[i - 1].macros /\ FunctionsAre(functions, Meaning[i - 1].fns)
         /\ \E d \in 0..N :
              /\ Depth[d] = 0 /\ Left(c, e) = Left(i, d) /\ Tops(Tail(todo)) = Left(i + 1, d)
              /\ \/ IsIf(i) /\ d = i - 1
                 \/ Item.d \notin Conditional /\ i =< d /\ Alive(i)
<1>1. /\ OwnItem(Item) /\ i \in Left(c, e) /\ \A j \in Left(c, e) : j >= i
      /\ Tops(Tail(todo)) = Left(c, e) \ {i}
  BY OwnHead
<1>2. c =< e + 1 /\ Depth[e] = 0 /\ (c =< N => ~InMacro[c])
  BY DEF Placed, AtOutside
<1>3. PICK d \in 0..N :
        /\ Depth[d] = 0 /\ i =< d + 1 /\ Left(c, e) = Left(i, d)
        /\ i \in Lines /\ ~InMacro[i]
        /\ Meaning[i - 1].macros = Meaning[c - 1].macros
        /\ Meaning[i - 1].fns = Meaning[c - 1].fns
        /\ IF IsDirective(i, Conditional) THEN d = i - 1 ELSE i =< d /\ Alive(i)
  BY <1>1, <1>2, FirstLeft
<1>4. i - 1 \in 0..N
  BY <1>3, SourceFacts
<1>5. Item.d = source[i].d /\ Item.more = source[i].more
  BY <1>1 DEF OwnItem
<1>6. macros = Meaning[i - 1].macros /\ FunctionsAre(functions, Meaning[i - 1].fns)
  BY <1>3 DEF AtOutside, ReadTo
<1>7. Tops(Tail(todo)) = Left(i + 1, d)
  BY <1>1, <1>3, LeftNext
<1>8. CASE IsDirective(i, Conditional)
  <2>1. d = i - 1 /\ Depth[i - 1] = 0
    BY <1>3, <1>8
  <2>2. Depth[i] \in {0, 1}
    BY <1>3, SourceFacts DEF WellFormed, N
  <2>3. ~IsEndif(i)
    BY <1>3, <2>1, <2>2, DepthIs DEF IsEndif
  <2>4. ~IsElse(i)
    <3> SUFFICES ASSUME IsElse(i) PROVE FALSE
      OBVIOUS
    <3>1. Depth[i] = 1
      BY <1>3 DEF WellFormed, IsElse
    <3>2. source[i].d \notin {"ifdef", "ifndef", "endif"}
      BY DEF IsElse, IsDirective
    <3> QED BY <1>3, <2>1, <3>1, <3>2, DepthIs
  <2>5. IsIf(i)
    BY <1>8, <2>3, <2>4, IsConditional
  <2> QED BY <1>3, <1>4, <1>5, <1>6, <1>7, <2>1, <2>5
<1>9. CASE ~IsDirective(i, Conditional)
  <2>1. i =< d /\ Alive(i) /\ source[i].d \notin Conditional
    BY <1>3, <1>9 DEF IsDirective
  <2> QED BY <1>3, <1>4, <1>5, <1>6, <1>7, <2>1
<1> QED BY <1>8, <1>9

-----------------------------------------------------------------------------
(* Outside conditionals and macro functions.                               *)

\* The line that passes is one that counts, and where that leaves us.
PassesTo(h, c, d) ==
  /\ c \in 1..(N + 1) /\ d \in 0..N /\ c =< d + 1 /\ c - 1 = h[1]
  /\ Depth[d] = 0 /\ (c =< N => ~InMacro[c])
  /\ Tops(Tail(todo)) = Left(c, d)
  /\ \A it \in Values(Tail(todo)) : OwnItem(it) \/ CallItem(it, c)

LEMMA PassKey ==
  ASSUME source \in Sources, WellFormed, OrderInv, todo # <<>>, state = "passthrough",
         NEW p \in 1..(N + 1), NEW e \in 0..N, Placed(p, e), Item.d \notin Directives,
         NEW h, h = Key(Item)
  PROVE  /\ h \in Expanded /\ Last(h) = Item.line /\ Len(h) = Len(Item.path) + 1
         /\ Len(Item.path) \in Nat
         /\ macros = Meaning[h[1]].macros /\ FunctionsAre(functions, Meaning[h[1]].fns)
         /\ Item.d = IF Len(h) > 1 /\ source[Item.line].d = "macro" THEN "ins"
                     ELSE source[Item.line].d
         /\ \E c, d : PassesTo(h, c, d)
<1>1. AtOutside(p, e) /\ p =< e + 1
  BY DEF Placed, AtConditional, AtFunction
<1>2. CASE Item.path # <<>>
  <2>1. /\ h \in Expanded /\ h[1] = p - 1 /\ p - 1 \in Kept
        /\ Last(h) = Item.line /\ Len(h) = Len(Item.path) + 1
        /\ Len(Item.path) \in Nat /\ Len(Item.path) > 0
        /\ Item.d = IF source[Item.line].d = "macro" THEN "ins" ELSE source[Item.line].d
        /\ Tops(Tail(todo)) = Left(p, e)
        /\ \A it \in Values(Tail(todo)) : OwnItem(it) \/ CallItem(it, p)
    BY <1>2, CallHead
  <2>2. macros = Meaning[h[1]].macros /\ FunctionsAre(functions, Meaning[h[1]].fns)
    BY <1>1, <2>1 DEF AtOutside, ReadTo
  <2>3. Len(h) > 1
    BY <2>1
  <2>4. PassesTo(h, p, e)
    BY <1>1, <2>1 DEF PassesTo, AtOutside
  <2> QED BY <2>1, <2>2, <2>3, <2>4
<1>3. CASE Item.path = <<>>
  <2> DEFINE i == Item.line
             k == i + 1
  <2>1. /\ h = <<i>> /\ Last(h) = i /\ Len(h) = 1
        /\ \A it \in Values(Tail(todo)) : OwnItem(it)
    BY <1>3, OwnHead
  <2>2. WellFormed
    OBVIOUS
  <2>3. /\ i \in Lines /\ ~InMacro[i] /\ i - 1 \in 0..N /\ Item.d = source[i].d
        /\ macros = Meaning[i - 1].macros /\ FunctionsAre(functions, Meaning[i - 1].fns)
        /\ \E d \in 0..N :
              /\ Depth[d] = 0 /\ Tops(Tail(todo)) = Left(i + 1, d)
              /\ \/ IsIf(i) /\ d = i - 1
                 \/ Item.d \notin Conditional /\ i =< d /\ Alive(i)
    BY <1>1, <1>3, <2>2, OutsideHead
  <2>4. ~IsIf(i)
    BY <2>3 DEF IsIf, IsDirective, Directives, Conditional
  <2>5. PICK d \in 0..N : /\ Depth[d] = 0 /\ Tops(Tail(todo)) = Left(k, d)
                          /\ i =< d /\ Alive(i)
    BY <2>3, <2>4
  <2>6. i \in Kept
    BY <2>3, <2>5 DEF Kept, Alive
  <2>7. Meaning[i].fns = Meaning[i - 1].fns /\ Meaning[i].macros = Meaning[i - 1].macros
    BY <2>6, KeptIs
  <2>8. h[1] = i
    BY <2>1
  <2>9. h \in Expanded
    <3>1. h \in Seq(Lines)
      BY <2>1, <2>3
    <3>2. IsWay(h, h[1], Meaning[h[1]].fns)
      BY <2>1, <2>8, <3>1 DEF IsWay
    <3>3. Len(h) =< Limit + 1
      BY <2>1, LimitAssumption
    <3> QED BY <2>6, <2>8, <3>2, <3>3, ExpandedIs
  <2>10. i \in 1..N /\ N \in Nat /\ Lines = 1..N
    BY <2>3, SourceFacts
  <2> HIDE DEF i
  <2>11. k \in 1..(N + 1) /\ k =< d + 1 /\ k - 1 = i
    BY <2>5, <2>10
  <2>12. k =< N => ~InMacro[k]
    <3> SUFFICES ASSUME k =< N PROVE ~InMacro[k]
      OBVIOUS
    <3>1. i + 1 \in Lines
      BY <2>10
    <3>2. source[i].d # "macro"
      BY <2>3 DEF Directives
    <3> QED BY <2>3, <3>1, <3>2, InMacroIs
  <2>13. PassesTo(h, k, d)
    BY <2>1, <2>5, <2>8, <2>11, <2>12 DEF PassesTo
  <2>14. Len(h) = Len(Item.path) + 1 /\ Len(Item.path) = 0
    BY <1>3, <2>1, EmptyIsSeq
  <2>15. ~(Len(h) > 1)
    BY <2>1
  <2> QED BY <2>1, <2>3, <2>7, <2>8, <2>9, <2>13, <2>14, <2>15 DEF i
<1> QED BY <1>2, <1>3

LEMMA PassPlaced ==
  ASSUME source \in Sources, WellFormed, OrderInv, todo # <<>>, state = "passthrough",
         NEW p \in 1..(N + 1), NEW e \in 0..N, Placed(p, e), Item.d \notin Directives,
         source' = source, state' = "passthrough", macros' = macros, functions' = functions,
         NEW u, todo' = u \o Tail(todo), IsSeq(u),
         \A it \in Values(u) : CallItem(it, Key(Item)[1] + 1)
  PROVE  \E c \in 1..(N + 1), d \in 0..N : Placed(c, d)'
<1> DEFINE h == Key(Item)
<1>1. /\ macros = Meaning[h[1]].macros /\ FunctionsAre(functions, Meaning[h[1]].fns)
      /\ \E c, d : PassesTo(h, c, d)
  BY PassKey
<1>2. PICK c, d : PassesTo(h, c, d)
  BY <1>1
<1>3. /\ c \in 1..(N + 1) /\ d \in 0..N /\ c =< d + 1 /\ c - 1 = h[1]
      /\ Depth[d] = 0 /\ (c =< N => ~InMacro[c])
      /\ Tops(Tail(todo)) = Left(c, d)
      /\ \A it \in Values(Tail(todo)) : OwnItem(it) \/ CallItem(it, c)
  BY <1>2 DEF PassesTo
<1>4. IsSeq(Tail(todo))
  BY TailSeq DEF OrderInv, Ordered, Items
<1>5. Values(todo') = Values(u) \cup Values(Tail(todo))
  BY <1>4, ValuesConcat
<1>6. h[1] + 1 = c
  BY <1>3, SourceFacts
<1>7. \A it \in Values(u) : CallItem(it, c)
  BY <1>6
<1>8. Tops(todo') = Left(c, d)
  <2>1. \A it \in Values(u) : it.path # <<>>
    BY <1>7 DEF CallItem
  <2>2. Tops(todo') = Tops(Tail(todo))
    BY <1>5, <2>1 DEF Tops
  <2> QED BY <1>3, <2>2
<1>9. \A it \in Values(todo') : OwnItem(it) \/ CallItem(it, c)
  BY <1>3, <1>5, <1>7
<1>10. AtOutside(c, d)'
  BY <1>1, <1>3, OutsideNext
<1>11. state' # "ifdef"
  OBVIOUS
<1>12. Placed(c, d)'
  BY <1>3, <1>8, <1>9, <1>10, <1>11, PlacedNext
<1> QED BY <1>3, <1>12

LEMMA PassReads ==
  ASSUME source \in Sources, WellFormed, OrderInv, todo # <<>>, state = "passthrough",
         NEW p \in 1..(N + 1), NEW e \in 0..N, Placed(p, e), Item.d \notin Directives,
         source' = source, state' = "passthrough", todo' = Tail(todo),
         source[Item.line].d # "call", NEW h, h = Key(Item)
  PROVE  Read' = Read \cup {h} /\ h \notin Read
<1>1. h \in Expanded /\ Last(h) = Item.line
  BY PassKey
<1>2. Taken = <<>> /\ Taken' = <<>>
  BY DEF Taken
<1>3. Items(todo) /\ InOrder(todo) /\ IsSeq(todo)
  BY DEF OrderInv, Ordered, Items
<1>4. \A k : WaysOn(todo, k) <=> Extends(h, k) \/ WaysOn(Tail(todo), k)
  BY <1>3, WaysOfLists DEF Item
<1>5. \A k : Extends(h, k) => ~WaysOn(Tail(todo), k)
  BY <1>3, TailApart DEF Item
<1>6. \A k : ~WaysOn(<<>>, k)
  BY WaysOfLists
<1>7. h \in Seq(Nat)
  BY <1>1, ExpandedFacts
<1>8. \A k \in Expanded : Extends(h, k) <=> k = h
  <2>1. Extends(h, h)
    BY <1>7, ExtendsSelf
  <2>2. ASSUME NEW k \in Expanded, Extends(h, k) PROVE k = h
    <3>1. ~GoodCall(Last(h), Meaning[h[1]].fns)
      BY <1>1 DEF GoodCall
    <3> QED BY <1>1, <2>2, <3>1, WaysFrom
  <2> QED BY <2>1, <2>2
<1>9. \A k : Pending(k) <=> WaysOn(todo, k)
  BY <1>2, <1>6 DEF Pending
<1>10. \A k : Pending(k)' <=> WaysOn(Tail(todo), k)
  BY <1>2, <1>6 DEF Pending
<1>11. ~Pending(h)'
  BY <1>1, <1>5, <1>8, <1>10
<1>12. \A k \in Expanded : Pending(k) <=> Pending(k)' \/ k = h
  BY <1>4, <1>8, <1>9, <1>10
<1> QED BY <1>1, <1>11, <1>12, ReadMore

\* The lines that a call stands for.
Stands(u, h, m) ==
  /\ IsSeq(u)
  /\ \A it \in Values(u) : it.path = h /\ it.line \in BodyOf(m)
  /\ \A j \in BodyOf(m) : \E it \in Values(u) : it.path = h /\ it.line = j
  /\ \A it \in Values(u) :
       it.d = IF source[it.line].d = "macro" THEN "ins" ELSE source[it.line].d

LEMMA BodyIn ==
  ASSUME source \in Sources, NEW m \in Lines, source[m].more, NEW i \in BodyOf(m)
  PROVE  i \in Lines /\ i > m /\ InMacro[i] /\ \A k \in (m + 1)..i : InMacro[k]
<1>1. i \in Lines /\ i > m /\ \A k \in (m + 1)..i : InMacro[k]
  BY DEF BodyOf
<1>2. i \in (m + 1)..i
  BY <1>1, SourceFacts
<1> QED BY <1>1, <1>2

LEMMA CallStands ==
  ASSUME source \in Sources, Sound, NEW b, IsBody(b), NEW m \in Lines, Whole(m, b),
         IsDirective(m, {"macro"}), NEW j \in Lines, source[j].d = "call",
         NEW h, NEW over, NEW u, u = [k \in DOMAIN b |-> [b[k] EXCEPT !.over = over, !.path = h]]
  PROVE  Stands(u, h, m)
<1>1. \A k \in DOMAIN b : DOMAIN b[k] = {"line", "d", "more", "over", "path"}
  BY DEF IsBody, Items, IsItem
<1>2. DOMAIN u = DOMAIN b
  OBVIOUS
<1>3. \A k \in DOMAIN b : u[k].path = h /\ u[k].line = b[k].line /\ u[k].d = b[k].d
  BY <1>1
<1>4. IsSeq(u)
  <2>1. Len(b) \in Nat /\ DOMAIN b = 1..Len(b)
    BY SeqFacts DEF IsBody, Items
  <2>2. u = [k \in 1..Len(b) |-> u[k]]
    BY <2>1
  <2> QED BY <2>1, <2>2, FunctionIsSeq
<1>5. \A i \in Lines : InMacro[i] => source[i].d # "macro"
  <2>1. CASE Tame
    BY <2>1 DEF Tame, Directives
  <2>2. CASE Balanced
    BY <2>2 DEF Balanced, Conditional
  <2> QED BY <2>1, <2>2 DEF Sound
<1>6. /\ \A k \in DOMAIN b : b[k].line \in BodyOf(m)
      /\ \A i \in BodyOf(m) : \E k \in DOMAIN b : b[k].line = i
      /\ \A k \in DOMAIN b : b[k].d = IF source[b[k].line].d = "macro" THEN "ins"
                                      ELSE source[b[k].line].d
  <2>1. CASE source[m].more
    <3>1. /\ {b[k].line : k \in DOMAIN b} = BodyOf(m)
          /\ \A k \in DOMAIN b : b[k].line = m + k /\ b[k].d = source[m + k].d
      BY <2>1 DEF Whole
    <3>2. ASSUME NEW i \in BodyOf(m) PROVE source[i].d # "macro"
      <4>1. i \in Lines /\ InMacro[i]
        BY Zenon, <2>1, BodyIn
      <4> QED BY Zenon, <1>5, <4>1
    <3>3. \A k \in DOMAIN b : b[k].line \in BodyOf(m)
      BY <3>1
    <3>4. \A i \in BodyOf(m) : \E k \in DOMAIN b : b[k].line = i
      BY <3>1
    <3>5. \A k \in DOMAIN b : b[k].d = source[b[k].line].d /\ source[b[k].line].d # "macro"
      BY <3>1, <3>2, <3>3
    <3> QED BY <3>3, <3>4, <3>5
  <2>2. CASE ~source[m].more
    <3>1. DOMAIN b = {1} /\ b[1].line = m /\ b[1].d = "ins" /\ BodyOf(m) = {m}
      BY <2>2 DEF Whole, BodyOf
    <3>2. source[m].d = "macro"
      BY DEF IsDirective
    <3> QED BY <3>1, <3>2
  <2> QED BY <2>1, <2>2
<1> HIDE DEF Whole
<1>7. \A it \in Values(u) : \E k \in DOMAIN b : it = u[k]
  BY <1>2 DEF Values
<1>8. \A k \in DOMAIN b : u[k] \in Values(u)
  BY <1>2 DEF Values
<1>9. ASSUME NEW it \in Values(u)
      PROVE  /\ it.path = h /\ it.line \in BodyOf(m)
             /\ it.d = IF source[it.line].d = "macro" THEN "ins" ELSE source[it.line].d
  <2>1. PICK k \in DOMAIN b : it = u[k]
    BY <1>7
  <2>2. it.path = h /\ it.line = b[k].line /\ it.d = b[k].d
    BY Zenon, <1>3, <2>1
  <2> QED BY Zenon, <1>6, <2>2
<1>10. ASSUME NEW i \in BodyOf(m) PROVE \E it \in Values(u) : it.path = h /\ it.line = i
  <2>1. PICK k \in DOMAIN b : b[k].line = i
    BY <1>6
  <2> QED BY Zenon, <1>3, <1>8, <2>1
<1> QED BY <1>4, <1>9, <1>10 DEF Stands

LEMMA CallItems ==
  ASSUME source \in Sources, NEW h \in Expanded, NEW fns, fns = Meaning[h[1]].fns,
         GoodCall(Last(h), fns), Len(h) =< Limit, NEW u, Stands(u, h, Called(Last(h), fns))
  PROVE  /\ \A it \in Values(u) : CallItem(it, h[1] + 1)
         /\ \A k \in Expanded : Extends(h, k) <=> WaysOn(u, k) \/ k = h
         /\ ~WaysOn(u, h)
<1> DEFINE m == Called(Last(h), fns)
<1>1. /\ h \in Seq(Nat) /\ Len(h) \in Nat /\ Len(h) > 0 /\ DOMAIN h = 1..Len(h) /\ h[1] \in Lines
  BY ExpandedFacts
<1>2. h # <<>> /\ h[1] = (h[1] + 1) - 1
  BY <1>1, SourceFacts
<1>3. \A j \in BodyOf(m) : Append(h, j) \in Expanded /\ j \in Lines
  BY WayOn
<1>4. \A it \in Values(u) : it.path = h /\ it.line \in BodyOf(m) /\ Key(it) = Append(h, it.line)
  BY DEF Stands, Key
<1>5. \A j \in BodyOf(m) : \E it \in Values(u) : it.path = h /\ it.line = j
  BY DEF Stands
<1>a. BodyOf(m) \subseteq Nat
  BY <1>3, SourceFacts
<1> HIDE DEF m
<1>6. \A it \in Values(u) : CallItem(it, h[1] + 1)
  BY <1>2, <1>3, <1>4 DEF CallItem, Stands
<1>7. ASSUME NEW k \in Expanded, WaysOn(u, k) PROVE Extends(h, k) /\ Len(k) > Len(h)
  <2>1. PICK it \in Values(u) : Extends(Key(it), k)
    BY <1>7 DEF WaysOn
  <2>2. Key(it) = Append(h, it.line) /\ it.line \in Nat
    BY <1>4, <1>a
  <2>3. k \in Seq(Nat)
    BY ExpandedFacts
  <2> QED BY <1>1, <2>1, <2>2, <2>3, ExtendsNext
<1>8. ASSUME NEW k \in Expanded, Extends(h, k), k # h PROVE WaysOn(u, k)
  <2>1. Len(k) > Len(h) /\ k[Len(h) + 1] \in BodyOf(m)
    BY <1>8, WaysFrom DEF m
  <2>2. PICK it \in Values(u) : it.path = h /\ it.line = k[Len(h) + 1]
    BY <1>5, <2>1
  <2>3. Key(it) = Append(h, k[Len(h) + 1]) /\ k[Len(h) + 1] \in Nat
    BY <1>4, <1>a, <2>1, <2>2
  <2>4. k \in Seq(Nat)
    BY ExpandedFacts
  <2>5. Extends(Key(it), k)
    BY <1>1, <1>8, <2>1, <2>3, <2>4, ExtendsNext
  <2> QED BY <2>5 DEF WaysOn
<1>9. ~WaysOn(u, h)
  BY <1>1, <1>7
<1>10. Extends(h, h)
  BY <1>1, ExtendsSelf
<1> QED BY <1>6, <1>7, <1>8, <1>9, <1>10

-----------------------------------------------------------------------------
(* What has been assembled is what has been read.                          *)

LEMMA ReadsStay ==
  ASSUME source' = source, symbols' = symbols, out' = out, Read' = Read,
         Accounts
  PROVE  Accounts'
<1>1. /\ Consts' = Consts /\ ConstNames' = ConstNames
      /\ \A k : (IsLabel(k)' <=> IsLabel(k)) /\ (IsIns(k)' <=> IsIns(k)) /\ Name(k)' = Name(k)
  BY LinesSame
<1>2. Meaning' = Meaning /\ \A j, fns : GoodCall(j, fns)' <=> GoodCall(j, fns)
  BY MeaningSame
<1>3. Labels(Read)' = Labels(Read)
  BY <1>1 DEF Labels
<1>7. SymbolsRead /\ (Tame' => OutRead /\ Clean)
  BY ShapeSame DEF Accounts
<1>4. SymbolsRead'
  BY <1>1, <1>3, <1>7 DEF SymbolsRead
<1>5. Tame' => OutRead'
  BY <1>1, <1>7 DEF OutRead
<1>6. ASSUME Tame' PROVE Clean'
  <2>a. Clean
    BY <1>6, <1>7
  <2>1. \A i, j \in Consts' : i # j => source'[i].x # source'[j].x
    BY <1>1, <2>a DEF Clean
  <2>2. ASSUME NEW k \in Read', source'[Last(k)].d = "call"
        PROVE  GoodCall(Last(k), Meaning[k[1]].fns)' /\ Len(k) =< Limit
    BY <1>2, <2>2, <2>a DEF Clean, GoodCall, ParamsOf
  <2>3. ASSUME NEW k \in Read', IsLabel(k)'
        PROVE  /\ Name(k)' \notin ConstNames'
               /\ \A h \in Read' \ {k} : IsLabel(h)' => Name(h)' # Name(k)'
    BY <1>1, <2>3, <2>a DEF Clean
  <2> QED BY <2>1, <2>2, <2>3 DEF Clean
<1> QED BY <1>4, <1>5, <1>6 DEF Accounts

LEMMA ReadsGrow ==
  ASSUME source' = source, NEW h, Read' = Read \cup {h}, Accounts,
         IF IsLabel(h) THEN Name(h) \notin symbols /\ symbols' = symbols \cup {Name(h)}
         ELSE symbols' = symbols,
         {out'[i].key : i \in DOMAIN out'} =
           {out[i].key : i \in DOMAIN out} \cup (IF IsIns(h) THEN {h} ELSE {}),
         source[Last(h)].d = "call" => GoodCall(Last(h), Meaning[h[1]].fns) /\ Len(h) =< Limit
  PROVE  Accounts'
<1>1. /\ Consts' = Consts /\ ConstNames' = ConstNames
      /\ \A k : (IsLabel(k)' <=> IsLabel(k)) /\ (IsIns(k)' <=> IsIns(k)) /\ Name(k)' = Name(k)
  BY LinesSame
<1>2. Meaning' = Meaning /\ \A j, fns : GoodCall(j, fns)' <=> GoodCall(j, fns)
  BY MeaningSame
<1>3. symbols = ConstNames \cup {Name(k) : k \in {k \in Read : IsLabel(k)}}
  BY DEF Accounts, SymbolsRead, Labels
<1>7. SymbolsRead /\ (Tame' => OutRead /\ Clean)
  BY ShapeSame DEF Accounts
<1>4. SymbolsRead'
  <2>1. Labels(Read)' = {Name(k) : k \in {k \in Read' : IsLabel(k)}}
    BY <1>1 DEF Labels
  <2>2. CASE IsLabel(h)
    <3>1. Labels(Read)' = {Name(k) : k \in {k \in Read : IsLabel(k)}} \cup {Name(h)}
      BY <2>1, <2>2
    <3> QED BY <1>1, <1>3, <2>2, <3>1 DEF SymbolsRead
  <2>3. CASE ~IsLabel(h)
    <3>1. Labels(Read)' = {Name(k) : k \in {k \in Read : IsLabel(k)}}
      BY <2>1, <2>3
    <3> QED BY <1>1, <1>3, <2>3, <3>1 DEF SymbolsRead
  <2> QED BY <2>2, <2>3
<1>5. ASSUME Tame' PROVE OutRead'
  <2>1. {k \in Read' : IsIns(k)'} =
          {k \in Read : IsIns(k)} \cup (IF IsIns(h) THEN {h} ELSE {})
    BY <1>1
  <2> QED BY <1>5, <1>7, <2>1 DEF OutRead
<1>6. ASSUME Tame' PROVE Clean'
  <2>a. Clean
    BY <1>6, <1>7
  <2>1. \A i, j \in Consts' : i # j => source'[i].x # source'[j].x
    BY <1>1, <2>a DEF Clean
  <2>2. ASSUME NEW k \in Read', source'[Last(k)].d = "call"
        PROVE  GoodCall(Last(k), Meaning[k[1]].fns)' /\ Len(k) =< Limit
    BY <1>2, <2>2, <2>a DEF Clean, GoodCall, ParamsOf
  <2>3. ASSUME NEW k \in Read', IsLabel(k)
        PROVE  /\ Name(k) \notin ConstNames
               /\ \A g \in Read' \ {k} : IsLabel(g) => Name(g) # Name(k)
    <3>1. IsLabel(h) => Name(h) \notin ConstNames /\ \A g \in Read : IsLabel(g) => Name(g) # Name(h)
      BY <1>3
    <3>2. k \in Read => /\ Name(k) \notin ConstNames
                        /\ \A g \in Read \ {k} : IsLabel(g) => Name(g) # Name(k)
      BY <2>3, <2>a DEF Clean
    <3> QED BY <2>3, <3>1, <3>2
  <2>4. \A k \in Read' : IsLabel(k)' =>
          /\ Name(k)' \notin ConstNames'
          /\ \A g \in Read' \ {k} : IsLabel(g)' => Name(g)' # Name(k)'
    BY <1>1, <2>3
  <2> QED BY <2>1, <2>2, <2>4 DEF Clean
<1> QED BY <1>4, <1>5, <1>6 DEF Accounts

-----------------------------------------------------------------------------
(* The steps outside conditionals and macro functions.                     *)

Steady == /\ source \in Sources /\ PreprocessorInv /\ OrderInv /\ ~failed
          /\ WellFormed /\ Sound /\ Well /\ (Balanced => Chain(todo, 0))

\* A symbol that is there already is one of two that have its name.
LEMMA TwiceIsFaulty ==
  ASSUME NEW h \in Expanded, h \notin Read, IsLabel(h), Accounts, Name(h) \in symbols
  PROVE  Faulty
<1>1. CASE Name(h) \in ConstNames
  BY <1>1 DEF Faulty, ConstNames, Name
<1>2. CASE Name(h) \in Labels(Read)
  <2>1. PICK k \in Read : IsLabel(k) /\ Name(k) = Name(h)
    BY <1>2 DEF Labels
  <2>2. k \in Expanded \ {h}
    BY <2>1 DEF Read
  <2> QED BY <2>1, <2>2 DEF Faulty, Name
<1> QED BY <1>1, <1>2 DEF Accounts, SymbolsRead

LEMMA PassStep ==
  ASSUME Steady, Pass \/ PassEqu \/ PassLabel PROVE IF failed' THEN Faulty ELSE Well'
<1>1. /\ todo # <<>> /\ state = "passthrough" /\ Item.d \in {"ins", "equ", "label"}
      /\ source' = source /\ state' = "passthrough" /\ macros' = macros
      /\ functions' = functions /\ todo' = Tail(todo)
  BY DEF Pass, PassEqu, PassLabel, Passed, Ordinary, globals
<1>2. source \in Sources /\ WellFormed /\ OrderInv /\ Sound /\ Well
  BY DEF Steady
<1>3. PICK p \in 1..(N + 1), e \in 0..N : Placed(p, e)
  BY <1>2 DEF Well
<1>4. Item.d \notin Directives
  BY <1>1 DEF Directives, Conditional
<1>5. PICK h : h = Key(Item)
  OBVIOUS
<1>6. /\ h \in Expanded /\ Last(h) = Item.line
      /\ Item.d = IF Len(h) > 1 /\ source[Item.line].d = "macro" THEN "ins"
                  ELSE source[Item.line].d
  BY <1>1, <1>2, <1>3, <1>4, <1>5, PassKey
<1>7. \E c \in 1..(N + 1), d \in 0..N : Placed(c, d)'
  <2>1. Tail(todo) = <<>> \o Tail(todo)
    <3>1. IsSeq(Tail(todo))
      BY <1>1, <1>2, TailSeq DEF OrderInv, Ordered, Items
    <3>2. PICK S : Tail(todo) \in Seq(S)
      BY <3>1 DEF IsSeq
    <3> QED BY <3>2
  <2>2. IsSeq(<<>>) /\ \A it \in Values(<<>>) : CallItem(it, Key(Item)[1] + 1)
    BY EmptyIsSeq, ValuesEmpty
  <2>3. todo' = <<>> \o Tail(todo)
    BY <1>1, <2>1
  <2> QED BY <1>1, <1>2, <1>3, <1>4, <2>2, <2>3, PassPlaced
<1>8. source[Item.line].d # "call"
  BY <1>1, <1>6
<1>9. Read' = Read \cup {h} /\ h \notin Read
  BY <1>1, <1>2, <1>3, <1>4, <1>5, <1>8, PassReads
<1>10. N' = N
  BY <1>1, LinesSame
<1>11. ASSUME Accounts' PROVE Well'
  BY <1>7, <1>10, <1>11 DEF Well
<1>12. Accounts
  BY <1>2 DEF Well
<1>a. source[Last(h)].d # "call"
  BY <1>6, <1>8
<1>13. CASE Pass
  <2>1. /\ failed' = failed /\ symbols' = symbols /\ Item.d = "ins"
        /\ out' = Append(out, [key |-> Key(Item), args |-> Operands])
    BY <1>13 DEF Pass, Passed, Key
  <2>2. IsIns(h) /\ ~IsLabel(h)
    BY <1>6, <2>1 DEF IsIns, IsLabel
  <2>3. {out'[i].key : i \in DOMAIN out'} =
          {out[i].key : i \in DOMAIN out} \cup {h}
    <3>1. IsSeq(out)
      BY <1>2 DEF OrderInv, Ordered, OutInOrder
    <3> DEFINE n == Len(out)
               a == [key |-> Key(Item), args |-> Operands]
    <3>2. /\ DOMAIN out' = 1..(n + 1) /\ \A i \in DOMAIN out : out'[i] = out[i]
          /\ out'[n + 1] = a /\ n \in Nat /\ DOMAIN out = 1..n
      BY <2>1, <3>1, AppendSeq, SeqFacts
    <3>3. a.key = h
      BY <1>5
    <3> HIDE DEF n, a
    <3>4. /\ \A i \in DOMAIN out' : i \in DOMAIN out \/ i = n + 1
          /\ DOMAIN out \subseteq DOMAIN out' /\ n + 1 \in DOMAIN out'
      BY <3>2
    <3>5. out'[n + 1].key = h
      BY <3>2, <3>3
    <3>6. {out'[i].key : i \in DOMAIN out'} \subseteq {out[i].key : i \in DOMAIN out} \cup {h}
      BY <3>2, <3>4, <3>5
    <3>7. {out[i].key : i \in DOMAIN out} \cup {h} \subseteq {out'[i].key : i \in DOMAIN out'}
      BY <3>2, <3>4, <3>5
    <3> QED BY <3>6, <3>7
  <2>4. Accounts'
    BY <1>1, <1>9, <1>12, <1>a, <2>1, <2>2, <2>3, ReadsGrow
  <2> QED BY <1>2, <1>11, <2>1, <2>4 DEF Steady
<1>14. CASE PassEqu
  <2>1. failed' = failed /\ symbols' = symbols /\ Item.d = "equ" /\ out' = out
    BY <1>14 DEF PassEqu, Passed
  <2>2. ~IsIns(h) /\ ~IsLabel(h)
    BY <1>6, <2>1 DEF IsIns, IsLabel
  <2>3. {out'[i].key : i \in DOMAIN out'} = {out[i].key : i \in DOMAIN out} \cup {}
    BY <2>1
  <2>4. Accounts'
    BY <1>1, <1>9, <1>12, <1>a, <2>1, <2>2, <2>3, ReadsGrow
  <2> QED BY <1>2, <1>11, <2>1, <2>4 DEF Steady
<1>15. CASE PassLabel
  <2>1. /\ failed' = (Line.x \in symbols) /\ symbols' = symbols \cup {Line.x}
        /\ Item.d = "label" /\ out' = out
    BY <1>15 DEF PassLabel, Passed
  <2>2. ~IsIns(h) /\ IsLabel(h) /\ Line.x = Name(h)
    BY <1>6, <2>1 DEF IsIns, IsLabel, Name, Line
  <2>3. CASE Line.x \in symbols
    <3>1. Faulty
      BY <1>6, <1>9, <1>12, <2>2, <2>3, TwiceIsFaulty
    <3> QED BY <2>1, <2>3, <3>1
  <2>4. CASE Line.x \notin symbols
    <3>1. {out'[i].key : i \in DOMAIN out'} = {out[i].key : i \in DOMAIN out} \cup {}
      BY <2>1
    <3>2. Name(h) \notin symbols /\ symbols' = symbols \cup {Name(h)}
      BY <2>1, <2>2, <2>4
    <3>3. Accounts'
      BY <1>1, <1>9, <1>12, <1>a, <2>2, <3>1, <3>2, ReadsGrow
    <3> QED BY <1>11, <2>1, <2>4, <3>3
  <2> QED BY <2>3, <2>4
<1> QED BY <1>13, <1>14, <1>15

LEMMA CallableIs ==
  ASSUME NEW h, Last(h) = Item.line, Len(h) = Len(Item.path) + 1, Len(Item.path) \in Nat,
         NEW fns, FunctionsAre(functions, fns), source[Item.line].d = "call"
  PROVE  Callable <=> GoodCall(Last(h), fns) /\ Len(h) =< Limit
<1>1. Len(Item.path) < Limit <=> Len(h) =< Limit
  BY LimitAssumption
<1>2. /\ DOMAIN functions = DOMAIN fns
      /\ Line.x \in DOMAIN fns => functions[Line.x].params = ParamsOf(fns[Line.x])
  BY DEF FunctionsAre
<1>3. GoodCall(Last(h), fns) <=> /\ Line.x \in DOMAIN fns
                                 /\ Len(Line.args) = Len(ParamsOf(fns[Line.x]))
  BY DEF GoodCall, Line
<1>4. Callable <=> /\ Line.x \in DOMAIN functions
                   /\ Len(functions[Line.x].params) = Len(Line.args)
                   /\ Len(Item.path) < Limit
  BY DEF Callable
<1> QED BY Zenon, <1>1, <1>2, <1>3, <1>4

LEMMA CallStep == ASSUME Steady, Call PROVE IF failed' THEN Faulty ELSE Well'
<1>1. /\ todo # <<>> /\ state = "passthrough" /\ Item.d = "call" /\ Callable
      /\ source' = source /\ state' = "passthrough" /\ macros' = macros
      /\ functions' = functions /\ symbols' = symbols /\ out' = out /\ failed' = failed
  BY DEF Call, Passed, Ordinary, globals
<1>2. source \in Sources /\ WellFormed /\ OrderInv /\ Sound /\ Well /\ ~failed
  BY DEF Steady
<1>3. PICK p \in 1..(N + 1), e \in 0..N : Placed(p, e)
  BY <1>2 DEF Well
<1>4. Item.d \notin Directives
  BY <1>1 DEF Directives, Conditional
<1>5. PICK h : h = Key(Item)
  OBVIOUS
<1>6. /\ h \in Expanded /\ Last(h) = Item.line /\ Len(h) = Len(Item.path) + 1
      /\ Len(Item.path) \in Nat
      /\ FunctionsAre(functions, Meaning[h[1]].fns)
      /\ Item.d = IF Len(h) > 1 /\ source[Item.line].d = "macro" THEN "ins"
                  ELSE source[Item.line].d
  BY <1>1, <1>2, <1>3, <1>4, <1>5, PassKey
<1>7. source[Item.line].d = "call"
  BY <1>1, <1>6
<1>8. PICK fns : fns = Meaning[h[1]].fns
  OBVIOUS
<1>9. GoodCall(Last(h), fns) /\ Len(h) =< Limit
  BY <1>1, <1>6, <1>7, <1>8, CallableIs
<1>10. PICK m : m = Called(Last(h), fns)
  OBVIOUS
<1>11. m = fns[Line.x] /\ Line.x \in DOMAIN fns
  BY <1>6, <1>9, <1>10 DEF Called, GoodCall, Line
<1>12. m \in Lines /\ IsDirective(m, {"macro"}) /\ Item.line \in Lines
  <2>1. h[1] \in 0..N /\ Last(h) \in Lines
    BY <1>2, <1>6, ExpandedFacts, SourceFacts
  <2> QED BY <1>2, <1>6, <1>8, <1>11, <2>1, FnsLines
<1> DEFINE b == functions[Line.x].body
<1>13. IsBody(b) /\ Whole(m, b)
  <2>1. Line.x \in DOMAIN functions
    BY <1>1 DEF Callable
  <2> QED BY <1>2, <1>6, <1>8, <1>11, <2>1 DEF OrderInv, Bodies, FunctionsAre
<1>14. Append(Item.path, Item.line) = h
  BY <1>5 DEF Key
<1>15. PICK over : todo' = [k \in DOMAIN b |-> [b[k] EXCEPT !.over = over, !.path = h]]
                           \o Tail(todo)
  BY <1>14 DEF Call
<1>16. PICK u : u = [k \in DOMAIN b |-> [b[k] EXCEPT !.over = over, !.path = h]]
  OBVIOUS
<1>17. todo' = u \o Tail(todo)
  BY <1>15, <1>16
<1> HIDE DEF b
<1>18. Stands(u, h, m)
  BY <1>2, <1>7, <1>12, <1>13, <1>16, CallStands
<1>19. /\ \A it \in Values(u) : CallItem(it, h[1] + 1)
       /\ \A k \in Expanded : Extends(h, k) <=> WaysOn(u, k) \/ k = h
       /\ ~WaysOn(u, h)
  BY <1>2, <1>6, <1>8, <1>9, <1>10, <1>18, CallItems
<1>20. IsSeq(u)
  BY <1>18 DEF Stands
<1>21. \E c \in 1..(N + 1), d \in 0..N : Placed(c, d)'
  BY <1>1, <1>2, <1>3, <1>4, <1>5, <1>17, <1>19, <1>20, PassPlaced
<1>22. Read' = Read \cup {h}
  <2>1. Taken = <<>> /\ Taken' = <<>>
    BY <1>1 DEF Taken
  <2>2. Items(todo) /\ InOrder(todo) /\ IsSeq(todo)
    BY <1>2 DEF OrderInv, Ordered, Items
  <2>3. IsSeq(Tail(todo))
    BY <1>1, <2>2, TailSeq
  <2>4. \A k : ~WaysOn(<<>>, k)
    BY WaysOfLists
  <2>5. \A k : WaysOn(todo, k) <=> Extends(h, k) \/ WaysOn(Tail(todo), k)
    BY <1>1, <1>5, <2>2, WaysOfLists DEF Item
  <2>6. \A k : WaysOn(u \o Tail(todo), k) <=> WaysOn(u, k) \/ WaysOn(Tail(todo), k)
    BY <1>20, <2>3, WaysOfLists
  <2>7. \A k : Pending(k) <=> Extends(h, k) \/ WaysOn(Tail(todo), k)
    BY <2>1, <2>4, <2>5 DEF Pending
  <2>8. \A k : Pending(k)' <=> WaysOn(u, k) \/ WaysOn(Tail(todo), k)
    BY <1>17, <2>1, <2>4, <2>6 DEF Pending
  <2>9. ~WaysOn(Tail(todo), h)
    <3>1. Extends(h, h)
      <4>1. h \in Seq(Nat)
        BY <1>2, <1>6, ExpandedFacts
      <4> QED BY <4>1, ExtendsSelf
    <3> QED BY <1>1, <1>5, <2>2, <3>1, TailApart DEF Item
  <2>10. ~Pending(h)'
    BY <1>19, <2>8, <2>9
  <2>11. \A k \in Expanded : Pending(k) <=> Pending(k)' \/ k = h
    BY <1>19, <2>7, <2>8
  <2> QED BY <1>1, <1>6, <2>10, <2>11, ReadMore
<1>23. ~IsLabel(h) /\ ~IsIns(h)
  BY <1>6, <1>7 DEF IsLabel, IsIns
<1>24. Accounts
  BY <1>2 DEF Well
<1>25. {out'[i].key : i \in DOMAIN out'} = {out[i].key : i \in DOMAIN out} \cup {}
  BY <1>1
<1>26. Accounts'
  BY <1>1, <1>8, <1>9, <1>22, <1>23, <1>24, <1>25, ReadsGrow
<1>27. N' = N
  BY <1>1, LinesSame
<1> QED BY <1>1, <1>2, <1>21, <1>26, <1>27 DEF Well

\* A call that cannot be made is an error of the source.
LEMMA BadCallStep == ASSUME Steady, BadCall PROVE Faulty
<1>1. todo # <<>> /\ state = "passthrough" /\ Item.d = "call" /\ ~Callable
  BY DEF BadCall, Passed, Ordinary
<1>2. source \in Sources /\ WellFormed /\ OrderInv /\ Sound /\ Well
  BY DEF Steady
<1>3. PICK p \in 1..(N + 1), e \in 0..N : Placed(p, e)
  BY <1>2 DEF Well
<1>4. Item.d \notin Directives
  BY <1>1 DEF Directives, Conditional
<1>5. PICK h : h = Key(Item)
  OBVIOUS
<1>6. /\ h \in Expanded /\ Last(h) = Item.line /\ Len(h) = Len(Item.path) + 1
      /\ Len(Item.path) \in Nat
      /\ FunctionsAre(functions, Meaning[h[1]].fns)
      /\ Item.d = IF Len(h) > 1 /\ source[Item.line].d = "macro" THEN "ins"
                  ELSE source[Item.line].d
  BY <1>1, <1>2, <1>3, <1>4, <1>5, PassKey
<1>7. source[Item.line].d = "call" /\ source[Last(h)].d = "call"
  BY <1>1, <1>6
<1>8. ~(GoodCall(Last(h), Meaning[h[1]].fns) /\ Len(h) =< Limit)
  BY <1>1, <1>6, <1>7, CallableIs
<1>9. GoodCall(Last(h), Meaning[h[1]].fns) => Len(h) > Limit
  BY <1>6, <1>8, LimitAssumption
<1> QED BY <1>6, <1>7, <1>9 DEF Faulty

LEMMA TopNext ==
  ASSUME NEW v, NEW b, NEW h, stack' = Opened(v, b, h) PROVE Top.value' = v
<1> DEFINE e == Entry(v, b, "passthrough", h, Initially)
<1>1. e.value = v
  BY EntryFields
<1> HIDE DEF e
<1>2. stack' = <<e>>
  BY DEF Opened, e
<1>3. Top' = e
  BY <1>2, Singleton DEF Top
<1> QED BY <1>1, <1>3

\* When only the lines from i on are to come, the symbols are those of the lines
\* before it.
LEMMA SymbolsAt ==
  ASSUME source \in Sources, Items(todo), OfSource(todo), NEW i \in Lines,
         Tops(todo) = Left(i, i - 1), Taken = <<>>, SymbolsRead
  PROVE  symbols = Meaning[i - 1].symbols
<1>1. N \in Nat /\ Lines = 1..N
  BY SourceFacts
<1>2. i - 1 \in 0..N
  BY <1>1
<1>3. \A j \in Lines : j \in Tops(todo) <=> ~(j =< i - 1)
  <2>1. \A j \in Lines : j \in Left(i, i - 1) <=> j >= i /\ (j > i - 1 \/ Alive(j))
    BY DEF Left
  <2>2. \A j \in Lines : (j >= i /\ j > i - 1 <=> ~(j =< i - 1)) /\ (j >= i => j > i - 1)
    BY <1>1
  <2> QED BY <2>1, <2>2
<1>4. \A k : Pending(k) <=> WaysOn(todo, k)
  BY WaysOfLists DEF Pending
<1>5. ASSUME NEW k \in Expanded PROVE WaysOn(todo, k) <=> k[1] \in Tops(todo)
  <2>1. k \in Seq(Nat) /\ Len(k) > 0
    BY ExpandedFacts
  <2>2. \A it \in Values(todo) : it.path = <<>>
    BY DEF OfSource, Values
  <2>3. \A it \in Values(todo) : Extends(Key(it), k) <=> k[1] = it.line
    BY <2>1, <2>2, OwnKey, ExtendsOne
  <2> QED BY <2>2, <2>3 DEF WaysOn, Tops
<1>6. \A k \in Expanded : k[1] \in Lines
  BY ExpandedFacts
<1>7. Read = {k \in Expanded : k[1] =< i - 1}
  BY <1>3, <1>4, <1>5, <1>6 DEF Read
<1> QED BY <1>2, <1>7, SymbolsAre DEF SymbolsRead

\* A condition is true when it is in the reading of the source.
LEMMA TruthIs ==
  ASSUME NEW i, Item.line = i, Item.d = source[i].d, NEW r, macros = r.macros, symbols = r.symbols,
         NEW pos \in {"ifdef", "elifdef"}, Item.d # "else", Item.d \in {"ifdef", "elifdef"} => Item.d = pos
  PROVE  Truth(pos) = Holds(r, i)
<1> DEFINE B == source[i].x \in DOMAIN r.macros \cup r.symbols
<1>1. Truth(pos) = (Item.d = pos <=> B)
  BY DEF Truth, Line
<1>2. CASE Item.d = pos
  <2>1. source[i].d \in {"ifdef", "elifdef"}
    BY <1>2
  <2>2. Holds(r, i) = B
    BY Zenon, <2>1 DEF Holds
  <2>3. (Item.d = pos <=> B) = B
    BY <1>2
  <2> QED BY <1>1, <2>2, <2>3
<1>3. CASE Item.d # pos
  <2>1. source[i].d \notin {"ifdef", "elifdef"} /\ source[i].d # "else"
    BY <1>3
  <2>2. Holds(r, i) = ~B
    BY Zenon, <2>1 DEF Holds
  <2> QED BY Zenon, <1>1, <1>3, <2>2
<1> QED BY <1>2, <1>3

\* A step that passes over a line of the source that nothing comes of.
LEMMA SkipReads ==
  ASSUME source \in Sources, OrderInv, todo # <<>>, source' = source,
         Item.path = <<>>, Item.line \notin Kept, todo' = Tail(todo),
         \A k \in Expanded : WaysOn(Taken', k) <=> WaysOn(Taken, k)
  PROVE  Read' = Read
<1>1. IsSeq(todo)
  BY DEF OrderInv, Ordered, Items
<1>2. \A k : WaysOn(todo, k) <=> Extends(Key(Item), k) \/ WaysOn(Tail(todo), k)
  BY <1>1, WaysOfLists DEF Item
<1>3. \A k \in Expanded : ~Extends(Key(Item), k)
  BY NothingComes
<1>4. \A k \in Expanded : Pending(k) <=> WaysOn(Tail(todo), k) \/ WaysOn(Taken, k)
  BY <1>2, <1>3 DEF Pending
<1>5. \A k \in Expanded : Pending(k)' <=> WaysOn(Tail(todo), k) \/ WaysOn(Taken', k)
  BY DEF Pending
<1> QED BY <1>4, <1>5, ReadSame

\* A directive that a call stands for begins a conditional of its macro function.
LEMMA CallDirective ==
  ASSUME Steady, todo # <<>>, state = "passthrough", Item.d \in Directives, Item.path # <<>>
  PROVE  Balanced /\ ~Tame /\ \E b : Span(todo, 1, b)
<1>1. source \in Sources /\ OrderInv /\ Sound /\ Well /\ (Balanced => Chain(todo, 0))
  BY DEF Steady
<1>2. PICK c \in 1..(N + 1), e \in 0..N : Placed(c, e)
  BY <1>1 DEF Well
<1>3. /\ Key(Item) \in Expanded /\ Last(Key(Item)) = Item.line
      /\ Len(Key(Item)) = Len(Item.path) + 1 /\ Len(Item.path) \in Nat /\ Len(Item.path) > 0
      /\ Item.d = IF source[Item.line].d = "macro" THEN "ins" ELSE source[Item.line].d
  BY <1>1, <1>2, CallHead
<1>4. ~Tame
  <2> SUFFICES ASSUME Tame PROVE FALSE
    OBVIOUS
  <2>1. Len(Key(Item)) > 1
    BY <1>3
  <2>2. source[Item.line].d = "macro" \/ source[Item.line].d \notin Directives
    BY <1>1, <1>3, <2>1, CallsMeanLines
  <2> QED BY <1>3, <2>2 DEF Directives, Conditional
<1>5. Balanced /\ Chain(todo, 0)
  BY <1>1, <1>4 DEF Sound
<1>6. 1 \in DOMAIN todo /\ Item = todo[1] /\ DOMAIN todo = 1..Len(todo) /\ Len(todo) \in Nat
  BY <1>1, TailSeq, SeqFacts DEF OrderInv, Ordered, Items, Item
<1>7. Ready(todo, 1, 0)
  BY <1>5, <1>6 DEF Chain
<1>8. InSpan(todo, 1, 0)
  BY <1>6, <1>7 DEF Ready, Settled
<1>9. PICK a, b \in DOMAIN todo : 0 < a /\ a =< 1 /\ Span(todo, a, b)
  BY <1>8 DEF InSpan
<1>10. a = 1
  BY <1>6, <1>9
<1> QED BY <1>4, <1>5, <1>9, <1>10

\* A source that is well formed has no directive too many.
LEMMA OutsideDirective ==
  ASSUME Steady, todo # <<>>, state = "passthrough", Item.d \in Directives
  PROVE  /\ Item.d \in {"ifdef", "ifndef", "define", "macro"}
         /\ Item.path # <<>> => Item.d \in Ifs
         /\ \E c \in 1..(N + 1), e \in 0..N : Placed(c, e) /\ AtOutside(c, e)
<1>1. source \in Sources /\ OrderInv /\ Sound /\ Well /\ WellFormed
  BY DEF Steady
<1>2. PICK c \in 1..(N + 1), e \in 0..N : Placed(c, e)
  BY <1>1 DEF Well
<1>3. AtOutside(c, e)
  BY <1>2 DEF Placed, AtConditional, AtFunction
<1>4. CASE Item.path # <<>>
  <2>1. PICK b : Span(todo, 1, b)
    BY <1>4, CallDirective
  <2>2. Item = todo[1]
    BY <1>1, TailSeq DEF OrderInv, Ordered, Items, Item
  <2> QED BY <1>2, <1>3, <2>1, <2>2 DEF Span, Ifs
<1>5. CASE Item.path = <<>>
  <2>1. PICK i : i = Item.line
    OBVIOUS
  <2>2. /\ Item.d = source[i].d /\ ~InMacro[i]
        /\ IsIf(i) \/ Item.d \notin Conditional
    BY <1>1, <1>2, <1>3, <1>5, <2>1, OutsideHead
  <2>3. Item.d \in {"ifdef", "ifndef", "define", "macro"}
    BY <2>2 DEF IsIf, IsDirective, Directives, Conditional
  <2> QED BY <1>2, <1>3, <1>5, <2>3
<1> QED BY <1>4, <1>5

LEMMA NoLoneStep == ASSUME Steady PROVE ~Lone /\ ~Recursion
<1>1. PreprocessorInv
  BY DEF Steady
<1>2. ASSUME Lone PROVE FALSE
  <2>1. /\ todo # <<>> /\ Item.d \in {"endif", "else", "elifdef", "elifndef"} /\ Item.d \in accepted
        /\ stack = <<>> \/ state # "ifdef"
    BY <1>2 DEF Lone, At
  <2>2. state # "define"
    BY <1>1, <2>1 DEF PreprocessorInv, InFunction
  <2>3. state = "passthrough"
    <3> SUFFICES ASSUME state = "ifdef" PROVE FALSE
      BY <1>1, <2>2 DEF PreprocessorInv
    <3>1. PICK v, b, h : stack = Opened(v, b, h)
      BY <1>1 DEF PreprocessorInv, InConditional
    <3>2. Len(stack) = 1
      BY <3>1, OneEntry
    <3>3. stack # <<>>
      BY <3>2, EmptyIsSeq
    <3> QED BY <2>1, <3>3
  <2>4. Item.d \in Directives
    BY <2>1 DEF Directives, Conditional
  <2> QED BY <2>1, <2>3, <2>4, OutsideDirective
<1>3. ASSUME Recursion PROVE FALSE
  <2>1. /\ todo # <<>> /\ state = "passthrough" /\ Item.d \in Directives /\ Item.d \notin accepted
    BY <1>3 DEF Recursion, Ordinary
  <2>2. accepted = Initially
    BY <1>1, <2>1 DEF PreprocessorInv, Outside
  <2> QED BY <2>1, <2>2, OutsideDirective DEF Initially
<1> QED BY <1>2, <1>3

LEMMA Noted ==
  ASSUME NEW i \in Lines, source[i].d \in Directives \/ InMacro[i] \/ ~Alive(i) PROVE i \notin Kept
BY IsConditional DEF Kept, Alive, IsDirective, Directives

LEMMA WellNext ==
  ASSUME source' = source, symbols' = symbols, out' = out, failed' = failed, Read' = Read, Steady,
         \E c \in 1..(N + 1), e \in 0..N : Placed(c, e)'
  PROVE  IF failed' THEN Faulty ELSE Well'
<1>1. Accounts /\ ~failed
  BY DEF Steady, Well
<1>2. Accounts'
  BY <1>1, ReadsStay
<1>3. N' = N
  BY LinesSame
<1> QED BY <1>1, <1>2, <1>3 DEF Well

LEMMA IfdefStep ==
  ASSUME Steady, Ifdef, Item.path = <<>> PROVE IF failed' THEN Faulty ELSE Well'
<1>1. /\ todo # <<>> /\ Item.d \in {"ifdef", "ifndef"} /\ Item.d \in accepted
      /\ source' = source /\ macros' = macros /\ functions' = functions
      /\ symbols' = symbols /\ out' = out /\ failed' = failed /\ todo' = Tail(todo)
      /\ state' = "ifdef" /\ hungry' = TRUE
      /\ accepted' = {"endif", "else", "elifdef", "elifndef"}
      /\ stack' = Append(stack, Entry(Truth("ifdef"), <<>>, state, hungry, accepted))
  BY DEF Ifdef, At
<1>2. source \in Sources /\ OrderInv /\ Sound /\ Well /\ WellFormed /\ PreprocessorInv
  BY DEF Steady
<1>3. state = "passthrough" /\ Outside
  BY <1>1, <1>2 DEF PreprocessorInv, InConditional, InFunction
<1>4. Item.d \in Directives
  BY <1>1 DEF Directives, Conditional
<1>5. PICK p \in 1..(N + 1), q \in 0..N : Placed(p, q) /\ AtOutside(p, q)
  BY <1>1, <1>3, <1>4, OutsideDirective
<1>6. Item.path = <<>>
  OBVIOUS
<1>7. PICK i : i = Item.line
  OBVIOUS
<1>8. /\ i \in Lines /\ ~InMacro[i] /\ i - 1 \in 0..N /\ Item.d = source[i].d
      /\ macros = Meaning[i - 1].macros /\ FunctionsAre(functions, Meaning[i - 1].fns)
      /\ \E d \in 0..N :
              /\ Depth[d] = 0 /\ Left(p, q) = Left(i, d) /\ Tops(Tail(todo)) = Left(i + 1, d)
              /\ \/ IsIf(i) /\ d = i - 1
                 \/ Item.d \notin Conditional /\ i =< d /\ Alive(i)
  BY <1>1, <1>2, <1>5, <1>6, <1>7, OutsideHead
<1>9. /\ IsIf(i) /\ Depth[i - 1] = 0 /\ Left(p, q) = Left(i, i - 1)
      /\ Tops(Tail(todo)) = Left(i + 1, i - 1)
  BY <1>1, <1>8 DEF Conditional
<1>10. /\ OfSource(todo) /\ OfSource(Tail(todo)) /\ \A it \in Values(Tail(todo)) : OwnItem(it)
  BY <1>1, <1>2, <1>5, <1>6, OwnHead
<1>11. Items(todo) /\ Tops(todo) = Left(i, i - 1) /\ Taken = <<>> /\ SymbolsRead
  BY <1>2, <1>3, <1>5, <1>9 DEF OrderInv, Ordered, Placed, Taken, Well, Accounts
<1>12. symbols = Meaning[i - 1].symbols
  BY <1>2, <1>8, <1>10, <1>11, SymbolsAt
<1>13. PICK v : v = Truth("ifdef")
  OBVIOUS
<1>14. v = Holds(Meaning[i - 1], i)
  BY <1>1, <1>7, <1>8, <1>12, <1>13, TruthIs
<1>15. stack' = Opened(v, <<>>, hungry)
  BY <1>1, <1>3, <1>13, Pushed DEF Outside, Opened
<1>16. Collected' = <<>> /\ Top.value' = v
  BY <1>1, <1>15, CollectedNext, TopNext
<1>17. /\ Meaning[i].live = v /\ Meaning[i].taken = v
       /\ Meaning[i].macros = Meaning[i - 1].macros /\ Meaning[i].fns = Meaning[i - 1].fns
  <2>1. ~Defines(Meaning[i - 1], i) /\ ~DefinesFn(Meaning[i - 1], i)
    BY <1>9 DEF Defines, DefinesFn, IsIf, IsDirective
  <2> QED BY Zenon, <1>2, <1>8, <1>9, <1>14, <2>1, MeaningNext DEF Follows
<1>18. Depth[i] = 1
  BY <1>2, <1>8, <1>9, DepthIs
<1> DEFINE c == i + 1
<1>19. c \in 1..(N + 1) /\ i \in 0..N /\ i = c - 1 /\ i \in 1..i /\ c \in 2..c /\ c =< i + 1
       /\ i = c - 1
  <2>1. i \in 1..N /\ N \in Nat
    BY <1>2, <1>8, SourceFacts
  <2> QED BY <2>1
<1>20. \A j \in c..i : FALSE
  BY <1>19
<1>21. OfSource(<<>>) /\ Tops(<<>>) = {}
  BY NothingKeeps, ValuesEmpty DEF Tops
<1>22. IsDirective(c - 1, Conditional)
  BY <1>9, <1>19, IsConditional
<1>23. macros' = Meaning[c - 1].macros /\ FunctionsAre(functions', Meaning[c - 1].fns)
  BY <1>1, <1>8, <1>17, <1>19
<1>24. v \in BOOLEAN
  BY <1>14, HoldsBoolean
<1>25. AtConditional(c, i)'
  <2>1. OfSource(todo') /\ OfSource(Collected')
    BY <1>1, <1>10, <1>16, <1>21
  <2>2. \A j \in (i + 1)..i : ~IsIf(j)
    BY <1>20
  <2>3. IF v THEN hungry' = Meaning[i].live ELSE hungry' /\ ~Meaning[i].live
    BY <1>1, <1>17
  <2>4. accepted' # {"endif"}
    <3>1. "else" \in accepted' /\ "else" \notin {"endif"}
      BY <1>1
    <3> QED BY <3>1
  <2>5. IF v THEN Tops(Collected') = {j \in c..i : Alive(j)} ELSE \A j \in c..i : ~Alive(j)
    BY <1>16, <1>20, <1>21
  <2>6. hungry' /\ accepted' = {"endif"} => \E j \in i..i : IsDirective(j, {"else"})
    BY <2>4
  <2>7. source' = source /\ state' = "ifdef" /\ v = Meaning[i].taken
    BY <1>1, <1>17
  <2> HIDE DEF c
  <2> QED
    BY <1>9, <1>16, <1>18, <1>19, <1>22, <1>23, <2>1, <2>2, <2>3, <2>5, <2>6, <2>7, ConditionalNext, SMTT(30)
<1>26. Tops(todo') = Left(c, i)
  <2>1. \A j \in Lines : j >= c => j > i - 1 /\ j > i
    BY <1>2, <1>8, SourceFacts
  <2>2. Left(c, i - 1) = Left(c, i)
    BY <2>1 DEF Left
  <2> QED BY <1>1, <1>9, <2>2
<1> HIDE DEF c
<1>27. Placed(c, i)'
  BY <1>1, <1>10, <1>16, <1>19, <1>25, <1>26, ValuesEmpty, PlacedNext
<1>28. Read' = Read
  <2>1. Item.line \notin Kept
    BY <1>4, <1>7, <1>8, Noted
  <2>2. Taken' = <<>> 
    BY <1>16 DEF Taken
  <2>3. \A k \in Expanded : WaysOn(Taken', k) <=> WaysOn(Taken, k)
    BY <1>11, <2>2
  <2> QED BY <1>1, <1>2, <1>6, <2>1, <2>3, SkipReads
<1> QED BY <1>1, <1>19, <1>27, <1>28, WellNext

\* A definition that comes next is one that counts.
LEMMA DefinitionHead ==
  ASSUME Steady, todo # <<>>, state = "passthrough", Item.d \in {"define", "macro"},
         NEW i, i = Item.line
  PROVE  /\ i \in Lines /\ ~InMacro[i] /\ i - 1 \in 0..N /\ Item.d = source[i].d
         /\ Item.more = source[i].more /\ Alive(i) /\ Meaning[i - 1].live /\ i \notin Kept
         /\ macros = Meaning[i - 1].macros /\ FunctionsAre(functions, Meaning[i - 1].fns)
         /\ OfSource(Tail(todo)) /\ \A it \in Values(Tail(todo)) : OwnItem(it)
         /\ Item.path = <<>>
         /\ \E d \in 0..N : Depth[d] = 0 /\ Tops(Tail(todo)) = Left(i + 1, d) /\ i =< d
<1>1. source \in Sources /\ OrderInv /\ Sound /\ Well /\ WellFormed /\ PreprocessorInv
  BY DEF Steady
<1>2. Item.d \in Directives /\ Item.d \notin Conditional
  BY DEF Directives, Conditional
<1>3. PICK p \in 1..(N + 1), q \in 0..N : Placed(p, q) /\ AtOutside(p, q)
  BY <1>2, OutsideDirective
<1>4. Item.path = <<>>
  BY <1>2, OutsideDirective DEF Ifs, Conditional
<1>5. /\ i \in Lines /\ ~InMacro[i] /\ i - 1 \in 0..N
      /\ Item.d = source[i].d /\ Item.more = source[i].more
      /\ macros = Meaning[i - 1].macros /\ FunctionsAre(functions, Meaning[i - 1].fns)
      /\ \E d \in 0..N :
           /\ Depth[d] = 0 /\ Left(p, q) = Left(i, d) /\ Tops(Tail(todo)) = Left(i + 1, d)
           /\ \/ IsIf(i) /\ d = i - 1
              \/ Item.d \notin Conditional /\ i =< d /\ Alive(i)
  BY <1>1, <1>3, <1>4, OutsideHead
<1>6. ~IsIf(i)
  BY <1>5 DEF IsIf, IsDirective
<1>7. Alive(i) /\ \E d \in 0..N : Depth[d] = 0 /\ Tops(Tail(todo)) = Left(i + 1, d) /\ i =< d
  BY <1>5, <1>6
<1>8. OfSource(Tail(todo)) /\ \A it \in Values(Tail(todo)) : OwnItem(it)
  BY <1>1, <1>3, <1>4, OwnHead
<1>9. Meaning[i - 1].live
  <2>1. ~IsIf(i) /\ ~IsElse(i) /\ ~IsEndif(i)
    BY <1>5 DEF IsIf, IsElse, IsEndif, IsDirective
  <2>2. Meaning[i].live = Meaning[i - 1].live
    BY Zenon, <1>1, <1>5, <2>1, MeaningNext DEF Follows
  <2> QED BY <1>7, <2>2 DEF Alive
<1>10. i \notin Kept
  BY <1>2, <1>5, Noted
<1> QED BY <1>4, <1>5, <1>7, <1>8, <1>9, <1>10

LEMMA DefinitionStep ==
  ASSUME Steady, todo # <<>>, state = "passthrough", Item.d \in {"define", "macro"},
         NEW i, i = Item.line, ~(Item.d = "macro" /\ Item.more),
         source' = source, state' = "passthrough", todo' = Tail(todo),
         symbols' = symbols, out' = out, failed' = failed,
         macros' = Meaning[i].macros, FunctionsAre(functions', Meaning[i].fns)
  PROVE  IF failed' THEN Faulty ELSE Well'
<1>1. source \in Sources /\ OrderInv /\ Sound /\ Well /\ WellFormed
  BY DEF Steady
<1>2. /\ i \in Lines /\ ~InMacro[i] /\ i - 1 \in 0..N /\ Item.d = source[i].d
      /\ Item.more = source[i].more /\ i \notin Kept
      /\ \A it \in Values(Tail(todo)) : OwnItem(it)
      /\ Item.path = <<>>
      /\ \E d \in 0..N : Depth[d] = 0 /\ Tops(Tail(todo)) = Left(i + 1, d) /\ i =< d
  BY DefinitionHead
<1>3. PICK d \in 0..N : Depth[d] = 0 /\ Tops(Tail(todo)) = Left(i + 1, d) /\ i =< d
  BY <1>2
<1>4. N \in Nat /\ i \in 1..N /\ Lines = 1..N
  BY <1>1, <1>2, SourceFacts
<1> DEFINE c == i + 1
<1>5. c \in 1..(N + 1) /\ c =< d + 1 /\ c - 1 = i
  BY <1>3, <1>4
<1>6. c =< N => ~InMacro[c]
  <2> SUFFICES ASSUME c =< N PROVE ~InMacro[c]
    OBVIOUS
  <2>1. i + 1 \in Lines
    BY <1>4
  <2>2. InMacro[i + 1] <=> source[i].more /\ (InMacro[i] \/ source[i].d = "macro")
    BY <1>1, <1>2, <2>1, InMacroIs
  <2> QED BY <1>2, <2>2
<1>a. Tops(todo') = Left(c, d)
  BY <1>3
<1> HIDE DEF c
<1>7. AtOutside(c, d)'
  BY <1>3, <1>5, <1>6, OutsideNext
<1>8. state' # "ifdef" /\ \A it \in Values(todo') : OwnItem(it)
  BY <1>2
<1>9. Placed(c, d)'
  BY <1>5, <1>7, <1>8, <1>a, PlacedNext
<1>10. Read' = Read
  <2>1. Taken = <<>> /\ Taken' = <<>>
    BY DEF Taken
  <2>2. \A k \in Expanded : WaysOn(Taken', k) <=> WaysOn(Taken, k)
    BY <2>1
  <2> QED BY <1>1, <1>2, <2>2, SkipReads
<1> QED BY <1>5, <1>9, <1>10, WellNext

LEMMA DefineStep == ASSUME Steady, Define PROVE IF failed' THEN Faulty ELSE Well'
<1>1. /\ todo # <<>> /\ Item.d = "define" /\ Item.d \in accepted
      /\ source' = source /\ functions' = functions /\ macros' = Put(macros, Line.x, Standing(Line.args[1], macros))
      /\ symbols' = symbols /\ out' = out /\ failed' = failed /\ todo' = Tail(todo)
      /\ state' = state
  BY DEF Define, At, globals
<1>2. source \in Sources /\ PreprocessorInv
  BY DEF Steady
<1>3. state = "passthrough"
  BY <1>1, <1>2 DEF PreprocessorInv, InConditional, InFunction
<1>4. PICK i : i = Item.line
  OBVIOUS
<1>5. /\ i \in Lines /\ ~InMacro[i] /\ Item.d = source[i].d /\ Meaning[i - 1].live
      /\ macros = Meaning[i - 1].macros /\ FunctionsAre(functions, Meaning[i - 1].fns)
  BY <1>1, <1>3, <1>4, DefinitionHead
<1>6. Defines(Meaning[i - 1], i) /\ ~DefinesFn(Meaning[i - 1], i)
  BY <1>1, <1>5 DEF Defines, DefinesFn, IsDirective
<1>7. Line.x = source[i].x /\ Line.args = source[i].args
  BY <1>4 DEF Line
<1>8. /\ Meaning[i].macros = Put(Meaning[i - 1].macros, source[i].x,
                                Standing(source[i].args[1], Meaning[i - 1].macros))
      /\ Meaning[i].fns = Meaning[i - 1].fns
  BY Zenon, <1>2, <1>5, <1>6, MeaningNext DEF Follows
<1>9. macros' = Meaning[i].macros /\ FunctionsAre(functions', Meaning[i].fns)
  BY <1>1, <1>5, <1>7, <1>8
<1>10. Item.d \in {"define", "macro"} /\ ~(Item.d = "macro" /\ Item.more) /\ state' = "passthrough"
  BY <1>1, <1>3
<1> QED BY <1>1, <1>3, <1>4, <1>9, <1>10, DefinitionStep

LEMMA FunctionDefined ==
  ASSUME NEW fns, FunctionsAre(functions, fns), NEW m, NEW b, Whole(m, b)
  PROVE  FunctionsAre(Function(m, b), Put(fns, source[m].x, m))
<1> DEFINE x == source[m].x
           e == [params |-> ParamsOf(m), body |-> b]
           f == Put(functions, x, e)
           g == Put(fns, x, m)
<1>1. Function(m, b) = f
  BY DEF Function, ParamsOf
<1>2. DOMAIN functions = DOMAIN fns
  BY DEF FunctionsAre
<1>3. DOMAIN f = DOMAIN g
  BY <1>2 DEF Put
<1>a. e.params = ParamsOf(m) /\ e.body = b
  OBVIOUS
<1> HIDE DEF e, x
<1>b. f[x] = e /\ g[x] = m
  BY PutHas
<1>c. /\ \A y \in DOMAIN functions : y # x => f[y] = functions[y]
      /\ \A y \in DOMAIN fns : y # x => g[y] = fns[y]
  BY PutHas
<1>d. DOMAIN g = DOMAIN fns \cup {x}
  BY DEF Put
<1> HIDE DEF f, g
<1>4. ASSUME NEW y \in DOMAIN g PROVE f[y].params = ParamsOf(g[y]) /\ Whole(g[y], f[y].body)
  <2>1. CASE y = x
    <3>1. f[y] = e /\ g[y] = m
      BY <1>b, <2>1
    <3> QED BY <1>a, <3>1
  <2>2. CASE y # x
    <3>1. y \in DOMAIN fns
      BY <1>d, <2>2
    <3>2. f[y] = functions[y] /\ g[y] = fns[y]
      BY <1>2, <1>c, <2>2, <3>1
    <3> QED BY <3>1, <3>2 DEF FunctionsAre
  <2> QED BY <2>1, <2>2
<1>5. FunctionsAre(f, g)
  BY <1>3, <1>4 DEF FunctionsAre
<1> QED BY <1>1, <1>5 DEF g, x

LEMMA DefineFunctionStep ==
  ASSUME Steady, DefineFunction PROVE IF failed' THEN Faulty ELSE Well'
<1>1. /\ todo # <<>> /\ Item.d = "macro" /\ Item.d \in accepted
      /\ source' = source /\ macros' = macros
      /\ symbols' = symbols /\ out' = out /\ failed' = failed /\ todo' = Tail(todo)
  BY DEF DefineFunction, At
<1>2. source \in Sources /\ PreprocessorInv /\ OrderInv /\ WellFormed
  BY DEF Steady
<1>3. state = "passthrough" /\ Outside
  BY <1>1, <1>2 DEF PreprocessorInv, InConditional, InFunction
<1>4. PICK i : i = Item.line
  OBVIOUS
<1>5. /\ i \in Lines /\ ~InMacro[i] /\ i - 1 \in 0..N /\ Item.d = source[i].d
      /\ Item.more = source[i].more /\ Alive(i) /\ Meaning[i - 1].live /\ i \notin Kept
      /\ macros = Meaning[i - 1].macros /\ FunctionsAre(functions, Meaning[i - 1].fns)
      /\ OfSource(Tail(todo)) /\ \A it \in Values(Tail(todo)) : OwnItem(it)
      /\ Item.path = <<>>
      /\ \E d \in 0..N : Depth[d] = 0 /\ Tops(Tail(todo)) = Left(i + 1, d) /\ i =< d
  BY <1>1, <1>3, <1>4, DefinitionHead
<1>6. DefinesFn(Meaning[i - 1], i) /\ ~Defines(Meaning[i - 1], i)
  BY <1>1, <1>5 DEF Defines, DefinesFn, IsDirective
<1>7. /\ Meaning[i].fns = Put(Meaning[i - 1].fns, source[i].x, i)
      /\ Meaning[i].macros = Meaning[i - 1].macros
  BY Zenon, <1>2, <1>5, <1>6, MeaningNext DEF Follows
<1>8. CASE ~Item.more
  <2> DEFINE a == [Item EXCEPT !.d = "ins"]
  <2>1. functions' = Function(i, <<a>>) /\ state' = state
    BY <1>4, <1>8 DEF DefineFunction, globals
  <2>2. a.line = i /\ a.d = "ins"
    <3>1. IsItem(Item)
      BY <1>1, <1>2, Popped
    <3>2. DOMAIN Item = {"line", "d", "more", "over", "path"}
      BY <3>1 DEF IsItem
    <3> QED BY <1>4, <3>2
  <2> HIDE DEF a
  <2>3. DOMAIN <<a>> = {1} /\ <<a>>[1] = a
    OBVIOUS
  <2>4. Whole(i, <<a>>)
    BY <1>5, <1>8, <2>2, <2>3 DEF Whole
  <2>5. macros' = Meaning[i].macros /\ FunctionsAre(functions', Meaning[i].fns)
    BY <1>1, <1>5, <1>7, <2>1, <2>4, FunctionDefined
  <2>6. Item.d \in {"define", "macro"} /\ ~(Item.d = "macro" /\ Item.more)
        /\ state' = "passthrough"
    BY <1>1, <1>3, <1>8, <2>1
  <2> QED BY <1>1, <1>3, <1>4, <2>5, <2>6, DefinitionStep
<1>9. CASE Item.more
  <2>1. /\ stack' = Append(stack, Entry(Item.line, <<>>, state, hungry, accepted))
        /\ state' = "define" /\ functions' = functions
    BY <1>9 DEF DefineFunction
  <2>2. stack' = Opened(i, <<>>, hungry)
    BY <1>3, <1>4, <2>1, Pushed DEF Outside, Opened
  <2>3. Collected' = <<>> /\ Top.value' = i
    BY <2>1, <2>2, CollectedNext, TopNext
  <2>4. PICK d \in 0..N : Depth[d] = 0 /\ Tops(Tail(todo)) = Left(i + 1, d) /\ i =< d
    BY <1>5
  <2>5. N \in Nat /\ i \in 1..N /\ Lines = 1..N
    BY <1>2, <1>5, SourceFacts
  <2>6. i < N /\ source[i].more
    BY <1>2, <1>5, <1>9 DEF WellFormed, N
  <2> DEFINE c == i + 1
  <2>7. /\ c \in Lines /\ c \in 1..(N + 1) /\ c =< N /\ c =< d + 1 /\ i \in 1..(c - 1) /\ c - 1 = i
        /\ c - 1 - i = 0
    BY <2>4, <2>5, <2>6
  <2>8. InMacro[c] /\ Alive(c)
    <3>1. InMacro[i + 1]
      BY <1>1, <1>2, <1>5, <2>6, <2>7, InMacroIs
    <3>2. Alive(c) <=> Alive(c - 1)
      BY <1>2, <2>7, <3>1, InMacroFollows
    <3> QED BY <1>5, <2>7, <3>1, <3>2
  <2>9. c \in Left(c, d)
    BY <2>7, <2>8 DEF Left
  <2>10. \A j \in (i + 1)..c : InMacro[j]
    BY <2>5, <2>8
  <2>a. Tops(todo') = Left(c, d)
    BY <1>1, <2>4
  <2>11. IsDirective(i, {"macro"})
    BY <1>1, <1>5 DEF IsDirective
  <2> HIDE DEF c
  <2>12. DOMAIN <<>> = 1..(c - 1 - i) /\ \A k \in DOMAIN <<>> : FALSE
    BY <2>7, EmptyIsSeq
  <2>13. OfSource(todo') /\ macros' = Meaning[i - 1].macros
         /\ FunctionsAre(functions', Meaning[i - 1].fns)
    BY <1>1, <1>5, <2>1
  <2>14. AtFunction(c, d)'
    BY ZenonT(30), <1>1, <1>5, <2>1, <2>3, <2>4, <2>6, <2>7, <2>9, <2>10, <2>11, <2>12, <2>13, FunctionNext
  <2>15. state' # "ifdef" /\ \A it \in Values(todo') : OwnItem(it)
    BY <1>1, <1>5, <2>1
  <2>16. Placed(c, d)'
    BY <1>1, <2>7, <2>14, <2>15, <2>a, PlacedNext
  <2>17. Read' = Read
    <3>1. Taken = <<>> /\ Taken' = <<>>
      BY <1>3, <2>1 DEF Taken
    <3>2. \A k \in Expanded : WaysOn(Taken', k) <=> WaysOn(Taken, k)
      BY <3>1
    <3> QED BY <1>1, <1>2, <1>4, <1>5, <3>2, SkipReads
  <2> QED BY <1>1, <2>7, <2>16, <2>17, WellNext
<1> QED BY <1>8, <1>9

-----------------------------------------------------------------------------
(* The steps in a macro function.                                          *)

LEMMA RangeEnd == \A a, b \in Nat : 1..a = 1..b => a = b
<1> SUFFICES ASSUME NEW a \in Nat, NEW b \in Nat, 1..a = 1..b PROVE a = b
  OBVIOUS
<1>1. CASE a > b
  <2>1. a \in 1..a /\ a \notin 1..b
    BY <1>1
  <2> QED BY <2>1
<1>2. CASE b > a
  <2>1. b \in 1..b /\ b \notin 1..a
    BY <1>2
  <2> QED BY <2>1
<1> QED BY <1>1, <1>2

\* What the next line of a macro function leaves.
LEMMA StretchLeft ==
  ASSUME source \in Sources, NEW c \in Lines, NEW e \in 0..N, c =< e + 1, Depth[e] = 0,
         InMacro[c], c \in Left(c, e)
  PROVE  \E d \in 0..N :
           /\ c =< d /\ Depth[d] = 0 /\ Left(c, e) \ {c} = Left(c + 1, d)
           /\ c + 1 \in Lines /\ InMacro[c + 1] => c + 1 \in Left(c + 1, d)
<1>1. N \in Nat /\ Lines = 1..N
  BY SourceFacts
<1>2. Left(c, e) \ {c} = Left(c + 1, e)
  BY LeftNext
<1>3. CASE c =< e
  <2>1. Alive(c)
    BY <1>1, <1>3 DEF Left
  <2>2. ASSUME c + 1 \in Lines, InMacro[c + 1] PROVE c + 1 \in Left(c + 1, e)
    <3> DEFINE k == c + 1
    <3>1. k \in Lines /\ InMacro[k] /\ k - 1 = c /\ k >= k
      BY <1>1, <2>2
    <3> HIDE DEF k
    <3>2. Alive(k)
      BY <2>1, <3>1, InMacroFollows
    <3>3. k \in Left(k, e)
      BY <3>1, <3>2 DEF Left
    <3> QED BY <3>3 DEF k
  <2> QED BY <1>2, <1>3, <2>2
<1>4. CASE c = e + 1
  <2>1. c - 1 = e /\ c \in 0..N
    BY <1>1, <1>4
  <2>2. Depth[c] = 0
    BY <2>1, DepthIs
  <2>3. \A j \in Lines : j >= c + 1 => j > e /\ j > c
    BY <1>1, <1>4
  <2>4. Left(c + 1, e) = Left(c + 1, c)
    BY <2>3 DEF Left
  <2>5. c + 1 \in Lines => c + 1 \in Left(c + 1, c)
    BY <1>1 DEF Left
  <2> QED BY <1>1, <1>2, <2>1, <2>2, <2>4, <2>5
<1> QED BY <1>1, <1>3, <1>4

\* A line of a macro function that is being collected: the lines from m + 1 on
\* have been.
Collects(c, m) ==
  /\ m \in 1..(c - 1) /\ Top.value = m /\ IsDirective(m, {"macro"}) /\ source[m].more /\ Alive(m)
  /\ \A j \in (m + 1)..c : InMacro[j]
  /\ ReadTo(m)
  /\ DOMAIN Collected = 1..(c - 1 - m)
  /\ \A k \in DOMAIN Collected : Collected[k].line = m + k /\ Collected[k].d = source[m + k].d

LEMMA FunctionHead ==
  ASSUME Steady, todo # <<>>, state = "define", NEW c, c = Item.line
  PROVE  /\ c \in Lines /\ InMacro[c] /\ c \notin Kept
         /\ Item.path = <<>> /\ Item.d = source[c].d /\ Item.more = source[c].more
         /\ OfSource(Tail(todo)) /\ \A it \in Values(Tail(todo)) : OwnItem(it)
         /\ \E m : Collects(c, m)
         /\ \E d \in 0..N :
              /\ c =< d /\ Depth[d] = 0 /\ Tops(Tail(todo)) = Left(c + 1, d)
              /\ c + 1 \in Lines /\ InMacro[c + 1] => c + 1 \in Left(c + 1, d)
<1>1. source \in Sources /\ OrderInv /\ Sound /\ Well /\ WellFormed
  BY DEF Steady
<1>2. PICK p \in 1..(N + 1), e \in 0..N : Placed(p, e)
  BY <1>1 DEF Well
<1>3. AtFunction(p, e) /\ p =< e + 1
  BY <1>2 DEF Placed, AtOutside, AtConditional
<1>4. Item.path = <<>>
  BY <1>1, Popped
<1>5. /\ OfSource(Tail(todo)) /\ OwnItem(Item) /\ \A it \in Values(Tail(todo)) : OwnItem(it)
      /\ c \in Left(p, e) /\ \A j \in Left(p, e) : j >= c
      /\ Tops(Tail(todo)) = Left(p, e) \ {c}
  BY <1>1, <1>2, <1>4, OwnHead
<1>6. p \in Left(p, e) /\ Depth[e] = 0
  BY <1>3 DEF AtFunction
<1>7. c = p /\ c \in Lines
  <2>1. p >= c /\ c >= p /\ c \in Lines
    BY <1>5, <1>6 DEF Left
  <2>2. c \in Int /\ p \in Int
    BY <1>1, <2>1, SourceFacts
  <2> QED BY <2>1, <2>2
<1>8. \E m : Collects(c, m)
  BY <1>3, <1>7 DEF AtFunction, Collects
<1>9. InMacro[c]
  <2>1. PICK m : Collects(c, m)
    BY <1>8
  <2>2. c \in (m + 1)..c
    BY <1>1, <1>2, <1>7, <2>1 DEF Collects
  <2> QED BY <2>1, <2>2 DEF Collects
<1>10. c \notin Kept
  BY <1>7, <1>9, Noted
<1>11. Item.d = source[c].d /\ Item.more = source[c].more
  BY <1>5 DEF OwnItem
<1>12. \E d \in 0..N :
              /\ c =< d /\ Depth[d] = 0 /\ Left(c, e) \ {c} = Left(c + 1, d)
              /\ c + 1 \in Lines /\ InMacro[c + 1] => c + 1 \in Left(c + 1, d)
  BY <1>1, <1>3, <1>5, <1>6, <1>7, <1>9, StretchLeft
<1> QED BY <1>4, <1>5, <1>7, <1>8, <1>9, <1>10, <1>11, <1>12

\* One more line has been collected.
LEMMA CollectsOne ==
  ASSUME source \in Sources, NEW c \in Lines, NEW m, Collects(c, m), IsSeq(Collected),
         NEW a, a.line = c, a.d = source[c].d, NEW q, q = Append(Collected, a)
  PROVE  /\ DOMAIN q = 1..(c - m)
         /\ \A k \in DOMAIN q : q[k].line = m + k /\ q[k].d = source[m + k].d
<1>1. N \in Nat /\ c \in 1..N /\ m \in 1..(c - 1)
  BY SourceFacts DEF Collects
<1> DEFINE n == Len(Collected)
<1>2. /\ DOMAIN Collected = 1..(c - 1 - m)
      /\ \A k \in DOMAIN Collected : Collected[k].line = m + k /\ Collected[k].d = source[m + k].d
  BY DEF Collects
<1>3. /\ DOMAIN q = 1..(n + 1) /\ \A k \in DOMAIN Collected : q[k] = Collected[k]
      /\ q[n + 1] = a /\ n \in Nat /\ DOMAIN Collected = 1..n
  BY AppendSeq, SeqFacts
<1> HIDE DEF n
<1>4. n = c - 1 - m
  <2>1. c - 1 - m \in Nat
    BY <1>1
  <2> QED BY <1>2, <1>3, <2>1, RangeEnd
<1>5. n + 1 = c - m /\ m + (c - m) = c
  BY <1>1, <1>4
<1>6. ASSUME NEW k \in DOMAIN q PROVE q[k].line = m + k /\ q[k].d = source[m + k].d
  <2>1. CASE k = n + 1
    BY <1>3, <1>5, <2>1
  <2>2. CASE k # n + 1
    <3>1. k \in DOMAIN Collected
      BY <1>3, <2>2
    <3> QED BY <1>2, <1>3, <3>1
  <2> QED BY <2>1, <2>2
<1> QED BY <1>3, <1>5, <1>6

LEMMA EatFunctionStep ==
  ASSUME Steady, Eat, state = "define" PROVE IF failed' THEN Faulty ELSE Well'
<1>1. /\ todo # <<>> /\ Item.more /\ state' = state /\ stack' = Eaten
      /\ source' = source /\ macros' = macros /\ functions' = functions
      /\ symbols' = symbols /\ out' = out /\ failed' = failed /\ todo' = Tail(todo)
  BY DEF Eat, Ordinary
<1>2. source \in Sources /\ PreprocessorInv /\ OrderInv /\ WellFormed
  BY DEF Steady
<1>3. PICK c : c = Item.line
  OBVIOUS
<1>4. /\ c \in Lines /\ InMacro[c] /\ c \notin Kept
      /\ Item.path = <<>> /\ Item.d = source[c].d /\ Item.more = source[c].more
      /\ OfSource(Tail(todo)) /\ \A it \in Values(Tail(todo)) : OwnItem(it)
      /\ \E m : Collects(c, m)
      /\ \E d \in 0..N :
           /\ c =< d /\ Depth[d] = 0 /\ Tops(Tail(todo)) = Left(c + 1, d)
           /\ c + 1 \in Lines /\ InMacro[c + 1] => c + 1 \in Left(c + 1, d)
  BY <1>1, <1>3, FunctionHead
<1>5. PICK m : Collects(c, m)
  BY <1>4
<1>6. PICK d \in 0..N :
           /\ c =< d /\ Depth[d] = 0 /\ Tops(Tail(todo)) = Left(c + 1, d)
           /\ c + 1 \in Lines /\ InMacro[c + 1] => c + 1 \in Left(c + 1, d)
  BY <1>4
<1>7. N \in Nat /\ c \in 1..N /\ Lines = 1..N
  BY <1>2, <1>4, SourceFacts
<1>8. c < N
  BY <1>1, <1>2, <1>4 DEF WellFormed, N
<1>9. m \in 1..(c - 1)
  BY <1>5 DEF Collects
<1> DEFINE k == c + 1
<1>10. /\ k \in Lines /\ k \in 1..(N + 1) /\ k =< N /\ k =< d + 1 /\ m \in 1..(k - 1)
       /\ k - 1 - m = c - m
  BY <1>6, <1>7, <1>8, <1>9
<1>11. InMacro[k]
  BY <1>1, <1>2, <1>4, <1>10, InMacroIs
<1>12. k \in Left(k, d)
  BY <1>6, <1>10, <1>11
<1>13. \A j \in (m + 1)..k : InMacro[j]
  <2>1. \A j \in (m + 1)..k : j \in (m + 1)..c \/ j = k
    BY <1>7, <1>9
  <2> QED BY <1>5, <1>11, <2>1 DEF Collects
<1>14. PICK v, h : stack = Opened(v, Collected, h)
  BY <1>2, CollectedInStack
<1>15. stack' = Opened(v, Append(Collected, EatenItem), h) /\ v = m
  <2>1. Eaten = Opened(v, Append(Collected, EatenItem), h) /\ Top.value = v
    BY <1>14, OneEntry
  <2> QED BY <1>1, <1>5, <2>1 DEF Collects
<1>16. PICK q : q = Append(Collected, EatenItem)
  OBVIOUS
<1>17. Collected' = q /\ Top.value' = m
  BY <1>1, <1>15, <1>16, CollectedNext, TopNext
<1>18. EatenItem.line = c /\ EatenItem.d = source[c].d
  <2>1. IsItem(Item)
    BY <1>1, <1>2, Popped
  <2>2. DOMAIN Item = {"line", "d", "more", "over", "path"}
    BY <2>1 DEF IsItem
  <2> QED BY <1>3, <1>4, <2>2 DEF EatenItem
<1>19. IsSeq(Collected)
  BY <1>2 DEF OrderInv, Ordered, Items
<1>c. DOMAIN q = 1..(c - m) /\ \A n \in DOMAIN q : q[n].line = m + n /\ q[n].d = source[m + n].d
  BY <1>2, <1>4, <1>5, <1>16, <1>18, <1>19, CollectsOne
<1>20. DOMAIN q = 1..(k - 1 - m) /\ \A n \in DOMAIN q : q[n].line = m + n /\ q[n].d = source[m + n].d
  BY Zenon, <1>10, <1>c
<1>a. Tops(todo') = Left(k, d)
  BY <1>1, <1>6
<1> HIDE DEF k
<1>21. /\ IsDirective(m, {"macro"}) /\ source[m].more /\ Alive(m)
       /\ macros' = Meaning[m - 1].macros /\ FunctionsAre(functions', Meaning[m - 1].fns)
  BY <1>1, <1>5 DEF Collects, ReadTo
<1>b. source' = source /\ state' = "define" /\ OfSource(todo') /\ Depth[d] = 0 /\ d \in 0..N
  BY <1>1, <1>4, <1>6
<1>22. AtFunction(k, d)'
  <2>1. /\ source' = source /\ k \in 1..(N + 1) /\ d \in 0..N
        /\ state' = "define" /\ Depth[d] = 0 /\ k =< N /\ k \in Left(k, d) /\ OfSource(todo')
        /\ m \in 1..(k - 1) /\ Top.value' = m
        /\ DOMAIN q = 1..(k - 1 - m)
        /\ \A n \in DOMAIN q : q[n].line = m + n /\ q[n].d = source[m + n].d
    BY Zenon, <1>b, <1>10, <1>12, <1>17, <1>20
  <2> QED BY ONLY <2>1, <1>13, <1>17, <1>21, FunctionNext
<1>23. state' # "ifdef" /\ \A it \in Values(todo') : OwnItem(it)
  BY <1>1, <1>4
<1>24. Placed(k, d)'
  BY <1>1, <1>10, <1>22, <1>23, <1>a, PlacedNext
<1>25. Read' = Read
  <2>1. Taken = <<>> /\ Taken' = <<>>
    BY <1>1 DEF Taken
  <2>2. \A w \in Expanded : WaysOn(Taken', w) <=> WaysOn(Taken, w)
    BY <2>1
  <2> QED BY <1>1, <1>2, <1>3, <1>4, <2>2, SkipReads
<1> QED BY <1>1, <1>10, <1>24, <1>25, WellNext

LEMMA EatLastStep == ASSUME Steady, EatLast PROVE IF failed' THEN Faulty ELSE Well'
<1>1. /\ todo # <<>> /\ ~Item.more /\ state = "define"
      /\ functions' = Function(Top.value, Append(Top.body, Item)) /\ Restore(Top)
      /\ source' = source /\ macros' = macros
      /\ symbols' = symbols /\ out' = out /\ failed' = failed /\ todo' = Tail(todo)
  BY DEF EatLast, Ordinary
<1>2. source \in Sources /\ PreprocessorInv /\ OrderInv /\ WellFormed
  BY DEF Steady
<1>3. PICK c : c = Item.line
  OBVIOUS
<1>4. /\ c \in Lines /\ InMacro[c] /\ c \notin Kept
      /\ Item.path = <<>> /\ Item.d = source[c].d /\ Item.more = source[c].more
      /\ OfSource(Tail(todo)) /\ \A it \in Values(Tail(todo)) : OwnItem(it)
      /\ \E m : Collects(c, m)
      /\ \E d \in 0..N :
           /\ c =< d /\ Depth[d] = 0 /\ Tops(Tail(todo)) = Left(c + 1, d)
           /\ c + 1 \in Lines /\ InMacro[c + 1] => c + 1 \in Left(c + 1, d)
  BY <1>1, <1>3, FunctionHead
<1>5. PICK m : Collects(c, m)
  BY <1>4
<1>6. PICK d \in 0..N : c =< d /\ Depth[d] = 0 /\ Tops(Tail(todo)) = Left(c + 1, d)
  BY <1>4
<1>7. N \in Nat /\ c \in 1..N /\ Lines = 1..N
  BY <1>2, <1>4, SourceFacts
<1>8. m \in 1..(c - 1) /\ m \in Lines /\ m - 1 \in 0..N
  BY <1>5, <1>7 DEF Collects
<1>9. Top.body = Collected /\ state' = "passthrough"
  BY <1>1, <1>2, CollectedInStack DEF Restore
<1>10. PICK q : q = Append(Collected, Item)
  OBVIOUS
<1>11. functions' = Function(m, q)
  BY <1>1, <1>5, <1>9, <1>10 DEF Collects
<1>12. IsSeq(Collected)
  BY <1>2 DEF OrderInv, Ordered, Items
<1>13. DOMAIN q = 1..(c - m) /\ \A n \in DOMAIN q : q[n].line = m + n /\ q[n].d = source[m + n].d
  BY <1>2, <1>3, <1>4, <1>5, <1>10, <1>12, CollectsOne
<1> DEFINE k == c + 1
<1>14. k \in 1..(N + 1) /\ k =< d + 1 /\ k - 1 = c
  BY <1>6, <1>7
<1>15. k =< N => ~InMacro[k]
  <2> SUFFICES ASSUME k =< N PROVE ~InMacro[k]
    OBVIOUS
  <2>1. k \in Lines
    BY <1>7
  <2> QED BY <1>1, <1>2, <1>4, <2>1, InMacroIs
<1>16. /\ IsDirective(m, {"macro"}) /\ source[m].more /\ Alive(m)
       /\ \A j \in (m + 1)..c : InMacro[j]
       /\ macros = Meaning[m - 1].macros /\ FunctionsAre(functions, Meaning[m - 1].fns)
  BY <1>5 DEF Collects, ReadTo
<1>a. Tops(todo') = Left(k, d)
  BY <1>1, <1>6
<1>17. BodyOf(m) = (m + 1)..c
  <2>1. BodyOf(m) = {j \in Lines : j > m /\ \A i \in (m + 1)..j : InMacro[i]}
    BY <1>16 DEF BodyOf
  <2>2. ASSUME NEW j \in BodyOf(m) PROVE j \in (m + 1)..c
    <3>1. j \in 1..N /\ j > m /\ \A i \in (m + 1)..j : InMacro[i]
      BY <1>7, <2>1
    <3>2. ASSUME j > c PROVE FALSE
      <4>1. k \in (m + 1)..j /\ k =< N
        BY <1>7, <1>8, <3>1, <3>2
      <4> QED BY <1>15, <3>1, <4>1
    <3> QED BY <1>7, <1>8, <3>1, <3>2
  <2>3. ASSUME NEW j \in (m + 1)..c PROVE j \in BodyOf(m)
    <3>1. j \in Lines /\ j > m /\ \A i \in (m + 1)..j : i \in (m + 1)..c
      BY <1>7, <1>8
    <3> QED BY <1>16, <2>1, <3>1
  <2> QED BY <2>2, <2>3
<1>18. Whole(m, q)
  <2>1. {q[n].line : n \in DOMAIN q} = (m + 1)..c
    <3>1. \A n \in DOMAIN q : q[n].line \in (m + 1)..c
      BY <1>7, <1>8, <1>13
    <3>2. ASSUME NEW j \in (m + 1)..c PROVE \E n \in DOMAIN q : q[n].line = j
      <4>1. j - m \in 1..(c - m) /\ m + (j - m) = j
        BY <1>7, <1>8
      <4> QED BY <1>13, <4>1
    <3> QED BY <3>1, <3>2
  <2> QED BY <1>13, <1>16, <1>17, <2>1 DEF Whole
<1>19. /\ Meaning[m].fns = Put(Meaning[m - 1].fns, source[m].x, m)
       /\ Meaning[m].macros = Meaning[m - 1].macros
  <2>1. source[m].d = "macro" /\ ~InMacro[m]
    BY <1>16 DEF IsDirective
  <2>2. ~IsIf(m) /\ ~IsElse(m) /\ ~IsEndif(m)
    BY <2>1 DEF IsIf, IsElse, IsEndif, IsDirective
  <2>3. Meaning[m].live = Meaning[m - 1].live
    BY Zenon, <1>2, <1>8, <2>2, MeaningNext DEF Follows
  <2>4. DefinesFn(Meaning[m - 1], m) /\ ~Defines(Meaning[m - 1], m)
    BY <1>16, <2>1, <2>3 DEF DefinesFn, Defines, IsDirective, Alive
  <2> QED BY Zenon, <1>2, <1>8, <2>4, MeaningNext DEF Follows
<1>20. Meaning[c].macros = Meaning[m].macros /\ Meaning[c].fns = Meaning[m].fns
  <2>1. m \in 0..N /\ c \in m..N
    BY <1>7, <1>8
  <2> QED BY <1>2, <1>16, <2>1, SameBetween
<1> HIDE DEF k
<1>21. macros' = Meaning[k - 1].macros /\ FunctionsAre(functions', Meaning[k - 1].fns)
  BY <1>1, <1>11, <1>14, <1>16, <1>18, <1>19, <1>20, FunctionDefined
<1>22. AtOutside(k, d)'
  BY <1>1, <1>6, <1>9, <1>14, <1>15, <1>21, OutsideNext
<1>23. state' # "ifdef" /\ \A it \in Values(todo') : OwnItem(it)
  BY <1>1, <1>4, <1>9
<1>24. Placed(k, d)'
  BY <1>1, <1>14, <1>22, <1>23, <1>a, PlacedNext
<1>25. Read' = Read
  <2>1. Taken = <<>> /\ Taken' = <<>>
    BY <1>1, <1>9 DEF Taken
  <2>2. \A w \in Expanded : WaysOn(Taken', w) <=> WaysOn(Taken, w)
    BY <2>1
  <2> QED BY <1>1, <1>2, <1>3, <1>4, <2>2, SkipReads
<1> QED BY <1>1, <1>14, <1>24, <1>25, WellNext

-----------------------------------------------------------------------------
(* The steps in a conditional.                                             *)

\* The next line is the next of the source.
Inside(c) ==
  /\ c \in Lines /\ c - 1 \in 1..N /\ c - 1 \in 0..N
  /\ Item.path = <<>> /\ Item.d = source[c].d /\ Item.more = source[c].more
  /\ OfSource(todo) /\ OfSource(Tail(todo)) /\ OfSource(Collected)
  /\ \A it \in Values(Tail(todo)) : OwnItem(it)
  /\ \A it \in Values(Collected) : OwnItem(it)
  /\ Tops(todo) = Left(c, c - 1) /\ Tops(Tail(todo)) = Left(c + 1, c)
  /\ AtConditional(c, c - 1)
  /\ ~IsIf(c) /\ (InMacro[c] => Item.d \notin Directives)

LEMMA ConditionalHead ==
  ASSUME Steady, todo # <<>>, state = "ifdef", NEW c, c = Item.line PROVE Inside(c)
<1>1. source \in Sources /\ OrderInv /\ Sound /\ Well /\ WellFormed
  BY DEF Steady
<1>2. PICK p \in 1..(N + 1), e \in 0..N : Placed(p, e)
  BY <1>1 DEF Well
<1>3. AtConditional(p, e) /\ e = p - 1 /\ OfSource(todo) /\ OfSource(Collected) /\ Depth[e] = 1
  BY <1>2 DEF Placed, AtOutside, AtFunction, AtConditional
<1>4. Item.path = <<>>
  <2>1. Items(todo) /\ InOrder(todo)
    BY <1>1 DEF OrderInv, Ordered
  <2> QED BY <1>3, <2>1, TailKeeps DEF Item
<1>5. /\ OfSource(Tail(todo)) /\ OwnItem(Item) /\ \A it \in Values(Tail(todo)) : OwnItem(it)
      /\ c \in Left(p, e) /\ \A j \in Left(p, e) : j >= c
      /\ Tops(Tail(todo)) = Left(p, e) \ {c}
  BY <1>1, <1>2, <1>4, OwnHead
<1>6. N \in Nat /\ Lines = 1..N
  BY <1>1, SourceFacts
<1>7. c = p /\ c \in 1..N /\ e = c - 1
  <2>1. c \in 1..N /\ c >= p
    BY <1>5, <1>6 DEF Left
  <2>2. p \in Lines /\ p > e
    BY <1>2, <1>3, <1>6, <2>1
  <2>3. p \in Left(p, e)
    BY <2>2 DEF Left
  <2> QED BY <1>2, <1>3, <1>5, <1>6, <2>1, <2>3
<1>8. e \in 1..N
  <2>1. e # 0
    BY <1>1, <1>3, DepthIs
  <2> QED BY <1>6, <1>7, <2>1
<1>9. Tops(Tail(todo)) = Left(c + 1, c)
  <2>1. Tops(Tail(todo)) = Left(c + 1, e)
    BY <1>1, <1>5, <1>6, <1>7, LeftNext
  <2>2. \A j \in Lines : j >= c + 1 => j > e /\ j > c
    BY <1>6, <1>7
  <2> QED BY <2>1, <2>2 DEF Left
<1>10. Depth[c] \in {0, 1}
  <2>1. c \in 0..Len(source)
    BY <1>6, <1>7 DEF N
  <2> QED BY <1>1, <2>1 DEF WellFormed
<1>11. ~IsIf(c)
  BY <1>1, <1>3, <1>6, <1>7, <1>10, DepthIs
<1>12. Item.d = source[c].d /\ Item.more = source[c].more
  BY <1>5 DEF OwnItem
<1>13. InMacro[c] => Item.d \notin Directives
  <2>1. InMacro[c] => Depth[c] = 1
    BY <1>1, <1>3, <1>6, <1>7, DepthIs
  <2>2. InMacro[c] /\ source[c].d \in Directives => Depth[c] = 0
    BY <1>1, <1>6, <1>7 DEF WellFormed
  <2> QED BY <1>12, <2>1, <2>2
<1>14. \A it \in Values(Collected) : OwnItem(it)
  <2>1. Genuine(Collected, p)
    BY <1>2 DEF Placed
  <2>2. \A it \in Values(Collected) : it.path = <<>>
    BY <1>3 DEF OfSource, Values
  <2> QED BY <2>1, <2>2 DEF Genuine, CallItem
<1>15. Tops(todo) = Left(c, c - 1)
  BY <1>2, <1>7 DEF Placed
<1>16. c \in Lines /\ c - 1 \in 1..N /\ c - 1 \in 0..N /\ AtConditional(c, c - 1)
  BY <1>3, <1>6, <1>7, <1>8
<1> QED BY <1>3, <1>4, <1>5, <1>9, <1>11, <1>12, <1>13, <1>14, <1>15, <1>16 DEF Inside

\* A line of a conditional is dealt with, and the conditional goes on.
LEMMA BranchStep ==
  ASSUME Steady, NEW c, Inside(c), ~IsEndif(c),
         source' = source, symbols' = symbols, out' = out, failed' = failed, Read' = Read,
         state' = "ifdef", todo' = Tail(todo),
         NEW v, Top.value' = v, v = Meaning[c].taken,
         IF v THEN hungry' = Meaning[c].live ELSE hungry' /\ ~Meaning[c].live,
         hungry' /\ accepted' = {"endif"} =>
           (hungry /\ accepted = {"endif"}) \/ IsDirective(c, {"else"}),
         NEW q, Collected' = q, OfSource(q), \A it \in Values(q) : OwnItem(it),
         NEW b \in 2..(c + 1), IsDirective(b - 1, Conditional),
         macros' = Meaning[b - 1].macros, FunctionsAre(functions', Meaning[b - 1].fns),
         IF v THEN Tops(q) = {j \in b..c : Alive(j)} ELSE \A j \in b..c : ~Alive(j)
  PROVE  IF failed' THEN Faulty ELSE Well'
<1>1. source \in Sources
  BY DEF Steady
<1>2. /\ c \in Lines /\ c - 1 \in 1..N /\ OfSource(Tail(todo))
      /\ \A it \in Values(Tail(todo)) : OwnItem(it)
      /\ Tops(Tail(todo)) = Left(c + 1, c) /\ AtConditional(c, c - 1) /\ ~IsIf(c)
  BY DEF Inside
<1>3. N \in Nat /\ c \in 1..N
  BY <1>1, <1>2, SourceFacts
<1>4. Depth[c] = 1
  <2>1. Depth[c - 1] = 1
    BY <1>2 DEF AtConditional
  <2>2. InMacro[c] \/ source[c].d \notin {"ifdef", "ifndef", "endif"}
    BY <1>2 DEF IsIf, IsEndif, IsDirective
  <2> QED BY <1>1, <1>2, <2>1, <2>2, DepthIs
<1>5. PICK o \in 1..(c - 1) :
        /\ IsIf(o) /\ \A j \in (o + 1)..(c - 1) : ~IsIf(j)
        /\ hungry /\ accepted = {"endif"} => \E j \in o..(c - 1) : IsDirective(j, {"else"})
  BY <1>2 DEF AtConditional
<1>6. o \in 1..c /\ \A j \in (o + 1)..c : ~IsIf(j)
  <2>1. o \in 1..c /\ \A j \in (o + 1)..c : j \in (o + 1)..(c - 1) \/ j = c
    BY <1>3
  <2> QED BY <1>2, <1>5, <2>1
<1>7. hungry' /\ accepted' = {"endif"} => \E j \in o..c : IsDirective(j, {"else"})
  <2>1. c \in o..c /\ \A j \in o..(c - 1) : j \in o..c
    BY <1>3
  <2> QED BY <1>5, <2>1
<1> DEFINE k == c + 1
<1>8. k \in 1..(N + 1) /\ c \in 0..N /\ c = k - 1 /\ k =< c + 1 /\ b \in 2..k
  BY <1>3
<1>9. OfSource(todo') /\ Tops(todo') = Left(k, c) /\ OfSource(Collected')
  BY <1>2
<1>10. IF v THEN Tops(Collected') = {j \in b..c : Alive(j)} ELSE \A j \in b..c : ~Alive(j)
  OBVIOUS
<1> HIDE DEF k
<1>11. AtConditional(k, c)'
  BY <1>4, <1>5, <1>6, <1>7, <1>8, <1>9, <1>10, ConditionalNext
<1>12. Placed(k, c)'
  BY <1>2, <1>8, <1>9, <1>11, PlacedNext
<1> QED BY <1>8, <1>12, WellNext

LEMMA InBranch ==
  ASSUME Steady, NEW c, Inside(c)
  PROVE  /\ source \in Sources /\ N \in Nat /\ c \in 1..N /\ Lines = 1..N
         /\ state = "ifdef" /\ Top.value = Meaning[c - 1].taken /\ Top.value \in BOOLEAN
         /\ Meaning[c - 1].live \in BOOLEAN /\ Meaning[c].live \in BOOLEAN
         /\ IF Top.value THEN hungry = Meaning[c - 1].live ELSE hungry /\ ~Meaning[c - 1].live
         /\ Follows(Meaning[c - 1], Meaning[c], c)
         /\ \E b \in 2..c :
              /\ macros = Meaning[b - 1].macros /\ FunctionsAre(functions, Meaning[b - 1].fns)
              /\ IsDirective(b - 1, Conditional)
              /\ IF Top.value THEN Tops(Collected) = {j \in b..(c - 1) : Alive(j)}
                              ELSE \A j \in b..(c - 1) : ~Alive(j)
<1>1. source \in Sources /\ c \in Lines /\ AtConditional(c, c - 1) /\ c - 1 \in 0..N
  BY DEF Steady, Inside
<1>2. N \in Nat /\ c \in 1..N /\ Lines = 1..N
  BY <1>1, SourceFacts
<1>3. Follows(Meaning[c - 1], Meaning[c], c)
  BY <1>1, MeaningNext
<1>4. /\ Meaning[c - 1].live \in BOOLEAN /\ Meaning[c - 1].taken \in BOOLEAN
      /\ Meaning[c].live \in BOOLEAN
  <2>1. c \in 0..N
    BY <1>2
  <2> QED BY <1>1, <2>1, LiveBoolean
<1>5. /\ state = "ifdef" /\ Top.value = Meaning[c - 1].taken
      /\ IF Top.value THEN hungry = Meaning[c - 1].live ELSE hungry /\ ~Meaning[c - 1].live
      /\ \E b \in 2..c :
              /\ macros = Meaning[b - 1].macros /\ FunctionsAre(functions, Meaning[b - 1].fns)
              /\ IsDirective(b - 1, Conditional)
              /\ IF Top.value THEN Tops(Collected) = {j \in b..(c - 1) : Alive(j)}
                              ELSE \A j \in b..(c - 1) : ~Alive(j)
  BY <1>1 DEF AtConditional, ReadTo
<1> QED BY <1>1, <1>2, <1>3, <1>4, <1>5

\* One more line belongs to the branch, or to none.
LEMMA BranchLines ==
  ASSUME NEW c \in Nat, NEW b \in Nat, b =< c
  PROVE  /\ Alive(c) => {j \in b..c : Alive(j)} = {j \in b..(c - 1) : Alive(j)} \cup {c}
         /\ ~Alive(c) => {j \in b..c : Alive(j)} = {j \in b..(c - 1) : Alive(j)}
         /\ ~Alive(c) /\ (\A j \in b..(c - 1) : ~Alive(j)) => \A j \in b..c : ~Alive(j)
<1>1. \A j \in b..c : j \in b..(c - 1) \/ j = c
  OBVIOUS
<1>2. c \in b..c /\ c \notin b..(c - 1) /\ \A j \in b..(c - 1) : j \in b..c
  OBVIOUS
<1> QED BY <1>1, <1>2

\* After a branch that was taken, lines are skipped.
LEMMA SkipLine ==
  ASSUME Steady, todo # <<>>, state = "ifdef", NEW c, c = Item.line, Inside(c),
         Top.value, ~IsEndif(c), IsElse(c) \/ ~hungry,
         source' = source, symbols' = symbols, out' = out, failed' = failed,
         state' = state, stack' = stack, todo' = Tail(todo), hungry' = FALSE,
         macros' = macros, functions' = functions
  PROVE  IF failed' THEN Faulty ELSE Well'
<1>1. /\ source \in Sources /\ N \in Nat /\ c \in 1..N /\ Lines = 1..N
      /\ Top.value = Meaning[c - 1].taken
      /\ Meaning[c].live \in BOOLEAN
      /\ IF Top.value THEN hungry = Meaning[c - 1].live ELSE hungry /\ ~Meaning[c - 1].live
      /\ Follows(Meaning[c - 1], Meaning[c], c)
  BY InBranch
<1>2. PICK b \in 2..c :
              /\ macros = Meaning[b - 1].macros /\ FunctionsAre(functions, Meaning[b - 1].fns)
              /\ IsDirective(b - 1, Conditional)
              /\ IF Top.value THEN Tops(Collected) = {j \in b..(c - 1) : Alive(j)}
                              ELSE \A j \in b..(c - 1) : ~Alive(j)
  BY InBranch
<1>3. ~IsIf(c) /\ c \in Lines
  BY DEF Inside
<1>4. Meaning[c].taken = TRUE /\ Meaning[c].live = FALSE
  <2>1. Meaning[c - 1].taken
    BY <1>1
  <2>2. CASE IsElse(c)
    <3>1. /\ Meaning[c].live = (Holds(Meaning[c - 1], c) /\ ~Meaning[c - 1].taken)
          /\ Meaning[c].taken = (Meaning[c - 1].taken \/ Holds(Meaning[c - 1], c))
      BY Zenon, <1>1, <2>2 DEF Follows
    <3> QED BY Zenon, <2>1, <3>1
  <2>3. CASE ~IsElse(c)
    <3>1. Meaning[c].live = Meaning[c - 1].live /\ Meaning[c].taken = Meaning[c - 1].taken
      BY Zenon, <1>1, <1>3, <2>3 DEF Follows
    <3> QED BY <1>1, <2>1, <2>3, <3>1
  <2> QED BY <2>2, <2>3
<1>5. ~Alive(c)
  BY <1>4 DEF Alive
<1>6. Tops(Collected) = {j \in b..c : Alive(j)}
  <2>1. b \in Nat /\ c \in Nat /\ b =< c
    BY <1>1, <1>2
  <2> QED BY <1>2, <1>5, <2>1, BranchLines
<1>7. PICK v, q : v = Top.value /\ q = Collected
  OBVIOUS
<1>8. Top.value' = v /\ Collected' = q
  BY <1>7 DEF Top, Collected
<1>9. OfSource(q) /\ \A it \in Values(q) : OwnItem(it)
  BY <1>7 DEF Inside
<1>10. b \in 2..(c + 1) /\ v = TRUE /\ v = Meaning[c].taken
       /\ Tops(q) = {j \in b..c : Alive(j)}
  <2>1. v = TRUE
    BY <1>1, <1>4, <1>7
  <2>2. v = Meaning[c].taken
    BY <1>4, <2>1
  <2>3. b \in 2..(c + 1)
    BY <1>1, <1>2
  <2>4. Tops(q) = {j \in b..c : Alive(j)}
    BY <1>6, <1>7
  <2> QED BY <2>1, <2>2, <2>3, <2>4
<1>11. Read' = Read
  <2>1. Taken' = Taken
    BY DEF Taken, Top, Collected
  <2>2. \A k \in Expanded : WaysOn(Taken', k) <=> WaysOn(Taken, k)
    BY <2>1
  <2>3. Item.line \notin Kept
    BY <1>3, <1>5, Noted
  <2>4. OrderInv /\ Item.path = <<>>
    BY DEF Steady, Inside
  <2> QED BY <1>1, <2>2, <2>3, <2>4, SkipReads
<1>12. state' = "ifdef" /\ hungry' = Meaning[c].live /\ ~hungry'
  BY <1>4
<1>13. macros' = Meaning[b - 1].macros /\ FunctionsAre(functions', Meaning[b - 1].fns)
  BY <1>2
<1> QED BY <1>2, <1>8, <1>9, <1>10, <1>11, <1>12, <1>13, BranchStep

LEMMA SkipStep == ASSUME Steady, SkipRest \/ (Drop /\ state = "ifdef") PROVE IF failed' THEN Faulty ELSE Well'
<1>1. PICK c : c = Item.line
  OBVIOUS
<1>2. /\ todo # <<>> /\ state = "ifdef"
      /\ source' = source /\ symbols' = symbols /\ out' = out /\ failed' = failed
      /\ state' = state /\ stack' = stack /\ todo' = Tail(todo)
      /\ macros' = macros /\ functions' = functions
  BY DEF SkipRest, Drop, Open, At, Ordinary, globals
<1>3. Inside(c)
  BY <1>1, <1>2, ConditionalHead
<1>4. CASE SkipRest
  <2>1. /\ Item.d \in {"else", "elifdef", "elifndef"} /\ Top.value /\ hungry' = FALSE
    BY <1>4 DEF SkipRest, Open, At
  <2>2. Item.d = source[c].d /\ (InMacro[c] => Item.d \notin Directives)
    BY <1>3 DEF Inside
  <2>3. IsElse(c) /\ ~IsEndif(c)
    BY <2>1, <2>2 DEF IsElse, IsEndif, IsDirective, Directives, Conditional
  <2> QED BY <1>1, <1>2, <1>3, <2>1, <2>3, SkipLine
<1>5. CASE Drop
  <2>1. ~hungry /\ Item.d \notin accepted /\ hungry' = hungry
    BY <1>5 DEF Drop, Ordinary, globals
  <2>2. hungry = FALSE /\ Top.value /\ accepted = {"endif"}
    <3>1. InConditional
      BY <1>2 DEF Steady, PreprocessorInv
    <3>2. PICK v \in BOOLEAN, h \in {FALSE} : \E b :
            /\ stack = Opened(v, b, h) /\ hungry \in BOOLEAN
            /\ hungry = FALSE => v = TRUE /\ accepted = {"endif"}
      BY <3>1 DEF InConditional
    <3>3. Top.value = v
      BY <3>2, OneEntry
    <3> QED BY <2>1, <3>2, <3>3
  <2>3. Item.d = source[c].d
    BY <1>3 DEF Inside
  <2>4. ~IsEndif(c)
    BY <2>1, <2>2, <2>3 DEF IsEndif, IsDirective
  <2> QED BY <1>1, <1>2, <1>3, <2>1, <2>2, <2>4, SkipLine
<1> QED BY <1>4, <1>5, <1>2

\* A branch begins.
LEMMA FreshBranch ==
  ASSUME Steady, NEW c, Inside(c), IsElse(c),
         source' = source, symbols' = symbols, out' = out, failed' = failed, Read' = Read,
         state' = "ifdef", todo' = Tail(todo), hungry',
         accepted' = {"endif"} => source[c].d = "else",
         NEW v, Top.value' = v, Collected' = <<>>,
         Meaning[c].live <=> v, v = Meaning[c].taken, v \in BOOLEAN,
         macros' = Meaning[c].macros, FunctionsAre(functions', Meaning[c].fns)
  PROVE  IF failed' THEN Faulty ELSE Well'
<1>1. N \in Nat /\ c \in 1..N /\ c \in Lines /\ ~IsIf(c) /\ Meaning[c].live \in BOOLEAN
  BY InBranch DEF Inside
<1>2. PICK q, b : q = <<>> /\ b = c + 1
  OBVIOUS
<1>3. Collected' = q /\ OfSource(q) /\ Tops(q) = {} /\ \A it \in Values(q) : OwnItem(it)
  BY <1>2, NothingKeeps, ValuesEmpty DEF Tops
<1>4. b \in 2..(c + 1) /\ b - 1 = c /\ \A j \in b..c : FALSE
  BY <1>1, <1>2
<1>5. IF v THEN Tops(q) = {j \in b..c : Alive(j)} ELSE \A j \in b..c : ~Alive(j)
  BY <1>3, <1>4
<1>6. IF v THEN hungry' = Meaning[c].live ELSE hungry' /\ ~Meaning[c].live
  BY <1>1
<1>7. hungry' /\ accepted' = {"endif"} =>
         (hungry /\ accepted = {"endif"}) \/ IsDirective(c, {"else"})
  BY DEF IsElse, IsDirective
<1>8. ~IsEndif(c) /\ IsDirective(b - 1, Conditional)
  BY <1>1, <1>4, IsConditional DEF IsElse, IsEndif, IsDirective
<1>9. macros' = Meaning[b - 1].macros /\ FunctionsAre(functions', Meaning[b - 1].fns)
  BY <1>4
<1> QED BY <1>3, <1>4, <1>5, <1>6, <1>7, <1>8, <1>9, BranchStep

\* The next branch of a conditional of which none has been taken.
LEMMA NextBranch ==
  ASSUME Steady, todo # <<>>, state = "ifdef", NEW c, c = Item.line, Inside(c),
         ~Top.value, IsElse(c),
         source' = source, symbols' = symbols, out' = out, failed' = failed,
         state' = state, todo' = Tail(todo), hungry' = TRUE,
         macros' = macros, functions' = functions,
         NEW v, NEW h, v = Holds([macros |-> macros, symbols |-> symbols], c),
         stack' = Opened(v, <<>>, h),
         accepted' = {"endif"} => source[c].d = "else"
  PROVE  IF failed' THEN Faulty ELSE Well'
<1>1. /\ source \in Sources /\ N \in Nat /\ c \in 1..N /\ Lines = 1..N
      /\ Top.value = Meaning[c - 1].taken
      /\ Follows(Meaning[c - 1], Meaning[c], c)
  BY InBranch
<1>2. PICK b \in 2..c :
              /\ macros = Meaning[b - 1].macros /\ FunctionsAre(functions, Meaning[b - 1].fns)
              /\ \A j \in b..(c - 1) : ~Alive(j)
  BY InBranch
<1>3. /\ c \in Lines /\ ~IsIf(c) /\ OfSource(todo) /\ Tops(todo) = Left(c, c - 1)
      /\ Item.path = <<>> /\ Item.d = source[c].d
  BY DEF Inside
<1>4. ~Alive(c) /\ IsDirective(c, Conditional) /\ c \notin Kept
  BY <1>3, IsConditional, Noted DEF Alive
<1>5. /\ b - 1 \in 0..N /\ c - 1 \in (b - 1)..N /\ c \in (b - 1)..N /\ (b - 1) + 1 = b
  BY <1>1, <1>2
<1>6. macros = Meaning[c - 1].macros /\ Meaning[c - 1].fns = Meaning[b - 1].fns
  BY <1>1, <1>2, <1>5, SameBetween
<1>7. Meaning[c].macros = Meaning[c - 1].macros /\ Meaning[c].fns = Meaning[c - 1].fns
  <2>1. ~Defines(Meaning[c - 1], c) /\ ~DefinesFn(Meaning[c - 1], c)
    BY DEF IsElse, Defines, DefinesFn, IsDirective
  <2> QED BY Zenon, <1>1, <2>1 DEF Follows
<1>8. Taken = <<>> /\ SymbolsRead /\ Items(todo)
  BY DEF Taken, Steady, Well, Accounts, OrderInv, Ordered
<1>9. symbols = Meaning[c - 1].symbols
  BY <1>1, <1>3, <1>8, SymbolsAt
<1>10. v = Holds(Meaning[c - 1], c)
  BY <1>6, <1>9 DEF Holds
<1>11. Meaning[c].live = v /\ Meaning[c].taken = v
  <2>1. /\ Meaning[c].live = (Holds(Meaning[c - 1], c) /\ ~Meaning[c - 1].taken)
        /\ Meaning[c].taken = (Meaning[c - 1].taken \/ Holds(Meaning[c - 1], c))
    BY Zenon, <1>1 DEF Follows
  <2>2. ~Meaning[c - 1].taken /\ v \in BOOLEAN
    BY <1>1, <1>10, HoldsBoolean
  <2> QED BY Zenon, <1>10, <2>1, <2>2
<1>12. Collected' = <<>> /\ Top.value' = v
  BY CollectedNext, TopNext
<1>16. Read' = Read
  <2>1. Taken' = <<>>
    BY <1>12 DEF Taken
  <2>2. \A k \in Expanded : WaysOn(Taken', k) <=> WaysOn(Taken, k)
    BY <1>8, <2>1
  <2>3. OrderInv
    BY DEF Steady
  <2> QED BY <1>1, <1>3, <1>4, <2>2, <2>3, SkipReads
<1>19. macros' = Meaning[c].macros /\ FunctionsAre(functions', Meaning[c].fns)
  BY <1>2, <1>6, <1>7
<1>20. state' = "ifdef" /\ v = Meaning[c].taken /\ (Meaning[c].live <=> v) /\ hungry'
  BY <1>11
<1>21. v \in BOOLEAN
  BY <1>10, HoldsBoolean
<1> QED BY <1>12, <1>16, <1>19, <1>20, <1>21, FreshBranch

LEMMA NextBranchStep ==
  ASSUME Steady, Elifdef \/ Else PROVE IF failed' THEN Faulty ELSE Well'
<1>1. PICK c : c = Item.line
  OBVIOUS
<1>2. /\ todo # <<>> /\ state = "ifdef" /\ ~Top.value /\ hungry' = TRUE
      /\ Item.d \in {"else", "elifdef", "elifndef"}
      /\ source' = source /\ symbols' = symbols /\ out' = out /\ failed' = failed
      /\ state' = state /\ todo' = Tail(todo)
      /\ macros' = macros /\ functions' = functions
  BY DEF Elifdef, Else, Open, At
<1>3. Inside(c)
  BY <1>1, <1>2, ConditionalHead
<1>4. Item.d = source[c].d /\ (InMacro[c] => Item.d \notin Directives)
  BY <1>3 DEF Inside
<1>5. IsElse(c)
  BY <1>2, <1>4 DEF IsElse, IsDirective, Directives, Conditional
<1>6. PICK u, h : stack = Opened(u, Collected, h)
  BY <1>2, CollectedInStack DEF Steady
<1>7. PICK r : r = [macros |-> macros, symbols |-> symbols]
  OBVIOUS
<1>8. CASE Elifdef
  <2>1. /\ Item.d \in {"elifdef", "elifndef"}
        /\ stack' = Append(Rest, Branch(Truth("elifdef"), <<>>))
        /\ accepted' = {"endif", "else", "elifdef", "elifndef"}
    BY <1>8 DEF Elifdef, Open, At
  <2>2. Truth("elifdef") = Holds(r, c)
    <3>1. macros = r.macros /\ symbols = r.symbols
      BY <1>7
    <3> QED BY <1>1, <1>4, <2>1, <3>1, TruthIs
  <2>3. stack' = Opened(Holds(r, c), <<>>, h)
    BY <1>6, <2>1, <2>2, OneEntry
  <2>4. accepted' # {"endif"}
    <3>1. "else" \in accepted' /\ "else" \notin {"endif"}
      BY <2>1
    <3> QED BY <3>1
  <2> QED BY <1>1, <1>2, <1>3, <1>5, <1>7, <2>3, <2>4, NextBranch
<1>9. CASE Else
  <2>1. /\ Item.d = "else" /\ stack' = Append(Rest, Branch(TRUE, <<>>))
    BY <1>9 DEF Else, Open, At
  <2>2. Holds(r, c) = TRUE
    BY <1>4, <2>1 DEF Holds
  <2>3. stack' = Opened(Holds(r, c), <<>>, h)
    BY ZenonT(30), <1>6, <2>1, <2>2, OneEntry
  <2> QED BY <1>1, <1>2, <1>3, <1>4, <1>5, <1>7, <2>1, <2>3, NextBranch
<1> QED BY <1>8, <1>9

\* A line that is not of the conditional itself is collected.
LEMMA EatConditionalStep ==
  ASSUME Steady, Eat, state = "ifdef" PROVE IF failed' THEN Faulty ELSE Well'
<1>1. PICK c, a : c = Item.line /\ a = Item
  OBVIOUS
<1>2. /\ todo # <<>> /\ Item.d \notin accepted /\ hungry /\ hungry' = hungry
      /\ source' = source /\ symbols' = symbols /\ out' = out /\ failed' = failed
      /\ state' = state /\ todo' = Tail(todo) /\ stack' = Eaten /\ accepted' = accepted
      /\ macros' = macros /\ functions' = functions
  BY DEF Eat, Ordinary
<1>3. Inside(c)
  BY <1>1, <1>2, ConditionalHead
<1>4. /\ source \in Sources /\ N \in Nat /\ c \in 1..N /\ Lines = 1..N
      /\ Top.value = Meaning[c - 1].taken /\ Top.value \in BOOLEAN
      /\ Meaning[c - 1].live \in BOOLEAN
      /\ IF Top.value THEN hungry = Meaning[c - 1].live ELSE hungry /\ ~Meaning[c - 1].live
      /\ Follows(Meaning[c - 1], Meaning[c], c)
  BY <1>3, InBranch
<1>5. PICK b \in 2..c :
              /\ macros = Meaning[b - 1].macros /\ FunctionsAre(functions, Meaning[b - 1].fns)
              /\ IsDirective(b - 1, Conditional)
              /\ IF Top.value THEN Tops(Collected) = {j \in b..(c - 1) : Alive(j)}
                              ELSE \A j \in b..(c - 1) : ~Alive(j)
  BY <1>3, InBranch
<1>6. /\ c \in Lines /\ ~IsIf(c) /\ Item.path = <<>> /\ Item.d = source[c].d
      /\ Item.more = source[c].more
      /\ OfSource(Collected) /\ \A it \in Values(Collected) : OwnItem(it)
      /\ AtConditional(c, c - 1)
  BY <1>3 DEF Inside
<1>7. /\ accepted \in {{"endif"}, {"endif", "else", "elifdef", "elifndef"}}
      /\ PreprocessorInv /\ OrderInv
  BY DEF Steady, PreprocessorInv, InConditional
<1>8. ~IsEndif(c)
  BY <1>2, <1>6, <1>7 DEF IsEndif, IsDirective
<1>9. ~IsElse(c)
  <2> SUFFICES ASSUME IsElse(c) PROVE FALSE
    OBVIOUS
  <2>1. source[c].d \in {"elifdef", "elifndef", "else"} /\ ~InMacro[c]
    BY DEF IsElse, IsDirective
  <2>2. accepted = {"endif"}
    BY <1>2, <1>6, <1>7, <2>1
  <2>3. PICK o \in 1..(c - 1) :
          /\ IsIf(o) /\ \A j \in (o + 1)..(c - 1) : ~IsIf(j)
          /\ \E j \in o..(c - 1) : IsDirective(j, {"else"})
    BY <1>2, <1>6, <2>2 DEF AtConditional
  <2>4. PICK j \in o..(c - 1) : IsDirective(j, {"else"})
    BY <2>3
  <2>5. OpenedAt(c) = o
    <3>1. o \in 1..c /\ \A i \in (o + 1)..c : ~IsIf(i)
      <4>1. o \in 1..c /\ \A i \in (o + 1)..c : i \in (o + 1)..(c - 1) \/ i = c
        BY <1>4
      <4> QED BY <1>6, <2>3, <4>1
    <3>2. \A p \in 1..c : IsIf(p) /\ (\A i \in (p + 1)..c : ~IsIf(i)) => p = o
      <4> SUFFICES ASSUME NEW p \in 1..c, IsIf(p), \A i \in (p + 1)..c : ~IsIf(i), p # o
                   PROVE  FALSE
        OBVIOUS
      <4>1. p \in (o + 1)..c \/ o \in (p + 1)..c
        BY <1>4
      <4> QED BY <2>3, <3>1, <4>1
    <3>3. OpenedAt(c) = CHOOSE p \in 1..c : IsIf(p) /\ \A i \in (p + 1)..c : ~IsIf(i)
      BY DEF OpenedAt, IsIf
    <3> QED BY <2>3, <3>1, <3>2, <3>3
  <2>6. j \in BranchesTo(c)
    <3>1. j \in o..c
      BY <1>4
    <3>2. IsDirective(j, {"ifdef", "ifndef", "elifdef", "elifndef", "else"})
      BY <2>4 DEF IsDirective
    <3> QED BY <2>5, <3>1, <3>2 DEF BranchesTo
  <2>7. j < c
    BY <1>4
  <2>8. WellFormed /\ IsDirective(c, {"elifdef", "elifndef", "else"})
    BY DEF Steady, IsElse
  <2>9. \A i \in BranchesTo(c) : i < c => source[i].d # "else"
    BY <1>6, <2>8 DEF WellFormed
  <2>10. source[j].d = "else"
    BY <2>4 DEF IsDirective
  <2> QED BY <2>6, <2>7, <2>9, <2>10
<1>10. ~IsDirective(c, Conditional)
  BY <1>6, <1>8, <1>9, IsConditional
<1>11. Meaning[c].live = Meaning[c - 1].live /\ Meaning[c].taken = Meaning[c - 1].taken
  BY Zenon, <1>4, <1>6, <1>8, <1>9 DEF Follows
<1>12. Alive(c) <=> Top.value
  BY <1>2, <1>4, <1>6, <1>10, <1>11 DEF Alive
<1>13. PICK v, q : v = Top.value /\ q = Append(Collected, a)
  OBVIOUS
<1>14. EatenItem = a
  BY <1>1 DEF EatenItem
<1>15. PICK u, h : stack = Opened(u, Collected, h)
  BY <1>7, CollectedInStack
<1>16. stack' = Opened(v, q, h)
  <2>1. Eaten = Opened(u, Append(Collected, EatenItem), h) /\ Top.value = u
    BY <1>15, OneEntry
  <2> QED BY <1>2, <1>13, <1>14, <2>1
<1>17. Collected' = q /\ Top.value' = v
  BY <1>2, <1>16, CollectedNext, TopNext
<1>18. IsSeq(Collected) /\ IsSeq(todo) /\ Items(todo) /\ InOrder(todo)
  BY <1>7 DEF OrderInv, Ordered, Items
<1>19. Values(q) = Values(Collected) \cup {a}
  BY <1>13, <1>18, ValuesAppend
<1>20. OwnItem(a)
  BY <1>1, <1>6 DEF OwnItem
<1>21. OfSource(q) /\ \A it \in Values(q) : OwnItem(it)
  <2>1. \A it \in Values(q) : OwnItem(it)
    BY <1>6, <1>19, <1>20
  <2> QED BY <2>1 DEF OfSource, Values, OwnItem
<1>22. Tops(q) = Tops(Collected) \cup {c}
  <2>1. a.path = <<>> /\ a.line = c
    BY <1>1, <1>6
  <2> QED BY <1>19, <2>1 DEF Tops
<1>23. IF v THEN Tops(q) = {j \in b..c : Alive(j)} ELSE \A j \in b..c : ~Alive(j)
  <2>1. b \in Nat /\ c \in Nat /\ b =< c
    BY <1>4
  <2>2. CASE Top.value
    BY <1>5, <1>12, <1>13, <1>22, <2>1, <2>2, BranchLines
  <2>3. CASE ~Top.value
    <3>1. \A j \in b..c : ~Alive(j)
      BY <1>5, <1>12, <2>1, <2>3, BranchLines
    <3> QED BY <1>13, <2>3, <3>1
  <2> QED BY <2>2, <2>3
<1>24. Read' = Read
  <2>1. CASE Top.value
    <3>1. Taken = Collected
      BY <2>1 DEF Taken
    <3>2. Taken' = q
      BY <1>2, <1>13, <1>17, <2>1 DEF Taken
    <3>3. \A k : WaysOn(todo, k) <=> Extends(Key(a), k) \/ WaysOn(Tail(todo), k)
      BY <1>1, <1>2, <1>18, WaysOfLists DEF Item
    <3>4. \A k : WaysOn(q, k) <=> WaysOn(Collected, k) \/ Extends(Key(a), k)
      BY <1>13, <1>18, WaysOfLists
    <3>5. \A k : WaysOn(todo', k) <=> WaysOn(Tail(todo), k)
      BY <1>2
    <3>6. \A k : (WaysOn(todo', k) \/ WaysOn(Taken', k)) <=> (WaysOn(todo, k) \/ WaysOn(Taken, k))
      BY <3>1, <3>2, <3>3, <3>4, <3>5
    <3>7. \A k \in Expanded : Pending(k)' <=> Pending(k)
      BY <3>6, <1>2, ItemsSame DEF Pending, WaysOn, Values, Key, Extends
    <3> QED BY <1>2, <3>7, ReadSame
  <2>2. CASE ~Top.value
    <3>1. Taken = <<>> /\ Taken' = <<>>
      BY <1>13, <1>17, <2>2 DEF Taken
    <3>2. \A k \in Expanded : WaysOn(Taken', k) <=> WaysOn(Taken, k)
      BY <3>1
    <3>3. Item.line \notin Kept
      BY <1>1, <1>6, <1>12, <2>2, Noted
    <3> QED BY <1>2, <1>4, <1>6, <1>7, <3>2, <3>3, SkipReads
  <2> QED BY <2>1, <2>2
<1>25. /\ v = Meaning[c].taken
       /\ IF v THEN hungry' = Meaning[c].live ELSE hungry' /\ ~Meaning[c].live
       /\ state' = "ifdef" /\ b \in 2..(c + 1)
       /\ hungry' /\ accepted' = {"endif"} =>
            (hungry /\ accepted = {"endif"}) \/ IsDirective(c, {"else"})
       /\ macros' = Meaning[b - 1].macros /\ FunctionsAre(functions', Meaning[b - 1].fns)
       /\ IsDirective(b - 1, Conditional)
  <2>1. b \in 2..(c + 1)
    BY <1>4
  <2>2. v = Meaning[c].taken /\ IF v THEN hungry' = Meaning[c].live ELSE hungry' /\ ~Meaning[c].live
    BY <1>2, <1>4, <1>11, <1>13
  <2> QED BY <1>2, <1>5, <2>1, <2>2
<1>26. /\ source' = source /\ symbols' = symbols /\ out' = out /\ failed' = failed
       /\ todo' = Tail(todo)
  BY <1>2
<1> QED BY <1>3, <1>8, <1>17, <1>21, <1>23, <1>24, <1>25, <1>26, BranchStep

\* The conditional ends: a branch that was taken is preprocessed now.
LEMMA EndifStep == ASSUME Steady, Endif PROVE IF failed' THEN Faulty ELSE Well'
<1>1. PICK c : c = Item.line
  OBVIOUS
<1>2. /\ todo # <<>> /\ state = "ifdef" /\ Item.d = "endif"
      /\ source' = source /\ symbols' = symbols /\ out' = out /\ failed' = failed
      /\ macros' = macros /\ functions' = functions /\ Restore(Top)
      /\ todo' = IF Top.value THEN Branched(Top.body) \o Tail(todo) ELSE Tail(todo)
  BY DEF Endif, Open, At
<1>3. Inside(c)
  BY <1>1, <1>2, ConditionalHead
<1>4. /\ source \in Sources /\ N \in Nat /\ c \in 1..N /\ Lines = 1..N
      /\ Top.value = Meaning[c - 1].taken /\ Top.value \in BOOLEAN
      /\ Follows(Meaning[c - 1], Meaning[c], c)
  BY <1>3, InBranch
<1>5. PICK b \in 2..c :
              /\ macros = Meaning[b - 1].macros /\ FunctionsAre(functions, Meaning[b - 1].fns)
              /\ IsDirective(b - 1, Conditional)
              /\ IF Top.value THEN Tops(Collected) = {j \in b..(c - 1) : Alive(j)}
                              ELSE \A j \in b..(c - 1) : ~Alive(j)
  BY <1>3, InBranch
<1>6. /\ c \in Lines /\ Item.path = <<>> /\ Item.d = source[c].d
      /\ \A it \in Values(Tail(todo)) : OwnItem(it)
      /\ \A it \in Values(Collected) : OwnItem(it)
      /\ OfSource(Collected) /\ (InMacro[c] => Item.d \notin Directives)
      /\ AtConditional(c, c - 1) /\ Tops(Tail(todo)) = Left(c + 1, c)
  BY <1>3 DEF Inside
<1>7. IsEndif(c) /\ ~InMacro[c] /\ ~Alive(c) /\ c \notin Kept
  <2>1. ~InMacro[c] /\ source[c].d = "endif" /\ source[c].d \in Directives
    BY <1>2, <1>6 DEF Directives, Conditional
  <2>2. IsEndif(c) /\ IsDirective(c, Conditional)
    BY <2>1 DEF IsEndif, IsDirective, Conditional
  <2> QED BY <1>6, <2>1, <2>2, Noted DEF Alive
<1>8. Depth[c] = 0
  <2>1. Depth[c - 1] = 1
    BY <1>6 DEF AtConditional
  <2> QED BY <1>4, <1>6, <1>7, <2>1, DepthIs DEF IsEndif
<1>9. PreprocessorInv /\ OrderInv
  BY DEF Steady
<1>10. Top.body = Collected /\ state' = "passthrough"
  BY <1>2, <1>9, CollectedInStack DEF Restore
<1>11. Items(Collected) /\ Items(todo) /\ IsSeq(todo) /\ IsSeq(Tail(todo)) /\ IsSeq(Collected)
  <2>1. Items(Collected) /\ Items(todo) /\ IsSeq(todo) /\ IsSeq(Collected)
    BY <1>9 DEF OrderInv, Ordered, Items
  <2> QED BY <1>2, <2>1, TailSeq
<1>12. Taken' = <<>>
  BY <1>10 DEF Taken
<1>13. \A i \in Lines : IsDirective(i, Conditional) /\ i + 1 \in Lines => ~InMacro[i + 1]
  BY <1>4, InMacroIs DEF IsDirective, Conditional
<1>14. CASE ~Top.value
  <2> DEFINE k == c + 1
  <2>1. /\ k \in 1..(N + 1) /\ c \in 0..N /\ k =< c + 1 /\ k - 1 = c /\ b - 1 \in 0..N
        /\ c \in (b - 1)..N /\ (b - 1) + 1 = b /\ b \in Nat /\ c \in Nat /\ b =< c
    BY <1>4
  <2>2. Meaning[c].macros = Meaning[b - 1].macros /\ Meaning[c].fns = Meaning[b - 1].fns
    <3>1. \A j \in b..c : ~Alive(j)
      BY <1>5, <1>7, <1>14, <2>1, BranchLines
    <3> QED BY <1>4, <2>1, <3>1, SameBetween
  <2>3. k =< N => ~InMacro[k]
    <3> SUFFICES ASSUME k =< N PROVE ~InMacro[k]
      OBVIOUS
    <3>1. c + 1 \in Lines
      BY <1>4
    <3>2. IsDirective(c, Conditional)
      BY <1>7, IsConditional
    <3> QED BY <1>6, <1>13, <3>1, <3>2
  <2>4. todo' = Tail(todo) /\ Tops(todo') = Left(k, c)
    BY <1>2, <1>6, <1>14
  <2> HIDE DEF k
  <2>5. macros' = Meaning[k - 1].macros /\ FunctionsAre(functions', Meaning[k - 1].fns)
    BY <1>2, <1>5, <2>1, <2>2
  <2>6. AtOutside(k, c)'
    BY <1>2, <1>8, <1>10, <2>1, <2>3, <2>5, OutsideNext
  <2>7. state' # "ifdef" /\ \A it \in Values(todo') : OwnItem(it)
    BY <1>6, <1>10, <2>4
  <2>8. Placed(k, c)'
    BY <1>2, <2>1, <2>4, <2>6, <2>7, PlacedNext
  <2>9. Read' = Read
    <3>1. Taken = <<>>
      BY <1>14 DEF Taken
    <3>2. \A w \in Expanded : WaysOn(Taken', w) <=> WaysOn(Taken, w)
      BY <1>12, <3>1
    <3>3. Item.line \notin Kept
      BY <1>1, <1>7
    <3> QED BY <1>2, <1>4, <1>6, <1>9, <2>4, <3>2, <3>3, SkipReads
  <2> QED BY <1>2, <2>1, <2>8, <2>9, WellNext
<1>15. CASE Top.value
  <2>1. b \in 1..(N + 1) /\ c \in 0..N /\ b =< c + 1
    BY <1>4
  <2>2. todo' = Branched(Collected) \o Tail(todo)
    BY <1>2, <1>10, <1>15
  <2>3. IsSeq(Branched(Collected))
    BY <1>11, ValuesBranched
  <2>4. Values(todo') = Values(Branched(Collected)) \cup Values(Tail(todo))
    BY <1>11, <2>2, <2>3, ValuesConcat
  <2>5. \A it \in Values(Branched(Collected)) : OwnItem(it) /\ it.line \in Tops(Collected)
    <3> SUFFICES ASSUME NEW it \in Values(Branched(Collected))
                 PROVE  OwnItem(it) /\ it.line \in Tops(Collected)
      OBVIOUS
    <3>1. PICK a \in Values(Collected) :
            it.path = a.path /\ it.line = a.line /\ it.d = a.d /\ it.more = a.more
      BY <1>11, ValuesBranched
    <3>2. OwnItem(a)
      BY <1>6
    <3> QED BY <3>1, <3>2 DEF OwnItem, Tops
  <2>6. \A it \in Values(todo') : OwnItem(it)
    BY <1>6, <2>4, <2>5
  <2>7. Tops(todo') = Left(b, c)
    <3>1. Tops(Branched(Collected)) = Tops(Collected)
      <4>1. Tops(Branched(Collected)) \subseteq Tops(Collected)
        BY <2>5 DEF Tops
      <4>2. ASSUME NEW a \in Values(Collected), a.path = <<>>
            PROVE  a.line \in Tops(Branched(Collected))
        <5>1. PICK it \in Values(Branched(Collected)) : it.path = a.path /\ it.line = a.line
          BY <1>11, ValuesBranched
        <5> QED BY <4>2, <5>1 DEF Tops
      <4>3. Tops(Collected) \subseteq Tops(Branched(Collected))
        BY <4>2 DEF Tops
      <4> QED BY <4>1, <4>3
    <3>2. Tops(todo') = Tops(Collected) \cup Left(c + 1, c)
      <4>1. Tops(todo') = Tops(Branched(Collected)) \cup Tops(Tail(todo))
        BY <2>4 DEF Tops
      <4> QED BY <1>6, <3>1, <4>1
    <3>3. Tops(Collected) = {j \in b..(c - 1) : Alive(j)}
      BY <1>5, <1>15
    <3>4. \A j \in Left(b, c) : (j \in b..(c - 1) /\ Alive(j)) \/ j \in Left(c + 1, c)
      <4> SUFFICES ASSUME NEW j \in Lines, j >= b, j > c \/ Alive(j)
                   PROVE  (j \in b..(c - 1) /\ Alive(j)) \/ (j >= c + 1 /\ j > c)
        BY DEF Left
      <4>1. j # c \/ ~Alive(j)
        BY <1>7
      <4>2. j > c \/ j = c \/ (j \in b..(c - 1) /\ ~(j > c))
        BY <1>4
      <4>3. j > c => j >= c + 1
        BY <1>4
      <4> QED BY <4>1, <4>2, <4>3
    <3>5. \A j \in b..(c - 1) : Alive(j) => j \in Left(b, c)
      <4>1. \A j \in b..(c - 1) : j \in Lines /\ j >= b
        BY <1>4
      <4> QED BY <4>1 DEF Left
    <3>6. \A j \in Left(c + 1, c) : j \in Left(b, c)
      <4>1. \A j \in Lines : j >= c + 1 => j >= b /\ j > c
        BY <1>4
      <4> QED BY <4>1 DEF Left
    <3>7. Left(b, c) \subseteq Tops(todo')
      BY <3>2, <3>3, <3>4
    <3>8. Tops(todo') \subseteq Left(b, c)
      BY <3>2, <3>3, <3>5, <3>6
    <3> QED BY <3>7, <3>8
  <2>8. b =< N => ~InMacro[b]
    <3> SUFFICES ASSUME b =< N PROVE ~InMacro[b]
      OBVIOUS
    <3>1. b - 1 \in Lines /\ (b - 1) + 1 \in Lines /\ (b - 1) + 1 = b
      BY <1>4
    <3> QED BY <1>5, <1>13, <3>1
  <2>9. macros' = Meaning[b - 1].macros /\ FunctionsAre(functions', Meaning[b - 1].fns)
    BY <1>2, <1>5
  <2>10. AtOutside(b, c)'
    BY <1>2, <1>8, <1>10, <2>1, <2>8, <2>9, OutsideNext
  <2>11. state' # "ifdef"
    BY <1>10
  <2>12. Placed(b, c)'
    BY <1>2, <2>1, <2>6, <2>7, <2>10, <2>11, PlacedNext
  <2>13. Read' = Read
    <3>1. Taken = Collected
      BY <1>2, <1>15 DEF Taken
    <3>2. \A k : WaysOn(todo', k) <=> WaysOn(Collected, k) \/ WaysOn(Tail(todo), k)
      BY <1>11, <2>2, <2>3, WaysOfLists, WaysBranched
    <3>3. \A k : WaysOn(todo, k) <=> Extends(Key(Item), k) \/ WaysOn(Tail(todo), k)
      BY <1>2, <1>11, WaysOfLists DEF Item
    <3>4. \A k \in Expanded : ~Extends(Key(Item), k)
      BY <1>1, <1>4, <1>6, <1>7, NothingComes
    <3>5. \A k : ~WaysOn(Taken', k)
      BY <1>12, WaysOfLists
    <3>6. \A k \in Expanded :
            (WaysOn(todo', k) \/ WaysOn(Taken', k)) <=> (WaysOn(todo, k) \/ WaysOn(Taken, k))
      BY <3>1, <3>2, <3>3, <3>4, <3>5
    <3>7. \A k \in Expanded : Pending(k)' <=> Pending(k)
      BY <3>6 DEF Pending, WaysOn, Values, Key, Extends
    <3> QED BY <1>2, <3>7, ReadSame
  <2> QED BY <1>2, <2>1, <2>12, <2>13, WellNext
<1> QED BY <1>4, <1>14, <1>15

-----------------------------------------------------------------------------
(* The invariant.                                                          *)

LEMMA SteadyStep ==
  ASSUME Steady, Next, Ifdef => Item.path = <<>> PROVE IF failed' THEN Faulty ELSE Well'
<1>1. CASE Ifdef
  BY <1>1, IfdefStep
<1>2. CASE Lone \/ Recursion
  BY <1>2, NoLoneStep
<1>3. CASE SkipRest \/ (Drop /\ state = "ifdef")
  BY <1>3, SkipStep
<1>4. CASE Elifdef \/ Else
  BY <1>4, NextBranchStep
<1>5. CASE Endif
  BY <1>5, EndifStep
<1>6. CASE Define
  BY <1>6, DefineStep
<1>7. CASE DefineFunction
  BY <1>7, DefineFunctionStep
<1>8. CASE Eat
  <2>1. state = "define" \/ state = "ifdef"
    BY <1>8 DEF Steady, PreprocessorInv, Outside, Eat
  <2> QED BY <1>8, <2>1, EatFunctionStep, EatConditionalStep
<1>9. CASE EatLast
  BY <1>9, EatLastStep
<1>10. CASE Drop /\ state # "ifdef"
  BY <1>10 DEF Steady, PreprocessorInv, InFunction, Drop
<1>11. CASE Pass \/ PassEqu \/ PassLabel
  BY <1>11, PassStep
<1>12. CASE Call
  BY <1>12, CallStep
<1>13. CASE BadCall
  <2>1. failed' = TRUE
    BY <1>13 DEF BadCall
  <2> QED BY <1>13, <2>1, BadCallStep
<1> QED
  BY <1>1, <1>2, <1>3, <1>4, <1>5, <1>6, <1>7, <1>8, <1>9, <1>10, <1>11, <1>12, <1>13 DEF Next

-----------------------------------------------------------------------------
(* What the operands of a line are replaced by.                            *)

Params(k, n) == IF n = 1 \/ Shares(k[n]) THEN <<>>
                ELSE ParamsOf(Meaning[k[1]].fns[source[k[n - 1]].x])

ValueIn(params, a, m, o) ==
  IF Contains(params, o) THEN a[Max({p \in DOMAIN params : params[p] = o})]
  ELSE IF o \in DOMAIN m THEN m[o] ELSE o

\* The operands of the n-th line of k, from those of the call before it.
ArgsStep(a, k, n) ==
  [p \in DOMAIN source[k[n]].args |->
     ValueIn(Params(k, n), a, Meaning[k[1]].macros, source[k[n]].args[p])]

\* The operands of all lines of k, as ResolvedAt has them.
ArgsAre(args, k) ==
  args = [n \in 1..Len(k) |->
        LET params == IF n = 1 \/ Shares(k[n]) THEN <<>>
                      ELSE ParamsOf(Meaning[k[1]].fns[source[k[n - 1]].x])
            Value(o) == IF Contains(params, o)
                        THEN args[n - 1][Max({p \in DOMAIN params : params[p] = o})]
                        ELSE IF o \in DOMAIN Meaning[k[1]].macros THEN Meaning[k[1]].macros[o] ELSE o
        IN  [p \in DOMAIN source[k[n]].args |-> Value(source[k[n]].args[p])]]

LEMMA ArgsAreSteps ==
  ASSUME NEW f, NEW k
  PROVE  ArgsAre(f, k) <=> f = [n \in 1..Len(k) |-> ArgsStep(f[n - 1], k, n)]
BY Zenon DEF ArgsAre, ArgsStep, ValueIn, Params

\* Nothing is replaced by what there was before the first call.
LEMMA FirstArgs == ASSUME NEW a, NEW b, NEW k PROVE ArgsStep(a, k, 1) = ArgsStep(b, k, 1)
<1>1. Params(k, 1) = <<>>
  BY DEF Params
<1>2. ASSUME NEW m, NEW o PROVE ValueIn(<<>>, a, m, o) = ValueIn(<<>>, b, m, o)
  <2>1. ~Contains(<<>>, o)
    BY EmptyIsSeq DEF Contains
  <2> QED BY <2>1 DEF ValueIn
<1> QED BY <1>1, <1>2 DEF ArgsStep

LEMMA ArgsExist ==
  ASSUME NEW k PROVE \A n \in Nat : \E f : f = [i \in 1..n |-> ArgsStep(f[i - 1], k, i)]
<1> DEFINE T(f, n) == f = [i \in 1..n |-> ArgsStep(f[i - 1], k, i)]
           S == {n \in Nat : \E f : T(f, n)}
<1>1. 0 \in S
  <2> DEFINE f == [i \in 1..0 |-> 0]
  <2>1. f = [i \in 1..0 |-> ArgsStep(f[i - 1], k, i)]
    <3>1. \A i \in 1..0 : FALSE
      OBVIOUS
    <3> HIDE DEF ArgsStep
    <3> QED BY <3>1
  <2> QED BY <2>1
<1>2. ASSUME NEW n \in Nat, n \in S PROVE n + 1 \in S
  <2>1. PICK f : T(f, n)
    BY <1>2
  <2> DEFINE g == [i \in 1..(n + 1) |-> IF i \in 1..n THEN f[i] ELSE ArgsStep(f[i - 1], k, i)]
             h == [i \in 1..(n + 1) |-> ArgsStep(g[i - 1], k, i)]
  <2>2. ASSUME NEW i \in 1..(n + 1) PROVE g[i] = h[i]
    <3>1. i # 1 => i - 1 \in 1..n /\ i - 1 \in 1..(n + 1)
      OBVIOUS
    <3>2. i # 1 => g[i - 1] = f[i - 1]
      BY <3>1
    <3>3. g[i] = ArgsStep(f[i - 1], k, i)
      BY Zenon, <2>1
    <3>4. h[i] = ArgsStep(g[i - 1], k, i)
      BY Zenon
    <3>5. ArgsStep(f[i - 1], k, i) = ArgsStep(g[i - 1], k, i)
      <4> HIDE DEF g
      <4>1. CASE i # 1
        BY Zenon, <3>2, <4>1
      <4>2. CASE i = 1
        <5>1. ArgsStep(f[i - 1], k, 1) = ArgsStep(g[i - 1], k, 1)
          BY FirstArgs
        <5> QED BY Zenon, <4>2, <5>1
      <4> QED BY <4>1, <4>2
    <3> QED BY Zenon, <3>3, <3>4, <3>5
  <2>3. g = h
    BY <2>2
  <2>4. T(g, n + 1)
    <3> HIDE DEF g
    <3> QED BY <2>3
  <2> HIDE DEF T, g
  <2> QED BY <2>4 DEF S
<1> HIDE DEF S
<1>3. Nat \subseteq S
  BY <1>1, <1>2, NatSetInduction
<1> QED BY <1>3 DEF S

\* The operands of the lines of a way do not depend on how it goes on.
LEMMA ArgsAgree ==
  ASSUME NEW h, NEW k, Len(h) \in Nat, Len(k) \in Nat, Len(h) =< Len(k),
         \A n \in 1..Len(h) : h[n] = k[n],
         NEW f, NEW g, ArgsAre(f, h), ArgsAre(g, k)
  PROVE  \A n \in 1..Len(h) : f[n] = g[n]
<1> DEFINE S == {n \in Nat : n \in 1..Len(h) => f[n] = g[n]}
<1>1. \A n \in 1..Len(h) : f[n] = ArgsStep(f[n - 1], h, n)
  BY Zenon, ArgsAreSteps
<1>2. \A n \in 1..Len(k) : g[n] = ArgsStep(g[n - 1], k, n)
  BY Zenon, ArgsAreSteps
<1>3. \A n \in 1..Len(h) : n \in 1..Len(k)
  OBVIOUS
<1>4. ASSUME NEW n \in 1..Len(h), NEW a PROVE ArgsStep(a, h, n) = ArgsStep(a, k, n)
  <2>1. h[n] = k[n] /\ h[1] = k[1] /\ (n # 1 => h[n - 1] = k[n - 1])
    <3>1. 1 \in 1..Len(h) /\ (n # 1 => n - 1 \in 1..Len(h))
      OBVIOUS
    <3> QED BY <3>1
  <2>2. Params(h, n) = Params(k, n)
    BY <2>1 DEF Params
  <2> QED BY <2>1, <2>2 DEF ArgsStep
<1>5. 0 \in S
  OBVIOUS
<1>6. ASSUME NEW n \in Nat, n \in S PROVE n + 1 \in S
  <2> SUFFICES ASSUME n + 1 \in 1..Len(h) PROVE f[n + 1] = g[n + 1]
    OBVIOUS
  <2>1. (n + 1) - 1 = n
    OBVIOUS
  <2>2. f[n + 1] = ArgsStep(f[n], h, n + 1)
    BY <1>1, <2>1
  <2>3. g[n + 1] = ArgsStep(g[n], k, n + 1)
    BY <1>2, <1>3, <2>1
  <2>4. CASE n = 0
    <3>1. n + 1 = 1
      BY <2>4
    <3>2. ArgsStep(f[n], h, 1) = ArgsStep(g[n], h, 1)
      BY FirstArgs
    <3> QED BY Zenon, <1>4, <2>2, <2>3, <3>1, <3>2
  <2>5. CASE n # 0
    <3>1. n \in 1..Len(h)
      BY <2>5
    <3>2. f[n] = g[n]
      BY <1>6, <3>1
    <3> QED BY Zenon, <1>4, <2>2, <2>3, <3>2
  <2> QED BY <2>4, <2>5
<1> HIDE DEF S
<1>7. Nat \subseteq S
  BY <1>5, <1>6, NatSetInduction
<1> QED BY <1>7 DEF S

LEMMA ResolvedIs ==
  ASSUME NEW k, Len(k) \in Nat
  PROVE  \E f : ArgsAre(f, k) /\ ResolvedAt(k) = f[Len(k)]
<1> DEFINE m == CHOOSE f : ArgsAre(f, k)
<1>1. PICK f : f = [i \in 1..Len(k) |-> ArgsStep(f[i - 1], k, i)]
  BY ArgsExist
<1>2. ArgsAre(f, k)
  BY <1>1, ArgsAreSteps
<1>3. ArgsAre(m, k)
  BY <1>2
<1>4. ResolvedAt(k) = m[Len(k)]
  BY Zenon DEF ResolvedAt, ArgsAre
<1> HIDE DEF m
<1> QED BY <1>3, <1>4

LEMMA ResolvedFirst == ASSUME NEW i PROVE ResolvedAt(<<i>>) = ArgsStep(<<>>, <<i>>, 1)
<1>1. Len(<<i>>) = 1
  OBVIOUS
<1>2. PICK f : ArgsAre(f, <<i>>) /\ ResolvedAt(<<i>>) = f[1]
  BY <1>1, ResolvedIs
<1>3. f[1] = ArgsStep(f[1 - 1], <<i>>, 1)
  <2>1. f = [n \in 1..1 |-> ArgsStep(f[n - 1], <<i>>, n)]
    BY <1>1, <1>2, ArgsAreSteps
  <2>2. 1 \in 1..1
    OBVIOUS
  <2> QED BY Zenon, <2>1, <2>2
<1> QED BY <1>2, <1>3, FirstArgs

LEMMA ResolvedNext ==
  ASSUME NEW h, NEW k, Len(h) \in Nat, Len(h) > 0, Len(k) = Len(h) + 1,
         \A n \in 1..Len(h) : k[n] = h[n]
  PROVE  ResolvedAt(k) = ArgsStep(ResolvedAt(h), k, Len(k))
<1>1. PICK f : ArgsAre(f, h) /\ ResolvedAt(h) = f[Len(h)]
  BY ResolvedIs
<1>2. PICK g : ArgsAre(g, k) /\ ResolvedAt(k) = g[Len(k)]
  BY ResolvedIs
<1>3. f[Len(h)] = g[Len(h)]
  BY <1>1, <1>2, ArgsAgree
<1>4. g[Len(k)] = ArgsStep(g[Len(k) - 1], k, Len(k))
  <2>1. Len(k) \in 1..Len(k)
    OBVIOUS
  <2> QED BY Zenon, <1>2, <2>1, ArgsAreSteps
<1>5. Len(k) - 1 = Len(h)
  OBVIOUS
<1> QED BY <1>1, <1>2, <1>3, <1>4, <1>5

LEMMA ParamsSeq ==
  ASSUME source \in Sources, NEW m \in Lines
  PROVE  \A o : Contains(ParamsOf(m), o) <=> o \in Range(ParamsOf(m))
<1>1. DOMAIN ParamsOf(m) = 1..Len(ParamsOf(m))
  <2>1. DOMAIN source[m].args = 1..Len(source[m].args)
    BY SourcesAssumption DEF Lines
  <2>2. DOMAIN <<"">> = 1..Len(<<"">>)
    OBVIOUS
  <2> QED BY Zenon, <2>1, <2>2 DEF ParamsOf
<1> DEFINE s == ParamsOf(m)
<1> HIDE DEF s
<1>2. DOMAIN s = 1..Len(s)
  BY <1>1 DEF s
<1>3. \A o : Contains(s, o) <=> o \in Range(s)
  BY <1>2 DEF Contains, Range
<1> QED BY <1>3 DEF s

LEMMA Replaced ==
  ASSUME NEW over, NEW m, NEW o
  PROVE  (CASE o \in DOMAIN over -> over[o]
            [] o \in DOMAIN m \ DOMAIN over -> m[o]
            [] OTHER -> o)
           = IF o \in DOMAIN over THEN over[o] ELSE IF o \in DOMAIN m THEN m[o] ELSE o
<1>1. CASE o \in DOMAIN over
  BY <1>1
<1>2. CASE o \notin DOMAIN over /\ o \in DOMAIN m
  BY <1>2
<1>3. CASE o \notin DOMAIN over /\ o \notin DOMAIN m
  BY <1>3
<1> QED BY <1>1, <1>2, <1>3

\* A line's operands are those that its way determines.
LEMMA OperandsAre ==
  ASSUME source \in Sources, Item.path \in Seq(Nat), Item.line \in Nat,
         NEW h, h = Key(Item), macros = Meaning[h[1]].macros,
         IF Item.path = <<>> THEN Item.over = Nothing
         ELSE Settled(Item) /\ Called(Last(Item.path), Meaning[h[1]].fns) \in Lines
  PROVE  Operands = ResolvedAt(h)
<1> DEFINE p == Item.path
           m == Meaning[h[1]].macros
<1>1. /\ Len(p) \in Nat /\ Len(h) = Len(p) + 1 /\ h[Len(h)] = Item.line
      /\ \A n \in 1..Len(p) : h[n] = p[n]
  <2>1. PICK q : q = Item.path
    OBVIOUS
  <2>2. PICK l : l = Item.line
    OBVIOUS
  <2>3. q \in Seq(Nat) /\ l \in Nat /\ h = Append(q, l)
    BY <2>1, <2>2 DEF Key
  <2>4. Len(q) \in Nat /\ Len(h) = Len(q) + 1 /\ h[Len(h)] = l /\ \A n \in 1..Len(q) : h[n] = q[n]
    BY <2>3, AppendOf
  <2> QED BY <2>1, <2>2, <2>4
<1>2. Line.args = source[h[Len(h)]].args
  BY <1>1 DEF Line
<1>3. CASE p = <<>>
  <2>1. Len(p) = 0 /\ Len(h) = 1
    BY <1>1, <1>3, EmptyIsSeq
  <2>2. h = <<Item.line>>
    BY <1>3, OwnKey
  <2>3. ResolvedAt(h) = ArgsStep(<<>>, h, 1)
    BY <2>2, ResolvedFirst
  <2>4. Params(h, 1) = <<>>
    BY DEF Params
  <2>5. ASSUME NEW o
        PROVE  ValueIn(<<>>, <<>>, m, o) = IF o \in DOMAIN macros THEN macros[o] ELSE o
    <3>1. ~Contains(<<>>, o)
      BY EmptyIsSeq DEF Contains
    <3> QED BY <3>1 DEF ValueIn
  <2>6. Item.over = Nothing /\ DOMAIN Nothing = {}
    BY <1>3 DEF Nothing
  <2>7. Operands = [k \in DOMAIN Line.args |->
                      IF Line.args[k] \in DOMAIN macros THEN macros[Line.args[k]] ELSE Line.args[k]]
    BY <2>6 DEF Operands
  <2>8. ArgsStep(<<>>, h, 1) = [k \in DOMAIN Line.args |-> ValueIn(<<>>, <<>>, m, Line.args[k])]
    <3>1. Line.args = source[h[1]].args
      BY <1>2, <2>1
    <3> QED BY Zenon, <2>4, <3>1 DEF ArgsStep
  <2>9. ArgsStep(<<>>, h, 1) = Operands
    BY Zenon, <2>5, <2>7, <2>8
  <2> QED BY <2>3, <2>9
<1>4. CASE p # <<>>
  <2>1. Len(p) > 0
    <3>1. PICK q : q = Item.path
      OBVIOUS
    <3>2. q \in Seq(Nat) /\ q # <<>>
      BY <1>4, <3>1
    <3>3. Len(q) > 0
      BY <3>2
    <3> QED BY <3>1, <3>3
  <2>2. h[1] = p[1] /\ h[Len(h) - 1] = Last(p) /\ Len(h) # 1
    <3> HIDE DEF p
    <3>1. 1 \in 1..Len(p) /\ Len(p) \in 1..Len(p) /\ Len(h) - 1 = Len(p) /\ Len(h) # 1
      BY <1>1, <2>1
    <3>2. h[1] = p[1] /\ h[Len(p)] = p[Len(p)]
      BY <1>1, <3>1
    <3>3. Last(p) = p[Len(p)]
      BY LastIs
    <3> QED BY <3>1, <3>2, <3>3
  <2>3. ResolvedAt(h) = ArgsStep(ResolvedAt(p), h, Len(h))
    BY <1>1, <2>1, ResolvedNext
  <2> DEFINE c == Called(Last(p), Meaning[h[1]].fns)
             f == ParamsOf(c)
             g == Given(p)
             last(o) == Max({n \in DOMAIN f : f[n] = o})
  <2>4. c \in Lines /\ Item.over = IF Shares(Item.line) THEN Nothing ELSE g
    BY <1>4 DEF Settled
  <2>5. Params(h, Len(h)) = IF Shares(Item.line) THEN <<>> ELSE f
    BY Zenon, <1>1, <2>2 DEF Params, Called
  <2>6. DOMAIN g = Range(f) /\ \A o \in Range(f) : g[o] = ResolvedAt(p)[last(o)]
    BY <2>2 DEF Given
  <2>7. \A o : Contains(f, o) <=> o \in Range(f)
    BY <2>4, ParamsSeq
  <2>8. \A o : ~Contains(<<>>, o)
    BY EmptyIsSeq DEF Contains
  <2>9. DOMAIN Nothing = {}
    BY DEF Nothing
  <2> HIDE DEF c, g
  <2>10. ASSUME NEW o
         PROVE  ValueIn(Params(h, Len(h)), ResolvedAt(p), m, o) =
                  IF o \in DOMAIN Item.over THEN Item.over[o]
                  ELSE IF o \in DOMAIN macros THEN macros[o] ELSE o
    <3>1. CASE Shares(Item.line)
      <4>1. ValueIn(<<>>, ResolvedAt(p), m, o) = IF o \in DOMAIN m THEN m[o] ELSE o
        BY Zenon, <2>8 DEF ValueIn
      <4>2. Item.over = Nothing /\ Params(h, Len(h)) = <<>>
        BY <2>4, <2>5, <3>1
      <4> QED BY <2>9, <4>1, <4>2
    <3>2. CASE ~Shares(Item.line)
      <4>1. Item.over = g /\ Params(h, Len(h)) = f
        BY <2>4, <2>5, <3>2
      <4>2. ValueIn(f, ResolvedAt(p), m, o) =
              IF o \in Range(f) THEN ResolvedAt(p)[last(o)] ELSE IF o \in DOMAIN m THEN m[o] ELSE o
        BY Zenon, <2>7 DEF ValueIn
      <4> HIDE DEF f, last
      <4>3. CASE o \in Range(f)
        BY <2>6, <4>1, <4>2, <4>3
      <4>4. CASE o \notin Range(f)
        BY <2>6, <4>1, <4>2, <4>4
      <4> QED BY <4>3, <4>4
    <3> QED BY <3>1, <3>2
  <2> HIDE DEF p
  <2>11. Operands = ArgsStep(ResolvedAt(p), h, Len(h))
    <3>1. Operands = [k \in DOMAIN Line.args |->
                        IF Line.args[k] \in DOMAIN Item.over THEN Item.over[Line.args[k]]
                        ELSE IF Line.args[k] \in DOMAIN macros THEN macros[Line.args[k]]
                        ELSE Line.args[k]]
      BY Zenon, Replaced DEF Operands
    <3> QED BY <1>2, <2>10, <3>1 DEF ArgsStep
  <2> QED BY <2>3, <2>11
<1> QED BY <1>3, <1>4

-----------------------------------------------------------------------------
(* Conditionals in macro functions.                                        *)

LEMMA OperandsSame ==
  ASSUME source' = source
  PROVE  /\ \A k : ResolvedAt(k)' = ResolvedAt(k)
         /\ \A h : Given(h)' = Given(h)
         /\ \A it : Settled(it)' <=> Settled(it)
<1>1. /\ Lines' = Lines /\ InMacro' = InMacro /\ \A m : ParamsOf(m)' = ParamsOf(m)
      /\ Meaning' = Meaning /\ BodyDepth' = BodyDepth
  BY LinesSame, MeaningSame, ShapeSame
<1>2. ASSUME NEW i PROVE Shares(i)' <=> Shares(i)
  BY <1>1 DEF Shares
<1>3. ASSUME NEW k PROVE ResolvedAt(k)' = ResolvedAt(k)
  BY <1>1 DEF ResolvedAt, Shares, ParamsOf
<1>4. ASSUME NEW h PROVE Given(h)' = Given(h)
  BY <1>1, <1>3 DEF Given, Called
<1>5. ASSUME NEW it PROVE Settled(it)' <=> Settled(it)
  BY <1>2, <1>4 DEF Settled
<1> QED BY <1>3, <1>4, <1>5

LEMMA ChainSame ==
  ASSUME source' = source
  PROVE  /\ \A s, a, b : Run(s, a, b)' <=> Run(s, a, b)
         /\ \A s, h : Chain(s, h)' <=> Chain(s, h)
         /\ \A s, l, h : BranchTo(s, l, h)' <=> BranchTo(s, l, h)
         /\ \A l : ElseBefore(l)' <=> ElseBefore(l)
<1>1. /\ Lines' = Lines /\ InMacro' = InMacro /\ BodyDepth' = BodyDepth
      /\ \A h : Given(h)' = Given(h)
      /\ \A it : Settled(it)' <=> Settled(it)
  BY LinesSame, ShapeSame, OperandsSame
<1>2. ASSUME NEW s, NEW a, NEW b PROVE Run(s, a, b)' <=> Run(s, a, b)
  BY <1>1 DEF Run
<1>3. ASSUME NEW s, NEW k, NEW h PROVE Ready(s, k, h)' <=> Ready(s, k, h)
  <2>1. \A a, b : Span(s, a, b)' <=> Span(s, a, b)
    BY <1>2 DEF Span
  <2>2. InSpan(s, k, h)' <=> InSpan(s, k, h)
    BY <2>1 DEF InSpan
  <2> QED BY <1>1, <2>2 DEF Ready
<1>4. ASSUME NEW s, NEW h PROVE Chain(s, h)' <=> Chain(s, h)
  BY <1>3 DEF Chain
<1>5. ASSUME NEW s, NEW l, NEW h PROVE BranchTo(s, l, h)' <=> BranchTo(s, l, h)
  BY <1>1 DEF BranchTo
<1>6. ASSUME NEW l PROVE ElseBefore(l)' <=> ElseBefore(l)
  BY <1>1 DEF ElseBefore
<1> QED BY <1>2, <1>4, <1>5, <1>6

\* A conditional is one wherever it is in a list.
LEMMA RunShift ==
  ASSUME NEW s, NEW t, NEW n \in Int, NEW a \in Int, NEW b \in Int, Run(s, a, b),
         \A k \in a..b : k + n \in DOMAIN t /\ t[k + n] = s[k]
  PROVE  Run(t, a + n, b + n)
<1>1. /\ a =< b /\ s[a].path # <<>> /\ s[b].d = "endif" /\ s[b].over = Given(s[a].path)
      /\ \A k \in a..b : /\ s[k].path = s[a].path /\ s[k].line = s[a].line + (k - a)
                         /\ s[k].line \in Lines /\ InMacro[s[k].line]
                         /\ s[k].d = source[s[k].line].d
                         /\ k < b => BodyDepth[s[k].line] = 1 /\ s[k].d # "endif"
                         /\ a < k => s[k].d \notin Ifs
  BY DEF Run
<1>2. a \in a..b /\ b \in a..b
  BY <1>1
<1>3. /\ a + n \in DOMAIN t /\ b + n \in DOMAIN t /\ a + n =< b + n
      /\ t[a + n] = s[a] /\ t[b + n] = s[b]
  BY <1>1, <1>2
<1>4. ASSUME NEW k \in (a + n)..(b + n)
      PROVE  /\ t[k].path = t[a + n].path /\ t[k].line = t[a + n].line + (k - (a + n))
             /\ t[k].line \in Lines /\ InMacro[t[k].line]
             /\ t[k].d = source[t[k].line].d
             /\ k < b + n => BodyDepth[t[k].line] = 1 /\ t[k].d # "endif"
             /\ a + n < k => t[k].d \notin Ifs
  <2>1. PICK j \in Int : j = k - n
    OBVIOUS
  <2>2. j \in a..b /\ j + n = k /\ k - (a + n) = j - a /\ (k < b + n <=> j < b) /\ (a + n < k <=> a < j)
    BY <2>1
  <2>3. t[k] = s[j]
    BY <2>2
  <2>4. /\ s[j].path = s[a].path /\ s[j].line = s[a].line + (j - a)
        /\ s[j].line \in Lines /\ InMacro[s[j].line]
        /\ s[j].d = source[s[j].line].d
        /\ j < b => BodyDepth[s[j].line] = 1 /\ s[j].d # "endif"
        /\ a < j => s[j].d \notin Ifs
    BY <1>1, <2>2
  <2> QED BY Zenon, <1>3, <2>2, <2>3, <2>4
<1> QED BY <1>1, <1>3, <1>4 DEF Run

LEMMA SpanShift ==
  ASSUME NEW s, NEW t, NEW n \in Int, NEW a \in Int, NEW b \in Int, Span(s, a, b),
         \A k \in a..b : k + n \in DOMAIN t /\ t[k + n] = s[k]
  PROVE  Span(t, a + n, b + n)
<1>1. Run(s, a, b) /\ s[a].d \in Ifs
  BY DEF Span
<1>2. a \in a..b
  BY <1>1 DEF Run
<1>3. t[a + n] = s[a]
  BY <1>2
<1>4. Run(t, a + n, b + n)
  BY <1>1, RunShift
<1> QED BY <1>1, <1>3, <1>4 DEF Span

\* What is ready in a list is so in one that it is the tail of, or continues.
LEMMA ChainTail ==
  ASSUME NEW s, IsSeq(s), s # <<>>, NEW h \in Nat, Chain(s, h),
         h = 0 => ~(s[1].path # <<>> /\ s[1].d \in Ifs)
  PROVE  Chain(Tail(s), IF h = 0 THEN 0 ELSE h - 1)
<1> DEFINE t == Tail(s)
           g == IF h = 0 THEN 0 ELSE h - 1
<1>1. /\ Len(s) \in Nat /\ DOMAIN s = 1..Len(s) /\ DOMAIN t = 1..(Len(s) - 1)
      /\ \A k \in DOMAIN t : t[k] = s[k + 1] /\ k + 1 \in DOMAIN s
  BY SeqFacts, TailSeq
<1> HIDE DEF t
<1> SUFFICES ASSUME NEW k \in DOMAIN t, g < k PROVE Ready(t, k, g)
  BY DEF Chain, t
<1>2. t[k] = s[k + 1] /\ k + 1 \in DOMAIN s /\ h < k + 1 /\ k \in Nat
  BY <1>1
<1>3. Ready(s, k + 1, h)
  BY <1>2 DEF Chain
<1>4. CASE InSpan(s, k + 1, h)
  <2>1. PICK a, b \in DOMAIN s : h < a /\ a =< k + 1 /\ k + 1 =< b /\ Span(s, a, b)
    BY <1>4 DEF InSpan
  <2>2. a \in 1..Len(s) /\ b \in 1..Len(s) /\ a \in Int /\ b \in Int /\ a =< b
    BY <1>1, <1>2, <2>1
  <2>3. s[a].d \in Ifs /\ s[a].path # <<>>
    BY <2>1 DEF Span, Run
  <2>4. a # 1
    BY <2>1, <2>2, <2>3
  <2>a. PICK m \in Int : m = -1
    OBVIOUS
  <2>5. a + m \in DOMAIN t /\ b + m \in DOMAIN t
        /\ g < a + m /\ a + m =< k /\ k =< b + m
    BY <1>1, <1>2, <2>1, <2>2, <2>4, <2>a
  <2>6. \A j \in a..b : j + m \in DOMAIN t /\ t[j + m] = s[j]
    <3>1. \A j \in a..b : j + m \in 1..(Len(s) - 1) /\ (j + m) + 1 = j
      BY <1>1, <2>2, <2>4, <2>a
    <3> QED BY <1>1, <3>1
  <2>7. Span(t, a + m, b + m)
    BY <2>1, <2>2, <2>6, SpanShift
  <2>8. InSpan(t, k, g)
    BY <2>5, <2>7 DEF InSpan
  <2>9. s[k + 1].path # <<>>
    <3>1. k + 1 \in a..b
      BY <1>2, <2>1, <2>2
    <3> QED BY <2>1, <3>1 DEF Span, Run
  <2> QED BY <1>2, <2>8, <2>9 DEF Ready
<1>5. CASE ~InSpan(s, k + 1, h)
  BY <1>2, <1>3, <1>5 DEF Ready
<1> QED BY <1>4, <1>5

LEMMA ChainConcat ==
  ASSUME NEW u, IsSeq(u), NEW t, IsSeq(t), Chain(u, 0), Chain(t, 0) PROVE Chain(u \o t, 0)
<1> DEFINE s == u \o t
<1>1. /\ Len(u) \in Nat /\ DOMAIN u = 1..Len(u) /\ Len(t) \in Nat /\ DOMAIN t = 1..Len(t)
      /\ DOMAIN s = 1..(Len(u) + Len(t))
      /\ \A i \in DOMAIN u : s[i] = u[i]
      /\ \A i \in DOMAIN s : i \notin DOMAIN u => i - Len(u) \in DOMAIN t /\ s[i] = t[i - Len(u)]
  BY SeqFacts, ConcatSeq
<1> HIDE DEF s
<1> SUFFICES ASSUME NEW k \in DOMAIN s PROVE Ready(s, k, 0)
  BY DEF Chain, s
<1>2. k \in Nat /\ 0 < k
  BY <1>1
<1>3. CASE k \in DOMAIN u
  <2>1. Ready(u, k, 0) /\ s[k] = u[k]
    BY <1>1, <1>2, <1>3 DEF Chain
  <2>2. ASSUME InSpan(u, k, 0) PROVE InSpan(s, k, 0)
    <3>1. PICK a, b \in DOMAIN u : 0 < a /\ a =< k /\ k =< b /\ Span(u, a, b)
      BY <2>2 DEF InSpan
    <3>2. PICK m \in Int : m = 0
      OBVIOUS
    <3>3. a \in Int /\ b \in Int /\ \A j \in a..b : j \in 1..Len(u) /\ j + m = j
      BY <1>1, <3>1, <3>2
    <3>4. \A j \in a..b : j + m \in DOMAIN s /\ s[j + m] = u[j]
      BY <1>1, <3>3
    <3>5. Span(s, a + m, b + m)
      BY <3>1, <3>3, <3>4, SpanShift
    <3>6. a + m = a /\ b + m = b /\ a \in DOMAIN s /\ b \in DOMAIN s
      <4>1. a \in 1..Len(u) /\ b \in 1..Len(u)
        BY <1>1
      <4>2. a + m = a /\ b + m = b
        BY <1>1, <3>2, <3>3
      <4>3. a \in 1..(Len(u) + Len(t)) /\ b \in 1..(Len(u) + Len(t))
        BY <1>1, <4>1
      <4> QED BY <1>1, <4>2, <4>3
    <3>7. Span(s, a, b)
      BY <3>5, <3>6
    <3> QED BY <3>1, <3>6, <3>7 DEF InSpan
  <2> QED BY <2>1, <2>2 DEF Ready
<1>4. CASE k \notin DOMAIN u
  <2>1. PICK j : j = k - Len(u)
    OBVIOUS
  <2>2. j \in DOMAIN t /\ s[k] = t[j]
    BY <1>1, <1>4, <2>1
  <2>3. Ready(t, j, 0)
    BY <1>1, <2>2 DEF Chain
  <2>4. ASSUME InSpan(t, j, 0) PROVE InSpan(s, k, 0)
    <3>1. PICK a, b \in DOMAIN t : 0 < a /\ a =< j /\ j =< b /\ Span(t, a, b)
      BY <2>4 DEF InSpan
    <3>a. Len(u) \in Int
      BY <1>1
    <3>2. PICK m \in Int : m = Len(u)
      BY Zenon, <3>a
    <3>3. a \in 1..Len(t) /\ b \in 1..Len(t) /\ a \in Int /\ b \in Int
      <4>1. a \in 1..Len(t) /\ b \in 1..Len(t)
        BY Zenon, <1>1
      <4> QED BY <1>1, <4>1
    <3>4. ASSUME NEW i \in a..b PROVE i + m \in DOMAIN s /\ s[i + m] = t[i]
      <4>1. i \in DOMAIN t /\ i + m \in DOMAIN s /\ i + m \notin DOMAIN u /\ (i + m) - Len(u) = i
        BY <1>1, <3>2, <3>3
      <4> QED BY <1>1, <4>1
    <3>5. Span(s, a + m, b + m)
      BY <3>1, <3>3, <3>4, SpanShift
    <3>6. a + m \in DOMAIN s /\ b + m \in DOMAIN s /\ 0 < a + m /\ a + m =< k /\ k =< b + m
      BY <1>1, <1>2, <2>1, <3>1, <3>2, <3>3
    <3> QED BY <3>5, <3>6 DEF InSpan
  <2> QED BY <2>2, <2>3, <2>4 DEF Ready
<1> QED BY <1>3, <1>4


\* The conditionals that are open within a macro function.
LEMMA BodyDepthIs ==
  ASSUME source \in Sources
  PROVE  \A i \in Lines :
           /\ ~InMacro[i] => BodyDepth[i] = 0
           /\ InMacro[i] =>
                /\ source[i].d \in Ifs => BodyDepth[i] = BodyDepth[i - 1] + 1
                /\ source[i].d = "endif" => BodyDepth[i] = BodyDepth[i - 1] - 1
                /\ source[i].d \notin Ifs /\ source[i].d # "endif" => BodyDepth[i] = BodyDepth[i - 1]
<1>1. \A i \in Lines : BodyDepth[i] = DepthStep(BodyDepth[i - 1], TRUE, i)
  BY Zenon, DepthOfIs DEF BodyDepth
<1>2. \A i \in Lines : InMacro[i] \in BOOLEAN
  BY InMacroIs
<1> SUFFICES ASSUME NEW i \in Lines
             PROVE  /\ ~InMacro[i] => BodyDepth[i] = 0
                    /\ InMacro[i] =>
                        /\ source[i].d \in Ifs => BodyDepth[i] = BodyDepth[i - 1] + 1
                        /\ source[i].d = "endif" => BodyDepth[i] = BodyDepth[i - 1] - 1
                        /\ source[i].d \notin Ifs /\ source[i].d # "endif" =>
                             BodyDepth[i] = BodyDepth[i - 1]
  OBVIOUS
<1>3. CASE InMacro[i] = FALSE
  <2>1. BodyDepth[i] = 0
    BY Zenon, <1>1, <1>3 DEF DepthStep
  <2> QED BY <1>3, <2>1
<1>4. CASE InMacro[i] = TRUE
  BY <1>1, <1>4 DEF DepthStep, Ifs
<1> QED BY <1>2, <1>3, <1>4

\* At most one conditional is open at a time: they begin at B and end at E.
Levels(n, D, B, E) ==
  /\ D[0] = 0 /\ D[n] = 0
  /\ \A k \in 1..n : /\ D[k] \in {0, 1}
                     /\ k \in B => D[k] = D[k - 1] + 1 /\ k \notin E
                     /\ k \in E => D[k] = D[k - 1] - 1
                     /\ k \notin B /\ k \notin E => D[k] = D[k - 1]

FromTo(D, B, E, a, b) ==
  /\ a \in B /\ b \in E
  /\ \A i \in a..b : (i < b => D[i] = 1 /\ i \notin E) /\ (a < i => i \notin B)

\* All of its lines, from the first to the last, are in one stretch.
LEMMA Stretch ==
  ASSUME NEW n \in Nat, NEW D, NEW B, NEW E, Levels(n, D, B, E),
         NEW k \in 1..n, D[k] = 1 \/ k \in B \/ k \in E
  PROVE  \E a, b \in 1..n : a =< k /\ k =< b /\ FromTo(D, B, E, a, b)
<1>a. /\ D[0] = 0 /\ D[n] = 0
      /\ \A j \in 1..n : /\ D[j] \in {0, 1}
                         /\ j \in B => D[j] = D[j - 1] + 1 /\ j \notin E
                         /\ j \in E => D[j] = D[j - 1] - 1
                         /\ j \notin B /\ j \notin E => D[j] = D[j - 1]
  BY DEF Levels
<1>0. \A j \in 0..n : D[j] \in {0, 1}
  BY <1>a
<1> DEFINE Back(j) == \E a \in 1..j : a \in B /\ \A i \in a..j : D[i] = 1 /\ i \notin E /\ (a < i => i \notin B)
           Ahead(j) == \E b \in (j + 1)..n : b \in E /\ \A i \in (j + 1)..b : (i < b => D[i] = 1 /\ i \notin E)
                                                                           /\ i \notin B
           S == {j \in Nat : j \in 1..n /\ D[j] = 1 => Back(j)}
           T == {j \in Nat : n - j \in 1..n /\ D[n - j] = 1 => Ahead(n - j)}
<1>1. \A j \in 1..n : D[j] = 1 => Back(j)
  <2>1. 0 \in S
    OBVIOUS
  <2>2. ASSUME NEW j \in Nat, j \in S PROVE j + 1 \in S
    <3> SUFFICES ASSUME j + 1 \in 1..n, D[j + 1] = 1 PROVE Back(j + 1)
      OBVIOUS
    <3>0. (j + 1) - 1 = j
      OBVIOUS
    <3>1. CASE j + 1 \in B
      <4>1. j + 1 \notin E /\ \A i \in (j + 1)..(j + 1) : i = j + 1
        BY <1>a, <3>1
      <4>2. j + 1 \in 1..(j + 1)
        OBVIOUS
      <4> QED BY <3>1, <4>1, <4>2
    <3>2. CASE j + 1 \notin B
      <4>1. j \in 0..n
        OBVIOUS
      <4>2. D[j] \in {0, 1}
        BY <1>0, <4>1
      <4>3. D[j] = 1 /\ j + 1 \notin E
        BY <1>a, <3>0, <3>2, <4>2
      <4>4. j # 0
        BY <1>a, <4>3
      <4>5. PICK a \in 1..j : a \in B /\ \A i \in a..j : D[i] = 1 /\ i \notin E /\ (a < i => i \notin B)
        BY <2>2, <4>1, <4>3, <4>4
      <4>6. a \in 1..(j + 1) /\ \A i \in a..(j + 1) : i \in a..j \/ i = j + 1
        OBVIOUS
      <4> QED BY <3>2, <4>3, <4>5, <4>6
    <3> QED BY <3>1, <3>2
  <2> HIDE DEF S
  <2>3. Nat \subseteq S
    BY <2>1, <2>2, NatSetInduction
  <2> HIDE DEF Back
  <2> QED BY <2>3 DEF S
<1>2. \A j \in 1..n : D[j] = 1 => Ahead(j)
  <2>1. 0 \in T
    BY <1>a
  <2>2. ASSUME NEW g \in Nat, g \in T PROVE g + 1 \in T
    <3> DEFINE j == n - (g + 1)
    <3> SUFFICES ASSUME j \in 1..n, D[j] = 1 PROVE Ahead(j)
      OBVIOUS
    <3>0. n - g = j + 1 /\ j + 1 \in 1..n /\ (j + 1) - 1 = j /\ j \in Nat
      OBVIOUS
    <3>a. j + 1 \in 1..n /\ D[j + 1] = 1 => Ahead(j + 1)
      <4> HIDE DEF j, Ahead
      <4> QED BY <2>2, <3>0
    <3> HIDE DEF j, S, T
    <3>1. j + 1 \notin B
      BY <1>a, <3>0
    <3>2. CASE j + 1 \in E
      <4>1. \A i \in (j + 1)..(j + 1) : i = j + 1
        BY <3>0
      <4>2. j + 1 \in (j + 1)..n
        BY <3>0
      <4> QED BY <3>1, <3>2, <4>1, <4>2
    <3>3. CASE j + 1 \notin E
      <4>1. D[j + 1] = 1
        BY <1>a, <3>0, <3>1, <3>3
      <4>2. PICK b \in (j + 2)..n : b \in E /\ \A i \in (j + 2)..b : (i < b => D[i] = 1 /\ i \notin E)
                                                                  /\ i \notin B
        <5>1. (j + 1) + 1 = j + 2
          BY <3>0
        <5> QED BY <3>0, <3>a, <4>1, <5>1
      <4>3. b \in (j + 1)..n /\ \A i \in (j + 1)..b : i \in (j + 2)..b \/ i = j + 1
        BY <3>0
      <4> QED BY <3>1, <3>3, <4>1, <4>2, <4>3
    <3> QED BY <3>2, <3>3
  <2> HIDE DEF T
  <2>3. Nat \subseteq T
    BY <2>1, <2>2, NatSetInduction
  <2> HIDE DEF Ahead
  <2>4. ASSUME NEW j \in 1..n, D[j] = 1 PROVE Ahead(j)
    <3>1. n - j \in Nat /\ n - (n - j) = j
      OBVIOUS
    <3> QED BY <2>3, <2>4, <3>1 DEF T
  <2> QED BY <2>4
<1> HIDE DEF S, T
<1>3. CASE D[k] = 1
  <2>1. PICK a \in 1..k : a \in B /\ \A i \in a..k : D[i] = 1 /\ i \notin E /\ (a < i => i \notin B)
    BY <1>1, <1>3
  <2>2. PICK b \in (k + 1)..n : b \in E /\ \A i \in (k + 1)..b : (i < b => D[i] = 1 /\ i \notin E)
                                                             /\ i \notin B
    BY <1>2, <1>3
  <2>3. a \in 1..n /\ b \in 1..n /\ a =< k /\ k =< b
        /\ \A i \in a..b : i \in a..k \/ i \in (k + 1)..b
    OBVIOUS
  <2>4. \A i \in a..b : (i < b => D[i] = 1 /\ i \notin E) /\ (a < i => i \notin B)
    BY <2>1, <2>2, <2>3
  <2> QED BY <2>1, <2>2, <2>3, <2>4 DEF FromTo
<1>4. CASE D[k] # 1
  <2>1. k - 1 \in 0..n
    OBVIOUS
  <2>2. D[k - 1] \in {0, 1}
    BY <1>0, <2>1
  <2>3. k \in E /\ k \notin B /\ D[k - 1] = 1
    BY <1>a, <1>4, <2>2
  <2>4. k - 1 \in 1..n
    BY <1>a, <2>1, <2>3
  <2>5. PICK a \in 1..(k - 1) : a \in B /\ \A i \in a..(k - 1) : D[i] = 1 /\ i \notin E /\ (a < i => i \notin B)
    BY <1>1, <2>3, <2>4
  <2>6. a \in 1..n /\ a =< k /\ \A i \in a..k : (i < k => i \in a..(k - 1)) /\ (i \in a..(k - 1) \/ i = k)
    OBVIOUS
  <2>7. \A i \in a..k : (i < k => D[i] = 1 /\ i \notin E) /\ (a < i => i \notin B)
    BY <2>3, <2>5, <2>6
  <2>8. k =< k
    OBVIOUS
  <2> QED BY <2>3, <2>5, <2>6, <2>7, <2>8 DEF FromTo
<1> QED BY <1>3, <1>4

\* What a call stands for is lines to assemble and whole conditionals.
LEMMA BodyChain ==
  ASSUME source \in Sources, Balanced, NEW m \in Lines, IsDirective(m, {"macro"}), NEW b,
         Whole(m, b), IsSeq(b), NEW h, h # <<>>, NEW u, DOMAIN u = DOMAIN b,
         \A k \in DOMAIN b : /\ u[k].path = h /\ u[k].line = b[k].line /\ u[k].d = b[k].d
                             /\ u[k].over = Given(h)
  PROVE  Chain(u, 0)
<1>1. N \in Nat /\ Lines = 1..N /\ ~InMacro[m]
  BY SourceFacts DEF IsDirective
<1> SUFFICES ASSUME NEW k \in DOMAIN u PROVE Settled(u[k]) \/ InSpan(u, k, 0)
  BY DEF Chain, Ready
<1>2. CASE ~source[m].more
  <2>1. b[k].line = m /\ b[k].d = "ins"
    BY <1>2 DEF Whole
  <2>2. u[k].path = h /\ u[k].line = m /\ u[k].d = "ins" /\ u[k].over = Given(h)
    BY <2>1
  <2>3. ~Shares(m)
    BY <1>1 DEF Shares
  <2> QED BY <2>2, <2>3 DEF Settled, Directives, Conditional
<1>3. CASE source[m].more
  <2>1. /\ {b[j].line : j \in DOMAIN b} = BodyOf(m)
        /\ \A j \in DOMAIN b : b[j].line = m + j /\ b[j].d = source[m + j].d
    BY <1>3 DEF Whole
  <2>2. PICK n \in Nat : DOMAIN b = 1..n
    BY SeqFacts
  <2>3. ASSUME NEW j \in 1..n
        PROVE  /\ u[j].path = h /\ u[j].line = m + j /\ u[j].d = source[m + j].d
               /\ u[j].over = Given(h) /\ m + j \in BodyOf(m) /\ m + j \in Lines /\ InMacro[m + j]
    <3>1. j \in DOMAIN b
      BY <2>2
    <3>2. b[j].line = m + j /\ b[j].d = source[m + j].d /\ m + j \in BodyOf(m)
      BY <2>1, <3>1
    <3>3. m + j \in Lines /\ InMacro[m + j]
      BY <1>3, <3>2, BodyIn
    <3> QED BY <3>1, <3>2, <3>3
  <2>4. n # 0
    BY <2>2
  <2> DEFINE D == [j \in 0..n |-> BodyDepth[m + j]]
             B == {j \in 1..n : source[m + j].d \in Ifs}
             E == {j \in 1..n : source[m + j].d = "endif"}
  <2>5. D[0] = 0
    <3>1. BodyDepth[m] = 0
      BY <1>1, BodyDepthIs
    <3>2. 0 \in 0..n /\ m + 0 = m
      BY <1>1
    <3> QED BY <3>1, <3>2
  <2>6. ASSUME NEW j \in 1..n
        PROVE  /\ D[j] = BodyDepth[m + j] /\ D[j] \in {0, 1}
               /\ j \in B => D[j] = D[j - 1] + 1 /\ j \notin E
               /\ j \in E => D[j] = D[j - 1] - 1
               /\ j \notin B /\ j \notin E => D[j] = D[j - 1]
    <3>1. j \in 0..n /\ j - 1 \in 0..n /\ m + (j - 1) = (m + j) - 1
      BY <1>1
    <3>2. D[j] = BodyDepth[m + j] /\ D[j - 1] = BodyDepth[(m + j) - 1]
      BY <3>1
    <3>3. m + j \in Lines /\ InMacro[m + j]
      BY <2>3
    <3>4. BodyDepth[m + j] \in {0, 1}
      BY <3>3 DEF Balanced
    <3>5. /\ source[m + j].d \in Ifs => BodyDepth[m + j] = BodyDepth[(m + j) - 1] + 1
          /\ source[m + j].d = "endif" => BodyDepth[m + j] = BodyDepth[(m + j) - 1] - 1
          /\ source[m + j].d \notin Ifs /\ source[m + j].d # "endif" =>
               BodyDepth[m + j] = BodyDepth[(m + j) - 1]
      BY <3>3, BodyDepthIs
    <3>6. "endif" \notin Ifs
      BY DEF Ifs
    <3> HIDE DEF D
    <3> QED BY <3>2, <3>4, <3>5, <3>6
  <2>7. D[n] = 0
    <3>1. n \in 1..n
      BY <2>4
    <3>2. m + n \in Lines /\ InMacro[m + n] /\ m + n \in BodyOf(m) /\ D[n] = BodyDepth[m + n]
      BY <2>3, <2>6, <3>1
    <3>3. ASSUME source[m + n].more PROVE FALSE
      <4>1. m + n < N
        BY <3>2, <3>3 DEF Balanced, WellFormed, N
      <4>2. (m + n) + 1 \in Lines
        BY <1>1, <3>2, <4>1
      <4>3. InMacro[(m + n) + 1]
        BY <3>2, <3>3, <4>2, InMacroIs
      <4>4. \A i \in (m + 1)..(m + n) : InMacro[i]
        BY <1>3, <3>2, BodyIn
      <4>5. \A i \in (m + 1)..((m + n) + 1) : InMacro[i]
        <5>1. \A i \in (m + 1)..((m + n) + 1) : i \in (m + 1)..(m + n) \/ i = (m + n) + 1
          BY <1>1
        <5> QED BY <4>3, <4>4, <5>1
      <4>6. (m + n) + 1 \in BodyOf(m)
        <5>1. (m + n) + 1 > m
          BY <1>1
        <5> QED BY <1>3, <4>2, <4>5, <5>1 DEF BodyOf
      <4>7. PICK j \in DOMAIN b : b[j].line = (m + n) + 1
        BY <2>1, <4>6
      <4>8. j \in 1..n /\ m + j = (m + n) + 1
        BY <2>1, <2>2, <4>7
      <4> QED BY <1>1, <4>8
    <3> QED BY <3>2, <3>3 DEF Balanced
  <2>8. k \in 1..n
    BY <2>2
  <2> HIDE DEF D, B, E
  <2>9. CASE D[k] = 1 \/ k \in B \/ k \in E
    <3>0. Levels(n, D, B, E)
      BY <2>5, <2>6, <2>7 DEF Levels
    <3>1. PICK a, e \in 1..n : a =< k /\ k =< e /\ FromTo(D, B, E, a, e)
      BY <2>8, <2>9, <3>0, Stretch
    <3>a. /\ a \in B /\ e \in E
          /\ \A i \in a..e : (i < e => D[i] = 1 /\ i \notin E) /\ (a < i => i \notin B)
      BY <3>1 DEF FromTo
    <3>2. ASSUME NEW i \in a..e
          PROVE  /\ u[i].path = u[a].path /\ u[i].line = u[a].line + (i - a)
                 /\ u[i].line \in Lines /\ InMacro[u[i].line]
                 /\ u[i].d = source[u[i].line].d
                 /\ i < e => BodyDepth[u[i].line] = 1 /\ u[i].d # "endif"
                 /\ a < i => u[i].d \notin Ifs
      <4>1. i \in 1..n
        BY <3>1
      <4>2. /\ u[i].path = h /\ u[i].line = m + i /\ u[i].d = source[m + i].d
            /\ m + i \in Lines /\ InMacro[m + i] /\ D[i] = BodyDepth[m + i]
        BY <2>3, <2>6, <4>1
      <4>3. u[a].path = h /\ u[a].line = m + a
        BY <2>3
      <4>4. m + i = (m + a) + (i - a)
        BY <1>1
      <4>5. (i < e => D[i] = 1 /\ i \notin E) /\ (a < i => i \notin B)
        BY <3>a
      <4> QED BY <4>1, <4>2, <4>3, <4>4, <4>5 DEF B, E
    <3>3. /\ a \in DOMAIN u /\ e \in DOMAIN u /\ a =< e /\ 0 < a
      BY <2>2, <2>8, <3>1
    <3>4. u[a].path # <<>> /\ u[e].d = "endif" /\ u[e].over = Given(u[a].path) /\ u[a].d \in Ifs
      BY <2>3, <3>a DEF B, E
    <3>5. Span(u, a, e)
      BY <3>2, <3>3, <3>4 DEF Span, Run
    <3>6. InSpan(u, k, 0)
      BY <3>1, <3>3, <3>5 DEF InSpan
    <3> QED BY <3>6
  <2>10. CASE ~(D[k] = 1 \/ k \in B \/ k \in E)
    <3>1. /\ u[k].path = h /\ u[k].line = m + k /\ u[k].d = source[m + k].d
          /\ u[k].over = Given(h) /\ m + k \in Lines /\ InMacro[m + k]
      BY <2>3, <2>8
    <3>2. BodyDepth[m + k] # 1
      BY <2>6, <2>8, <2>10
    <3>3. source[m + k].d \notin Ifs /\ source[m + k].d # "endif"
      BY <2>8, <2>10 DEF B, E
    <3>4. source[m + k].d \notin {"else", "elifdef", "elifndef"}
      BY <3>1, <3>2 DEF Balanced
    <3>5. source[m + k].d \in Conditional \cup {"ins", "call"}
      BY <3>1 DEF Balanced
    <3>6. u[k].d \notin Directives
      BY <3>1, <3>3, <3>4, <3>5 DEF Directives, Conditional, Ifs
    <3>7. ~Shares(m + k)
      BY <3>2 DEF Shares
    <3> QED BY <3>1, <3>6, <3>7 DEF Settled
  <2> QED BY <2>9, <2>10
<1> QED BY <1>2, <1>3

-----------------------------------------------------------------------------
(* Lines are as they will be assembled when they are reached.              *)

LEMMA FirstItem ==
  ASSUME OrderInv, todo # <<>>
  PROVE  /\ 1 \in DOMAIN todo /\ Item = todo[1] /\ IsItem(Item)
         /\ IsSeq(todo) /\ IsSeq(Tail(todo)) /\ Len(todo) \in Nat /\ DOMAIN todo = 1..Len(todo)
BY Popped, TailSeq, SeqFacts DEF OrderInv, Ordered, Items, Item

\* The operands of a line that is assembled are those that its way determines.
LEMMA PassOperands ==
  ASSUME source \in Sources, WellFormed, OrderInv, todo # <<>>, state = "passthrough",
         NEW p \in 1..(N + 1), NEW e \in 0..N, Placed(p, e), Item.d \notin Directives,
         Chain(todo, 0), NEW h, h = Key(Item)
  PROVE  Operands = ResolvedAt(h)
<1>1. /\ h \in Expanded /\ Last(h) = Item.line /\ Len(h) = Len(Item.path) + 1
      /\ Len(Item.path) \in Nat /\ macros = Meaning[h[1]].macros
  BY PassKey
<1>2. 1 \in DOMAIN todo /\ Item = todo[1] /\ IsItem(Item) /\ DOMAIN todo = 1..Len(todo)
      /\ Len(todo) \in Nat
  BY FirstItem
<1>3. Item.path \in Seq(Nat) /\ Item.line \in Nat
  BY <1>2 DEF IsItem
<1>4. IF Item.path = <<>> THEN Item.over = Nothing ELSE Settled(Item) \/ InSpan(todo, 1, 0)
  BY <1>2 DEF Chain, Ready
<1>5. ~InSpan(todo, 1, 0)
  <2> SUFFICES ASSUME NEW a \in DOMAIN todo, NEW b, 0 < a, a =< 1, Span(todo, a, b) PROVE FALSE
    BY DEF InSpan
  <2>1. a = 1
    BY <1>2
  <2>2. Item.d \in Ifs
    BY <1>2, <2>1 DEF Span
  <2> QED BY <2>2 DEF Ifs, Directives, Conditional
<1>6. CASE Item.path = <<>>
  BY <1>1, <1>3, <1>4, <1>6, OperandsAre
<1>7. CASE Item.path # <<>>
  <2>1. PICK q, l : q = Item.path /\ l = Item.line
    OBVIOUS
  <2>2. /\ q \in Seq(Nat) /\ q # <<>> /\ l \in Nat /\ h = Append(q, l)
    BY <1>3, <1>7, <2>1 DEF Key
  <2>3. Len(q) > 0 /\ Len(q) \in Nat
    BY <2>2
  <2>4. Len(h) = Len(q) + 1 /\ \A m \in 1..Len(q) : h[m] = q[m]
    BY <2>2, AppendOf
  <2>5. Len(q) \in 1..(Len(h) - 1) /\ h[Len(q)] = Last(q)
    BY <2>3, <2>4, LastIs
  <2>6. h[1] \in Lines /\ IsWay(h, h[1], Meaning[h[1]].fns)
    BY <1>1, ExpandedFacts, ExpandedIs
  <2>7. GoodCall(Last(q), Meaning[h[1]].fns)
    BY <2>5, <2>6 DEF IsWay
  <2>8. Called(Last(q), Meaning[h[1]].fns) \in Lines
    <3>1. h[1] \in 0..N
      BY <2>6, SourceFacts
    <3>2. \A x \in DOMAIN Meaning[h[1]].fns : Meaning[h[1]].fns[x] \in Lines
      BY <3>1, FnsLines
    <3> QED BY <2>7, <3>2 DEF GoodCall, Called
  <2>9. Settled(Item)
    BY <1>4, <1>5, <1>7
  <2> QED BY <1>1, <1>3, <1>7, <2>1, <2>8, <2>9, OperandsAre
<1> QED BY <1>6, <1>7

\* A call gives its operands to all that it stands for.
LEMMA CallChain == ASSUME Steady, Balanced, Call PROVE Chain(todo', 0)
<1>1. /\ todo # <<>> /\ state = "passthrough" /\ Item.d = "call" /\ Callable
  BY DEF Call, Passed, Ordinary
<1>2. source \in Sources /\ WellFormed /\ OrderInv /\ Sound /\ Well /\ Chain(todo, 0)
  BY DEF Steady
<1>3. PICK p \in 1..(N + 1), e \in 0..N : Placed(p, e)
  BY <1>2 DEF Well
<1>4. Item.d \notin Directives
  BY <1>1 DEF Directives, Conditional
<1>5. PICK h : h = Key(Item)
  OBVIOUS
<1>6. h \in Expanded /\ Last(h) = Item.line /\ FunctionsAre(functions, Meaning[h[1]].fns)
  BY <1>1, <1>2, <1>3, <1>4, <1>5, PassKey
<1>7. Operands = ResolvedAt(h)
  BY <1>1, <1>2, <1>3, <1>4, <1>5, PassOperands
<1>8. PICK x : x = Line.x
  OBVIOUS
<1>9. PICK f : f = functions[x]
  OBVIOUS
<1>10. PICK m : m = Called(Last(h), Meaning[h[1]].fns)
  OBVIOUS
<1>11. x \in DOMAIN functions /\ x \in DOMAIN Meaning[h[1]].fns /\ m = Meaning[h[1]].fns[x]
  BY <1>1, <1>6, <1>8, <1>10 DEF Callable, FunctionsAre, Called, Line
<1>12. f.params = ParamsOf(m) /\ Whole(m, f.body) /\ IsBody(f.body)
  BY <1>2, <1>6, <1>9, <1>11 DEF FunctionsAre, OrderInv, Bodies
<1>13. m \in Lines /\ IsDirective(m, {"macro"})
  <2>1. h[1] \in 0..N
    BY <1>2, <1>6, ExpandedFacts, SourceFacts
  <2> QED BY <1>2, <1>11, <2>1, FnsLines
<1> DEFINE b == f.body
           over == [q \in Range(f.params) |-> Operands[Max({k \in DOMAIN f.params : f.params[k] = q})]]
           u == [k \in DOMAIN b |-> [b[k] EXCEPT !.over = over, !.path = h]]
<1>14. over = Given(h)
  BY <1>7, <1>10, <1>12 DEF Given
<1>15. Append(Item.path, Item.line) = h
  BY <1>5 DEF Key
<1>16. todo' = u \o Tail(todo)
  <2>1. f = functions[Line.x]
    BY <1>8, <1>9
  <2> QED BY <1>15, <2>1 DEF Call
<1> HIDE DEF over
<1>17. ASSUME NEW k \in DOMAIN b
       PROVE  u[k].path = h /\ u[k].line = b[k].line /\ u[k].d = b[k].d /\ u[k].over = Given(h)
  <2>1. DOMAIN b[k] = {"line", "d", "more", "over", "path"}
    BY <1>12 DEF IsBody, Items, IsItem
  <2> QED BY <1>14, <2>1
<1>18. IsSeq(b) /\ DOMAIN u = DOMAIN b
  BY <1>12 DEF IsBody, Items
<1>19. IsSeq(u)
  <2>1. Len(b) \in Nat /\ DOMAIN b = 1..Len(b)
    BY <1>18, SeqFacts
  <2>2. u = [k \in 1..Len(b) |-> u[k]]
    BY <2>1
  <2> HIDE DEF u
  <2> QED BY <2>1, <2>2, FunctionIsSeq
<1>20. h # <<>>
  BY <1>2, <1>5, FirstItem, <1>1, KeyFacts
<1> HIDE DEF b, u
<1>21. Chain(u, 0)
  BY <1>2, <1>12, <1>13, <1>17, <1>18, <1>20, BodyChain DEF b
<1>22. Chain(Tail(todo), 0) /\ IsSeq(Tail(todo))
  <2>1. IsSeq(todo) /\ todo[1] = Item /\ IsSeq(Tail(todo))
    BY <1>1, <1>2, FirstItem
  <2>2. ~(todo[1].path # <<>> /\ todo[1].d \in Ifs)
    BY <1>4, <2>1 DEF Ifs, Directives, Conditional
  <2>3. Chain(Tail(todo), IF 0 = 0 THEN 0 ELSE 0 - 1)
    BY <1>1, <1>2, <2>1, <2>2, ChainTail
  <2> QED BY <2>1, <2>3
<1>23. Chain(u \o Tail(todo), 0)
  BY <1>19, <1>21, <1>22, ChainConcat
<1> QED BY <1>16, <1>23

\* In a conditional or a macro function of the source only its own lines come.
LEMMA OwnInside ==
  ASSUME Steady, todo # <<>>, state # "passthrough" PROVE Item.path = <<>>
<1>1. PreprocessorInv /\ OrderInv
  BY DEF Steady
<1>2. CASE state = "ifdef"
  BY <1>2, ConditionalHead DEF Inside
<1>3. CASE state = "define"
  <2>1. OfSource(todo)
    BY <1>1, <1>3 DEF OrderInv, OfFunction
  <2>2. 1 \in DOMAIN todo /\ Item = todo[1]
    BY <1>1, FirstItem
  <2> QED BY <2>1, <2>2 DEF OfSource
<1> QED BY <1>1, <1>2, <1>3 DEF PreprocessorInv

LEMMA ChainPasses ==
  ASSUME OrderInv, todo # <<>>, Chain(todo, 0), Item.path = <<>> \/ Item.d \notin Ifs
  PROVE  Chain(Tail(todo), 0)
<1>1. IsSeq(todo) /\ todo[1] = Item
  BY FirstItem
<1>2. ~(todo[1].path # <<>> /\ todo[1].d \in Ifs)
  BY <1>1
<1>3. Chain(Tail(todo), IF 0 = 0 THEN 0 ELSE 0 - 1)
  BY <1>1, <1>2, ChainTail
<1> QED BY <1>3

\* A branch in the source itself has no operands to replace.
LEMMA ChainEndif == ASSUME Steady, Balanced, Endif PROVE Chain(todo', 0)
<1>1. /\ todo # <<>> /\ state = "ifdef" /\ Item.d = "endif"
      /\ todo' = IF Top.value THEN Branched(Top.body) \o Tail(todo) ELSE Tail(todo)
  BY DEF Endif, Open, At
<1>2. PreprocessorInv /\ OrderInv /\ Chain(todo, 0)
  BY DEF Steady
<1>3. Inside(Item.line)
  BY <1>1, ConditionalHead
<1>4. Item.path = <<>> /\ OfSource(Collected)
  BY <1>3 DEF Inside
<1>5. 1 \in DOMAIN todo /\ Item = todo[1] /\ IsSeq(Tail(todo))
  BY <1>1, <1>2, FirstItem
<1>6. Item.over = Nothing
  BY <1>2, <1>4, <1>5 DEF Chain, Ready
<1>7. Chain(Tail(todo), 0)
  BY <1>1, <1>2, <1>4, ChainPasses
<1>8. Top.body = Collected /\ Items(Collected)
  BY <1>1, <1>2, CollectedInStack DEF OrderInv, Ordered
<1> DEFINE u == Branched(Collected)
<1>9. IsSeq(u)
  BY <1>8, ValuesBranched
<1>10. u = [k \in DOMAIN Collected |-> [Collected[k] EXCEPT !.over = Nothing]]
  BY <1>6 DEF Branched
<1> HIDE DEF u
<1>11. Chain(u, 0)
  <2> SUFFICES ASSUME NEW k \in DOMAIN u PROVE Ready(u, k, 0)
    BY DEF Chain
  <2>1. k \in DOMAIN Collected /\ u[k] = [Collected[k] EXCEPT !.over = Nothing]
    BY <1>10
  <2>2. DOMAIN Collected[k] = {"line", "d", "more", "over", "path"} /\ Collected[k].path = <<>>
    BY <1>4, <1>8, <2>1 DEF Items, IsItem, OfSource
  <2>3. u[k].path = <<>> /\ u[k].over = Nothing
    BY <2>1, <2>2
  <2> QED BY <2>3 DEF Ready
<1>12. Chain(u \o Tail(todo), 0)
  BY <1>5, <1>7, <1>9, <1>11, ChainConcat
<1> QED BY <1>1, <1>7, <1>8, <1>12 DEF u

LEMMA ChainStep ==
  ASSUME Steady, Balanced, Next, Ifdef => Item.path = <<>>, ~failed' PROVE Chain(todo', 0)
<1>1. OrderInv /\ PreprocessorInv /\ Chain(todo, 0)
  BY DEF Steady
<1>2. CASE Endif
  BY <1>2, ChainEndif
<1>3. CASE Call
  BY <1>3, CallChain
<1>4. CASE Lone \/ BadCall \/ Recursion
  BY <1>4 DEF Lone, BadCall, Recursion
<1>5. CASE Ifdef \/ Define \/ DefineFunction
  <2>1. todo # <<>> /\ todo' = Tail(todo) /\ (Item.path = <<>> \/ Item.d \notin Ifs)
    BY <1>5 DEF Ifdef, Define, DefineFunction, At, Ifs
  <2> QED BY <1>1, <2>1, ChainPasses
<1>6. CASE Pass \/ PassEqu \/ PassLabel
  <2>1. todo # <<>> /\ todo' = Tail(todo) /\ Item.d \notin Ifs
    BY <1>6 DEF Pass, PassEqu, PassLabel, Passed, Ordinary, Ifs
  <2> QED BY <1>1, <2>1, ChainPasses
<1>7. CASE SkipRest \/ Elifdef \/ Else \/ Eat \/ EatLast \/ Drop
  <2>1. todo # <<>> /\ todo' = Tail(todo)
    BY <1>7 DEF SkipRest, Elifdef, Else, Eat, EatLast, Drop, Open, At, Ordinary
  <2>2. state # "passthrough"
    <3>1. hungry => state # "passthrough"
      BY <1>1 DEF PreprocessorInv, Outside
    <3> QED BY <1>7, <3>1 DEF SkipRest, Elifdef, Else, Eat, EatLast, Drop, Open
  <2> QED BY <1>1, <2>1, <2>2, OwnInside, ChainPasses
<1> QED BY <1>2, <1>3, <1>4, <1>5, <1>6, <1>7 DEF Next

-----------------------------------------------------------------------------
(* A conditional within a macro function.                                  *)

\* After a conditional that comes first the list is as it was.
LEMMA SpanThen ==
  ASSUME NEW s, IsSeq(s), Chain(s, 0), NEW b, Span(s, 1, b) PROVE Chain(s, b)
<1>1. /\ 1 \in DOMAIN s /\ b \in DOMAIN s /\ 1 =< b /\ s[b].d = "endif" /\ s[1].d \in Ifs
      /\ \A k \in 1..b : 1 < k => s[k].d \notin Ifs
  BY DEF Span, Run
<1>2. Len(s) \in Nat /\ DOMAIN s = 1..Len(s)
  BY SeqFacts
<1> SUFFICES ASSUME NEW k \in DOMAIN s, b < k PROVE Ready(s, k, b)
  BY DEF Chain
<1>3. b \in Nat /\ k \in Nat /\ 0 < k
  BY <1>1, <1>2
<1>4. Ready(s, k, 0)
  BY <1>3 DEF Chain
<1>5. ASSUME InSpan(s, k, 0) PROVE InSpan(s, k, b)
  <2>1. PICK f, g \in DOMAIN s : 0 < f /\ f =< k /\ k =< g /\ Span(s, f, g)
    BY <1>5 DEF InSpan
  <2>2. f \in Nat /\ g \in Nat
    BY <1>2, <2>1
  <2>3. b < f
    <3> SUFFICES ASSUME f =< b PROVE FALSE
      BY <1>3, <2>2
    <3>1. s[f].d \in Ifs
      BY <2>1 DEF Span
    <3>2. f \in 1..b /\ ~(1 < f)
      BY <1>1, <1>3, <2>1, <2>2, <3>1
    <3>3. b \in f..g /\ b < g
      BY <1>3, <2>1, <2>2, <3>2
    <3> QED BY <1>1, <2>1, <3>3 DEF Span, Run
  <2> QED BY <2>1, <2>3 DEF InSpan
<1> QED BY <1>4, <1>5 DEF Ready

\* A line of a macro function is not a line of the source.
LEMMA NotOnCall ==
  ASSUME NEW it, IsItem(it), it.path # <<>>, NEW k \in Seq(Nat), Len(k) = 1
  PROVE  ~Extends(Key(it), k)
<1>1. it.path \in Seq(Nat) /\ it.line \in Nat
  BY DEF IsItem
<1>2. PICK p, j : p = it.path /\ j = it.line
  OBVIOUS
<1>3. Len(p) > 0 /\ Len(p) \in Nat
  BY <1>1, <1>2
<1>4. Len(Append(p, j)) = Len(p) + 1
  BY <1>1, <1>2, AppendOf
<1>5. Key(it) = Append(p, j)
  BY <1>2 DEF Key
<1> QED BY <1>3, <1>4, <1>5 DEF Extends

\* Macro functions that are balanced have no labels.
LEMMA LabelWays ==
  ASSUME source \in Sources, Balanced, NEW k \in Expanded, IsLabel(k)
  PROVE  k \in Seq(Nat) /\ Len(k) = 1
<1>1. /\ k \in Seq(Nat) /\ Len(k) \in Nat /\ Len(k) > 0 /\ k[1] \in Lines
      /\ Last(k) = k[Len(k)] /\ Last(k) \in Lines
  BY ExpandedFacts
<1> SUFFICES ASSUME Len(k) # 1 PROVE FALSE
  BY <1>1
<1>2. PICK m : m = Len(k) - 1
  OBVIOUS
<1>3. m \in 1..(Len(k) - 1) /\ m + 1 = Len(k)
  BY <1>1, <1>2
<1>4. PICK fns : fns = Meaning[k[1]].fns
  OBVIOUS
<1>5. GoodCall(k[m], fns) /\ k[m + 1] \in BodyOf(Called(k[m], fns))
  BY <1>3, <1>4, ExpandedIs DEF IsWay
<1>6. PICK f : f = Called(k[m], fns)
  OBVIOUS
<1>7. f \in Lines /\ IsDirective(f, {"macro"})
  <2>1. k[1] \in 0..N
    BY <1>1, SourceFacts
  <2> QED BY <1>4, <1>5, <1>6, <2>1, FnsLines DEF GoodCall, Called
<1>8. Last(k) \in BodyOf(f)
  BY <1>1, <1>3, <1>5, <1>6
<1>9. source[Last(k)].d = "label"
  BY DEF IsLabel
<1>10. CASE source[f].more
  <2>1. Last(k) > f /\ \A j \in (f + 1)..Last(k) : InMacro[j]
    BY <1>8, <1>10 DEF BodyOf
  <2>2. Last(k) \in (f + 1)..Last(k)
    BY <1>1, <1>7, <2>1, SourceFacts
  <2>3. source[Last(k)].d \in Conditional \cup {"ins", "call"}
    BY <1>1, <2>1, <2>2 DEF Balanced
  <2> QED BY <1>9, <2>3 DEF Conditional
<1>11. CASE ~source[f].more
  <2>1. Last(k) = f
    BY <1>8, <1>11 DEF BodyOf
  <2> QED BY <1>7, <1>9, <2>1 DEF IsDirective
<1> QED BY <1>10, <1>11

LEMMA SymbolsStay ==
  ASSUME source' = source, symbols' = symbols, source \in Sources, Balanced, SymbolsRead,
         \A k \in Expanded : k \in Seq(Nat) /\ Len(k) = 1 => (Pending(k)' <=> Pending(k))
  PROVE  SymbolsRead'
<1>1. /\ ConstNames' = ConstNames
      /\ \A k : (IsLabel(k)' <=> IsLabel(k)) /\ Name(k)' = Name(k)
  BY LinesSame
<1>2. Expanded' = Expanded
  BY MeaningSame
<1>3. \A k \in Expanded : IsLabel(k) => (Pending(k)' <=> Pending(k))
  BY LabelWays
<1>4. \A k : IsLabel(k) => (k \in Read' <=> k \in Read)
  BY <1>2, <1>3 DEF Read
<1>5. Labels(Read)' = Labels(Read)
  <2>1. Labels(Read)' = {Name(k) : k \in {k \in Read' : IsLabel(k)}}
    BY <1>1 DEF Labels
  <2>2. {k \in Read' : IsLabel(k)} = {k \in Read : IsLabel(k)}
    BY <1>4
  <2> QED BY <2>1, <2>2 DEF Labels
<1> QED BY <1>1, <1>5 DEF SymbolsRead

\* The next line, and how the conditional goes on if it does not end there.
InnerTail(h) ==
  /\ Tail(todo) # <<>> /\ IsSeq(Tail(todo)) /\ h - 1 \in DOMAIN Tail(todo)
  /\ Run(Tail(todo), 1, h - 1) /\ Chain(Tail(todo), h - 1)
  /\ Tail(todo)[1].line = Item.line + 1 /\ Tail(todo)[1].line \in Lines
  /\ Tail(todo)[1].path = Item.path /\ Tail(todo)[1].d \notin Ifs

LEMMA InnerHead ==
  ASSUME OrderInv, todo # <<>>, NEW h \in DOMAIN todo, Run(todo, 1, h), Chain(todo, h)
  PROVE  /\ Item = todo[1] /\ IsItem(Item) /\ h \in Nat /\ h >= 1
         /\ Item.path # <<>> /\ Item.line \in Lines /\ InMacro[Item.line]
         /\ Item.d = source[Item.line].d
         /\ IF h = 1 THEN Item.d = "endif" /\ Item.over = Given(Item.path)
            ELSE Item.d # "endif" /\ BodyDepth[Item.line] = 1 /\ InnerTail(h)
<1>1. /\ 1 \in DOMAIN todo /\ Item = todo[1] /\ IsItem(Item) /\ IsSeq(todo)
      /\ Len(todo) \in Nat /\ DOMAIN todo = 1..Len(todo)
  BY FirstItem
<1>2. h \in Nat /\ h >= 1 /\ 1 \in 1..h
  BY <1>1
<1>3. /\ todo[1].path # <<>>
      /\ \A k \in 1..h : /\ todo[k].path = todo[1].path /\ todo[k].line = todo[1].line + (k - 1)
                         /\ todo[k].line \in Lines /\ InMacro[todo[k].line]
                         /\ todo[k].d = source[todo[k].line].d
                         /\ k < h => BodyDepth[todo[k].line] = 1 /\ todo[k].d # "endif"
                         /\ 1 < k => todo[k].d \notin Ifs
      /\ todo[h].d = "endif" /\ todo[h].over = Given(todo[1].path)
  BY DEF Run
<1>4. ASSUME h # 1 PROVE InnerTail(h)
  <2> DEFINE t == Tail(todo)
  <2>1. /\ IsSeq(t) /\ DOMAIN t = 1..(Len(todo) - 1)
        /\ \A k \in DOMAIN t : t[k] = todo[k + 1] /\ k + 1 \in DOMAIN todo
    <3>1. /\ IsSeq(t) /\ \A k \in DOMAIN t : t[k] = todo[k + 1] /\ k + 1 \in DOMAIN todo
      BY <1>1, TailSeq
    <3>2. Len(t) = Len(todo) - 1
      BY <1>1, HeadTailProperties DEF IsSeq
    <3> QED BY <3>1, <3>2, SeqFacts
  <2>2. 1 \in DOMAIN t /\ h - 1 \in DOMAIN t /\ t[1] = todo[2] /\ 2 \in 1..h
    BY <1>1, <1>2, <1>4, <2>1
  <2>3. t # <<>>
    BY <2>2, EmptyIsSeq
  <2> HIDE DEF t
  <2>4. Run(t, 1, h - 1)
    <3>1. h - 1 >= 1 /\ \A k \in 1..(h - 1) : k \in DOMAIN t /\ k + 1 \in 1..h /\ 1 < k + 1
      BY <1>1, <1>2, <1>4, <2>1
    <3>2. t[1].path = todo[1].path /\ t[1].line = todo[1].line + 1
      BY <1>3, <2>2
    <3>3. (h - 1) + 1 = h /\ t[h - 1] = todo[h]
      BY <1>2, <2>1, <2>2
    <3>4. todo[1].line \in Nat
      BY <1>1 DEF IsItem
    <3>5. ASSUME NEW k \in 1..(h - 1)
          PROVE  /\ t[k].path = t[1].path /\ t[k].line = t[1].line + (k - 1)
                 /\ t[k].line \in Lines /\ InMacro[t[k].line] /\ t[k].d = source[t[k].line].d
                 /\ k < h - 1 => BodyDepth[t[k].line] = 1 /\ t[k].d # "endif"
                 /\ 1 < k => t[k].d \notin Ifs
      <4>1. t[k] = todo[k + 1] /\ k + 1 \in 1..h /\ 1 < k + 1
        BY <2>1, <3>1
      <4>2. t[k].line = todo[1].line + ((k + 1) - 1)
        BY <1>3, <4>1
      <4>3. t[k].line = t[1].line + (k - 1)
        BY <3>2, <3>4, <4>2
      <4>4. k < h - 1 => k + 1 < h
        BY <1>2
      <4> QED BY <1>3, <3>2, <4>1, <4>3, <4>4
    <3> QED BY <1>3, <2>2, <3>1, <3>2, <3>3, <3>5 DEF Run
  <2>5. Chain(t, h - 1)
    <3>1. h # 0
      BY <1>2
    <3>2. Chain(t, IF h = 0 THEN 0 ELSE h - 1)
      BY <1>1, <1>2, <3>1, ChainTail DEF t
    <3> QED BY <3>1, <3>2
  <2>6. /\ t[1].line = Item.line + 1 /\ t[1].line \in Lines /\ t[1].path = Item.path
        /\ t[1].d \notin Ifs
    <3>1. todo[2].line = todo[1].line + (2 - 1) /\ todo[1].line \in Nat
      BY <1>1, <1>3, <2>2 DEF IsItem
    <3> QED BY <1>1, <1>3, <2>2, <3>1
  <2> QED BY <2>1, <2>2, <2>3, <2>4, <2>5, <2>6 DEF InnerTail, t
<1>5. h = 1 => Item.d = "endif" /\ Item.over = Given(Item.path)
  BY <1>1, <1>3
<1>6. h # 1 => Item.d # "endif" /\ BodyDepth[Item.line] = 1
  <2>1. h # 1 => 1 < h
    BY <1>2
  <2> QED BY <1>1, <1>2, <1>3, <2>1
<1>7. Item.path # <<>> /\ Item.line \in Lines /\ InMacro[Item.line] /\ Item.d = source[Item.line].d
  BY <1>1, <1>2, <1>3
<1> QED BY <1>1, <1>2, <1>4, <1>5, <1>6, <1>7

\* t is what is left of a conditional and of what follows it, q what is collected
\* of the branch before line l.
Continues(t, l, q) ==
  /\ t # <<>> /\ t[1].d \notin Ifs
  /\ \E h \in DOMAIN t : Run(t, 1, h) /\ Chain(t, h)
  /\ l \in Lines /\ BranchTo(q, l, t[1].path)

\* Where the source is while t and q are lines of its macro functions.
Elsewhere(t, q, c, e) ==
  /\ c \in 1..(N + 1) /\ e \in 0..N /\ c =< e + 1
  /\ Tops(t) = Left(c, e) /\ Genuine(t, c)
  /\ \A it \in Values(q) : CallItem(it, c)
  /\ Depth[e] = 0 /\ (c =< N => ~InMacro[c])

\* What it takes to be in a macro function's conditional after a step.
LEMMA InnerNext ==
  ASSUME source' = source, Balanced, ~Tame, SymbolsRead', state' = "ifdef",
         NEW t, todo' = t, NEW q, Collected' = q, NEW l, Continues(t, l, q),
         source[l].d \in Conditional \/ hungry', hungry' => l = t[1].line,
         hungry' /\ accepted' = {"endif"} => ElseBefore(t[1].line),
         NEW c, NEW e, Elsewhere(t, q, c, e),
         macros' = Meaning[c - 1].macros, FunctionsAre(functions', Meaning[c - 1].fns)
  PROVE  WellInBody'
<1>1. /\ N' = N /\ Lines' = Lines /\ InMacro' = InMacro /\ Meaning' = Meaning /\ Depth' = Depth
      /\ (Tame' <=> Tame) /\ (Balanced' <=> Balanced) /\ Left(c, e)' = Left(c, e)
  BY LinesSame, MeaningSame, ShapeSame
<1>2. InBody'
  <2>1. PICK h \in DOMAIN t : Run(t, 1, h) /\ Chain(t, h)
    BY DEF Continues
  <2>2. Run(t, 1, h)' /\ Chain(t, h)'
    BY <2>1, ChainSame
  <2>3. \E i \in DOMAIN todo' : Run(todo, 1, i)' /\ Chain(todo, i)'
    BY <2>1, <2>2
  <2>4. BranchTo(q, l, t[1].path)'
    BY ChainSame DEF Continues
  <2>5. BranchTo(Collected, l, todo[1].path)'
    BY <2>4
  <2>6. hungry' /\ accepted' = {"endif"} => ElseBefore(todo[1].line)'
    BY ChainSame
  <2>7. todo'[1].d \notin Ifs /\ l \in Lines' /\ (source'[l].d \in Conditional \/ hungry')
        /\ (hungry' => l = todo'[1].line)
    BY <1>1 DEF Continues
  <2> QED BY <2>3, <2>5, <2>6, <2>7 DEF InBody
<1>3. Within(c, e)'
  <2>1. ReadTo(c)'
    BY <1>1, ItemsSame DEF ReadTo
  <2>2. Genuine(t, c)' /\ \A it \in Values(q) : CallItem(it, c)'
    BY ItemsSame DEF Elsewhere, Genuine
  <2>3. c =< e + 1 /\ Tops(todo') = Left(c, e)' /\ Depth'[e] = 0 /\ (c =< N' => ~InMacro'[c])
    BY <1>1 DEF Elsewhere
  <2> QED BY <2>1, <2>2, <2>3 DEF Within
<1>4. c \in 1..(N' + 1) /\ e \in 0..N'
  BY <1>1 DEF Elsewhere
<1>5. todo' # <<>>
  BY DEF Continues
<1> QED BY <1>1, <1>2, <1>3, <1>4, <1>5 DEF WellInBody

\* Nothing is read by a step that puts off lines of macro functions.
LEMMA PutOff ==
  ASSUME source' = source, symbols' = symbols, source \in Sources, Balanced, SymbolsRead,
         OrderInv, todo # <<>>, Item.path # <<>>,
         NEW u, IsSeq(u), todo' = u \o Tail(todo),
         \A it \in Values(u) : IsItem(it) /\ it.path # <<>>,
         \A it \in Values(Taken) : IsItem(it) /\ it.path # <<>>,
         NEW q, Taken' = q, \A it \in Values(q) : IsItem(it) /\ it.path # <<>>
  PROVE  SymbolsRead'
<1>1. IsSeq(todo) /\ IsSeq(Tail(todo)) /\ IsItem(Item) /\ Item = todo[1]
  BY FirstItem
<1>2. Head(todo) = Item
  BY DEF Item
<1> SUFFICES ASSUME NEW k \in Expanded, k \in Seq(Nat), Len(k) = 1
             PROVE  Pending(k)' <=> Pending(k)
  BY SymbolsStay
<1>3. \A it : IsItem(it) /\ it.path # <<>> => ~Extends(Key(it), k)
  BY NotOnCall
<1>4. ~WaysOn(u, k) /\ ~WaysOn(Taken, k) /\ ~WaysOn(q, k) /\ ~Extends(Key(Item), k)
  BY <1>1, <1>3 DEF WaysOn
<1>5. WaysOn(todo, k) <=> WaysOn(Tail(todo), k)
  BY <1>1, <1>2, <1>4, WaysOfLists
<1>6. WaysOn(u \o Tail(todo), k) <=> WaysOn(Tail(todo), k)
  BY <1>1, <1>4, WaysOfLists
<1>7. Pending(k) <=> WaysOn(Tail(todo), k)
  BY <1>4, <1>5 DEF Pending
<1>8. WaysOn(todo', k) \/ WaysOn(Taken', k) <=> WaysOn(Tail(todo), k)
  BY <1>4, <1>6
<1>9. Pending(k)' <=> WaysOn(todo', k) \/ WaysOn(Taken', k)
  BY DEF Pending, WaysOn, Values, Key, Extends
<1> QED BY <1>7, <1>8, <1>9

LEMMA EmptyConcat == ASSUME NEW s, IsSeq(s) PROVE <<>> \o s = s
BY DEF IsSeq

\* A call's conditional begins.
LEMMA InnerIfdef == ASSUME Steady, Ifdef, Item.path # <<>> PROVE WellInBody'
<1>1. /\ todo # <<>> /\ Item.d \in Ifs /\ Item.d \in accepted
      /\ source' = source /\ macros' = macros /\ functions' = functions
      /\ symbols' = symbols /\ todo' = Tail(todo) /\ state' = "ifdef" /\ hungry' = TRUE
      /\ accepted' = {"endif", "else", "elifdef", "elifndef"}
      /\ stack' = Append(stack, Entry(Truth("ifdef"), <<>>, state, hungry, accepted))
  BY DEF Ifdef, At, Ifs
<1>2. source \in Sources /\ PreprocessorInv /\ OrderInv /\ Well
  BY DEF Steady
<1>3. state = "passthrough" /\ Outside
  BY <1>1, <1>2 DEF PreprocessorInv, InConditional, InFunction, Ifs
<1>4. Item.d \in Directives
  BY <1>1 DEF Directives, Conditional, Ifs
<1>5. Balanced /\ ~Tame /\ \E b : Span(todo, 1, b)
  BY <1>1, <1>3, <1>4, CallDirective
<1>6. PICK b : Span(todo, 1, b)
  BY <1>5
<1>7. PICK c \in 1..(N + 1), e \in 0..N : Placed(c, e)
  BY <1>2 DEF Well
<1>8. /\ AtOutside(c, e) /\ Tops(Tail(todo)) = Left(c, e)
      /\ \A it \in Values(Tail(todo)) : OwnItem(it) \/ CallItem(it, c)
  BY <1>1, <1>2, <1>7, CallHead
<1>9. IsSeq(todo) /\ IsSeq(Tail(todo)) /\ IsItem(Item)
  BY <1>1, <1>2, FirstItem
<1>10. b \in DOMAIN todo /\ Run(todo, 1, b) /\ Chain(todo, b)
  <2>1. Chain(todo, 0)
    BY <1>5 DEF Steady
  <2>2. Chain(todo, b)
    BY <1>6, <1>9, <2>1, SpanThen
  <2> QED BY <1>6, <2>2 DEF Span, Run
<1>11. /\ Item.line \in Lines /\ Item.d = source[Item.line].d
       /\ (b = 1 => Item.d = "endif") /\ (b # 1 => InnerTail(b))
  BY <1>1, <1>2, <1>10, InnerHead
<1>12. InnerTail(b)
  BY <1>1, <1>11 DEF Ifs
<1>13. PICK t : t = Tail(todo)
  OBVIOUS
<1>14. PICK l : l = Item.line + 1
  OBVIOUS
<1>15. /\ t # <<>> /\ t[1].d \notin Ifs /\ b - 1 \in DOMAIN t /\ Run(t, 1, b - 1)
       /\ Chain(t, b - 1) /\ l = t[1].line /\ l \in Lines
  BY <1>12, <1>13, <1>14 DEF InnerTail
<1>16. BranchTo(<<>>, l, t[1].path)
  <2>1. Len(<<>>) = 0 /\ DOMAIN <<>> = {}
    BY EmptyIsSeq
  <2>2. l - Len(<<>>) - 1 = Item.line
    <3>1. Item.line \in Nat
      BY <1>9 DEF IsItem
    <3> QED BY <1>14, <2>1, <3>1
  <2>3. source[Item.line].d \in Conditional
    BY <1>1, <1>11 DEF Ifs, Conditional
  <2> QED BY <1>11, <2>1, <2>2, <2>3 DEF BranchTo
<1>17. Continues(t, l, <<>>)
  BY <1>15, <1>16 DEF Continues
<1>18. Elsewhere(t, <<>>, c, e)
  <2>1. c =< e + 1 /\ Depth[e] = 0 /\ (c =< N => ~InMacro[c])
    BY <1>7, <1>8 DEF Placed, AtOutside
  <2> QED BY <1>8, <1>13, <2>1, ValuesEmpty DEF Elsewhere, Genuine
<1>19. PICK v : v = Truth("ifdef")
  OBVIOUS
<1>20. stack' = Opened(v, <<>>, hungry)
  BY <1>1, <1>3, <1>19, Pushed DEF Outside, Opened
<1>21. Collected' = <<>>
  BY <1>1, <1>20, CollectedNext
<1>22. SymbolsRead'
  <2>1. Taken = <<>> /\ Taken' = <<>>
    BY <1>1, <1>3, <1>21 DEF Taken
  <2>2. todo' = <<>> \o Tail(todo)
    BY <1>1, <1>9, EmptyConcat
  <2>3. SymbolsRead
    BY <1>2 DEF Well, Accounts
  <2> QED BY <1>1, <1>2, <1>5, <2>1, <2>2, <2>3, EmptyIsSeq, ValuesEmpty, PutOff
<1>23. accepted' # {"endif"}
  <2>1. "else" \in accepted' /\ "else" \notin {"endif"}
    BY <1>1
  <2> QED BY <2>1
<1>24. macros' = Meaning[c - 1].macros /\ FunctionsAre(functions', Meaning[c - 1].fns)
  BY <1>1, <1>8 DEF AtOutside, ReadTo
<1>25. todo' = t
  BY <1>1, <1>13
<1> QED BY <1>1, <1>5, <1>15, <1>17, <1>18, <1>21, <1>22, <1>23, <1>24, <1>25, InnerNext

\* A conditional of a macro function goes on.
LEMMA InnerGoes ==
  ASSUME source \in Sources, PreprocessorInv, OrderInv, WellInBody, Item.d # "endif",
         source' = source, symbols' = symbols, macros' = macros, functions' = functions,
         state' = "ifdef", todo' = Tail(todo),
         NEW q, Collected' = q, Values(q) \subseteq Values(Collected) \cup {Item},
         NEW l \in Lines, source[l].d \in Conditional \/ hungry', hungry' => l = Item.line + 1,
         BranchTo(q, l, Item.path),
         hungry' /\ accepted' = {"endif"} => ElseBefore(Item.line + 1)
  PROVE  WellInBody'
<1>1. /\ Balanced /\ ~Tame /\ state = "ifdef" /\ todo # <<>> /\ SymbolsRead /\ InBody
  BY DEF WellInBody
<1>2. PICK c \in 1..(N + 1), e \in 0..N : Within(c, e)
  BY DEF WellInBody
<1>3. PICK h \in DOMAIN todo : Run(todo, 1, h) /\ Chain(todo, h)
  BY <1>1 DEF InBody
<1>4. IsItem(Item) /\ Item.path # <<>> /\ InnerTail(h)
  BY <1>1, <1>3, InnerHead
<1>5. PICK t : t = Tail(todo)
  OBVIOUS
<1>6. /\ t # <<>> /\ t[1].d \notin Ifs /\ h - 1 \in DOMAIN t /\ Run(t, 1, h - 1)
      /\ Chain(t, h - 1) /\ t[1].line = Item.line + 1 /\ t[1].path = Item.path
  BY <1>4, <1>5 DEF InnerTail
<1>7. Continues(t, l, q)
  BY <1>6 DEF Continues
<1>8. Items(todo) /\ InOrder(todo) /\ Items(Collected) /\ IsSeq(Tail(todo))
  BY <1>1, FirstItem DEF OrderInv, Ordered
<1>9. Values(todo) = {Item} \cup Values(t)
  BY <1>1, <1>5, <1>8, ValuesTail DEF Items, Item
<1>10. Tops(t) = Tops(todo)
  BY <1>1, <1>4, <1>5, <1>8, TailTops DEF Item
<1>11. CallItem(Item, c) /\ Genuine(t, c)
  BY <1>2, <1>4, <1>9 DEF Within, Genuine, OwnItem
<1>12. Elsewhere(t, q, c, e)
  BY <1>2, <1>10, <1>11 DEF Within, Elsewhere
<1>13. ASSUME NEW it \in Values(Collected) PROVE IsItem(it) /\ it.path # <<>>
  BY <1>2, <1>8 DEF Within, CallItem, Items, Values
<1>14. \A it \in Values(q) : IsItem(it) /\ it.path # <<>>
  BY <1>4, <1>13
<1>15. SymbolsRead'
  <2>1. \A it \in Values(Taken) : IsItem(it) /\ it.path # <<>>
    BY <1>13, ValuesEmpty DEF Taken
  <2>2. PICK w : w = Taken'
    OBVIOUS
  <2>3. w = q \/ w = <<>>
    BY <2>2 DEF Taken
  <2>4. \A it \in Values(w) : IsItem(it) /\ it.path # <<>>
    BY <1>14, <2>3, ValuesEmpty
  <2>5. todo' = <<>> \o Tail(todo)
    BY <1>8, EmptyConcat
  <2> QED BY <1>1, <1>4, <2>1, <2>2, <2>4, <2>5, EmptyIsSeq, ValuesEmpty, PutOff
<1>16. macros' = Meaning[c - 1].macros /\ FunctionsAre(functions', Meaning[c - 1].fns)
  BY <1>2 DEF Within, ReadTo
<1>17. todo' = t
  BY <1>5
<1> QED BY <1>1, <1>6, <1>7, <1>12, <1>15, <1>16, <1>17, InnerNext

\* What is known of the next line and of what is collected.
LEMMA InnerLine ==
  ASSUME source \in Sources, PreprocessorInv, OrderInv, WellInBody
  PROVE  /\ Balanced /\ state = "ifdef" /\ todo # <<>> /\ Item = todo[1] /\ IsItem(Item)
         /\ Item.path # <<>> /\ Item.line \in Lines /\ InMacro[Item.line] /\ Item.line \in Nat
         /\ Item.d = source[Item.line].d /\ Item.d \notin Ifs
         /\ Item.d # "endif" => Item.line + 1 \in Lines /\ BodyDepth[Item.line] = 1
         /\ hungry \in BOOLEAN /\ (~hungry => accepted = {"endif"} /\ Top.value)
         /\ accepted \in {{"endif"}, {"endif", "else", "elifdef", "elifndef"}}
         /\ \E v, h : stack = Opened(v, Collected, h)
         /\ hungry /\ accepted = {"endif"} => ElseBefore(Item.line)
         /\ \E l \in Lines : /\ source[l].d \in Conditional \/ hungry
                             /\ hungry => l = Item.line
                             /\ BranchTo(Collected, l, Item.path)
<1>1. Balanced /\ state = "ifdef" /\ todo # <<>> /\ InBody
  BY DEF WellInBody
<1>2. PICK h \in DOMAIN todo : Run(todo, 1, h) /\ Chain(todo, h)
  BY <1>1 DEF InBody
<1>3. /\ Item = todo[1] /\ IsItem(Item) /\ Item.path # <<>> /\ Item.line \in Lines
      /\ InMacro[Item.line] /\ Item.d = source[Item.line].d
      /\ Item.d # "endif" => BodyDepth[Item.line] = 1 /\ InnerTail(h)
  BY <1>1, <1>2, InnerHead
<1>4. Item.line \in Nat
  BY <1>3 DEF IsItem
<1>5. Item.d # "endif" => Item.line + 1 \in Lines
  BY <1>3 DEF InnerTail
<1>6. InConditional
  BY <1>1 DEF PreprocessorInv
<1>7. /\ hungry \in BOOLEAN
      /\ accepted \in {{"endif"}, {"endif", "else", "elifdef", "elifndef"}}
      /\ hungry = FALSE => accepted = {"endif"}
  BY <1>6 DEF InConditional
<1>8. ~hungry => Top.value
  <2>1. PICK v \in BOOLEAN, g \in {FALSE} : \E b : stack = Opened(v, b, g) /\ (hungry = FALSE => v = TRUE)
    BY <1>6 DEF InConditional
  <2>2. PICK b : stack = Opened(v, b, g)
    BY <2>1
  <2>3. Top.value = v
    BY <2>2, OneEntry
  <2> QED BY <1>7, <2>1, <2>3
<1>9. \E v, g : stack = Opened(v, Collected, g)
  BY <1>1, CollectedInStack
<1>10. /\ Item.d \notin Ifs /\ (hungry /\ accepted = {"endif"} => ElseBefore(Item.line))
       /\ \E l \in Lines : /\ source[l].d \in Conditional \/ hungry
                           /\ hungry => l = Item.line
                           /\ BranchTo(Collected, l, Item.path)
  BY <1>1, <1>3 DEF InBody
<1> QED BY <1>1, <1>3, <1>4, <1>5, <1>7, <1>8, <1>9, <1>10

\* The rest is skipped.
LEMMA InnerSkip ==
  ASSUME source \in Sources, PreprocessorInv, OrderInv, WellInBody, SkipRest \/ Drop
  PROVE  WellInBody'
<1>1. /\ source' = source /\ symbols' = symbols /\ macros' = macros /\ functions' = functions
      /\ state' = state /\ todo' = Tail(todo) /\ stack' = stack /\ hungry' = FALSE
      /\ SkipRest => Item.d \in {"else", "elifdef", "elifndef"}
      /\ Drop => ~hungry /\ Item.d \notin accepted
  BY DEF SkipRest, Drop, Open, At, Ordinary, globals
<1>2. /\ state = "ifdef" /\ Item.d = source[Item.line].d
      /\ (~hungry => accepted = {"endif"})
  BY InnerLine
<1>3. PICK l \in Lines : /\ source[l].d \in Conditional \/ hungry
                         /\ hungry => l = Item.line
                         /\ BranchTo(Collected, l, Item.path)
  BY InnerLine
<1>4. Item.d # "endif"
  <2>1. Drop => Item.d \notin {"endif"}
    BY <1>1, <1>2
  <2> QED BY <1>1, <2>1
<1>5. source[l].d \in Conditional
  <2>1. CASE hungry
    <3>1. SkipRest
      BY <1>1, <2>1
    <3> QED BY <1>1, <1>2, <1>3, <2>1, <3>1 DEF Conditional
  <2>2. CASE ~hungry
    BY <1>3, <2>2
  <2> QED BY <2>1, <2>2
<1>6. PICK q : q = Collected
  OBVIOUS
<1>7. Collected' = q
  BY <1>1, <1>6 DEF Collected, Top
<1>8. Values(q) \subseteq Values(Collected) \cup {Item} /\ BranchTo(q, l, Item.path)
  BY <1>3, <1>6
<1> QED BY <1>1, <1>2, <1>4, <1>5, <1>7, <1>8, InnerGoes

\* The next branch begins.
LEMMA InnerBranch ==
  ASSUME source \in Sources, PreprocessorInv, OrderInv, WellInBody, Elifdef \/ Else
  PROVE  WellInBody'
<1>1. /\ source' = source /\ symbols' = symbols /\ macros' = macros /\ functions' = functions
      /\ state' = state /\ todo' = Tail(todo) /\ hungry' = TRUE
      /\ Elifdef => /\ Item.d \in {"elifdef", "elifndef"}
                    /\ accepted' = {"endif", "else", "elifdef", "elifndef"}
                    /\ stack' = Append(Rest, Branch(Truth("elifdef"), <<>>))
      /\ Else => Item.d = "else" /\ stack' = Append(Rest, Branch(TRUE, <<>>))
  BY DEF Elifdef, Else, Open, At
<1>2. /\ state = "ifdef" /\ Item.d = source[Item.line].d /\ Item.line \in Lines
      /\ Item.line \in Nat /\ InMacro[Item.line]
      /\ (Item.d # "endif" => Item.line + 1 \in Lines)
  BY InnerLine
<1>3. PICK v, g : stack = Opened(v, Collected, g)
  BY InnerLine
<1>4. PICK w : stack' = Opened(w, <<>>, g)
  <2>1. \A x : Append(Rest, Branch(x, <<>>)) = Opened(x, <<>>, g)
    BY <1>3, OneEntry
  <2> QED BY <1>1, <2>1
<1>5. Collected' = <<>>
  BY <1>1, <1>2, <1>4, CollectedNext
<1>6. Item.d # "endif" /\ Item.d \in Conditional
  BY <1>1 DEF Conditional
<1>7. PICK l : l = Item.line + 1
  OBVIOUS
<1>8. l \in Lines /\ l - Len(<<>>) - 1 = Item.line
  BY <1>2, <1>6, <1>7, EmptyIsSeq
<1>9. BranchTo(<<>>, l, Item.path)
  BY <1>2, <1>6, <1>8, EmptyIsSeq DEF BranchTo
<1>10. hungry' /\ accepted' = {"endif"} => ElseBefore(Item.line + 1)
  <2>1. CASE Elifdef
    <3>1. "else" \in accepted' /\ "else" \notin {"endif"}
      BY <1>1, <2>1
    <3> QED BY <3>1
  <2>2. CASE Else
    <3>1. source[Item.line].d = "else"
      BY <1>1, <1>2, <2>2
    <3>2. Item.line < l /\ \A k \in (Item.line + 1)..(l - 1) : FALSE
      BY <1>2, <1>7
    <3> QED BY <1>2, <1>7, <3>1, <3>2 DEF ElseBefore
  <2> QED BY <2>1, <2>2
<1>11. Values(<<>>) \subseteq Values(Collected) \cup {Item}
  BY ValuesEmpty
<1> QED BY <1>1, <1>2, <1>5, <1>6, <1>7, <1>8, <1>9, <1>10, <1>11, InnerGoes

\* A line of the branch is collected.
LEMMA InnerEat ==
  ASSUME source \in Sources, PreprocessorInv, OrderInv, WellInBody, Eat PROVE WellInBody'
<1>1. /\ source' = source /\ symbols' = symbols /\ macros' = macros /\ functions' = functions
      /\ state' = state /\ todo' = Tail(todo) /\ hungry' = hungry /\ accepted' = accepted
      /\ stack' = Eaten /\ hungry /\ Item.d \notin accepted
  BY DEF Eat, Ordinary
<1>2. /\ Balanced /\ state = "ifdef" /\ Item.d = source[Item.line].d /\ Item.line \in Lines
      /\ Item.line \in Nat /\ InMacro[Item.line] /\ Item.path # <<>> /\ IsItem(Item)
      /\ Item.d \notin Ifs
      /\ (Item.d # "endif" => Item.line + 1 \in Lines /\ BodyDepth[Item.line] = 1)
      /\ accepted \in {{"endif"}, {"endif", "else", "elifdef", "elifndef"}}
      /\ (hungry /\ accepted = {"endif"} => ElseBefore(Item.line))
  BY InnerLine
<1>3. PICK l : l = Item.line
  OBVIOUS
<1>4. BranchTo(Collected, l, Item.path)
  BY <1>1, <1>3, InnerLine
<1>5. Item.d # "endif"
  BY <1>1, <1>2
<1>6. Item.d \notin Directives
  <2>1. Item.d \in Conditional \cup {"ins", "call"}
    BY <1>2 DEF Balanced
  <2>2. ASSUME Item.d \in {"else", "elifdef", "elifndef"} PROVE FALSE
    <3>1. accepted = {"endif"}
      BY <1>1, <1>2, <2>2
    <3>2. PICK j \in Lines : /\ j < l /\ InMacro[j] /\ source[j].d = "else"
                             /\ \A k \in (j + 1)..(l - 1) : source[k].d # "endif"
      BY <1>1, <1>2, <1>3, <3>1 DEF ElseBefore
    <3>3. \A i \in 1..(l - 1) : InMacro[i] /\ source[i].d = "else" =>
            \E k \in (i + 1)..(l - 1) : source[k].d = "endif"
      BY <1>2, <1>3, <2>2 DEF Balanced
    <3>4. j \in 1..(l - 1)
      BY <1>2, <1>3, <3>2, SourceFacts
    <3> QED BY <3>2, <3>3, <3>4
  <2> QED BY <1>2, <1>5, <2>1, <2>2 DEF Conditional, Directives, Ifs
<1>7. PICK v, g : stack = Opened(v, Collected, g)
  BY InnerLine
<1>8. PICK b, a : b = Collected /\ a = Item
  OBVIOUS
<1>9. PICK q : q = Append(b, a)
  OBVIOUS
<1>10. Collected' = q
  <2>1. EatenItem = a
    BY <1>2, <1>8 DEF EatenItem
  <2>2. Eaten = Opened(v, Append(Collected, EatenItem), g)
    BY <1>7, OneEntry
  <2>3. stack' = Opened(v, q, g)
    BY <1>1, <1>8, <1>9, <2>1, <2>2
  <2> QED BY <1>1, <1>2, <2>3, CollectedNext
<1>11. IsSeq(b) /\ Len(b) \in Nat /\ DOMAIN b = 1..Len(b)
  BY <1>8, SeqFacts DEF OrderInv, Ordered, Items
<1>12. /\ DOMAIN q = 1..(Len(b) + 1) /\ Len(q) = Len(b) + 1
       /\ \A k \in DOMAIN b : q[k] = b[k]
       /\ q[Len(b) + 1] = a
  <2>1. /\ DOMAIN q = 1..(Len(b) + 1) /\ \A k \in DOMAIN b : q[k] = b[k]
        /\ q[Len(b) + 1] = a /\ IsSeq(q)
    BY <1>9, <1>11, AppendSeq
  <2>2. Len(q) \in Nat /\ DOMAIN q = 1..Len(q)
    BY <2>1, SeqFacts
  <2>3. Len(q) = Len(b) + 1
    BY <1>11, <2>1, <2>2
  <2> QED BY <2>1, <2>3
<1>13. Values(q) = Values(Collected) \cup {Item}
  BY <1>8, <1>9, <1>11, ValuesAppend
<1>14. PICK m : m = l + 1
  OBVIOUS
<1>15. l \in Nat /\ m - Len(q) = l - Len(b)
  BY <1>2, <1>3, <1>11, <1>12, <1>14
<1>16. BranchTo(q, m, Item.path)
  <2>1. /\ l - Len(b) - 1 \in Lines /\ source[l - Len(b) - 1].d \in Conditional
        /\ \A k \in DOMAIN b : /\ b[k].line = l - Len(b) + (k - 1) /\ b[k].path = Item.path
                               /\ b[k].line \in Lines /\ InMacro[b[k].line]
                               /\ b[k].d = source[b[k].line].d /\ b[k].d \notin Directives
                               /\ BodyDepth[b[k].line] = 1
    BY <1>4, <1>8 DEF BranchTo
  <2>2. a.line = l /\ a.path = Item.path /\ l = l - Len(b) + ((Len(b) + 1) - 1)
    BY <1>3, <1>8, <1>11, <1>15
  <2>3. ASSUME NEW k \in DOMAIN q
        PROVE  /\ q[k].line = m - Len(q) + (k - 1) /\ q[k].path = Item.path
               /\ q[k].line \in Lines /\ InMacro[q[k].line]
               /\ q[k].d = source[q[k].line].d /\ q[k].d \notin Directives
               /\ BodyDepth[q[k].line] = 1
    <3>1. k \in DOMAIN b \/ k = Len(b) + 1
      BY <1>11, <1>12
    <3>2. CASE k \in DOMAIN b
      BY <1>12, <1>15, <2>1, <3>2
    <3>3. CASE k = Len(b) + 1
      <4>1. q[k] = a /\ q[k].line = l
        BY <1>12, <2>2, <3>3
      <4>2. q[k].line = m - Len(q) + (k - 1)
        BY <1>11, <1>15, <3>3, <4>1
      <4> QED BY <1>2, <1>3, <1>5, <1>6, <1>8, <4>1, <4>2
    <3> QED BY <3>1, <3>2, <3>3
  <2> QED BY <1>15, <2>1, <2>3 DEF BranchTo
<1>17. hungry' /\ accepted' = {"endif"} => ElseBefore(Item.line + 1)
  <2> SUFFICES ASSUME accepted = {"endif"} PROVE ElseBefore(m)
    BY <1>1, <1>3, <1>14
  <2>1. PICK j \in Lines : /\ j < l /\ InMacro[j] /\ source[j].d = "else"
                           /\ \A k \in (j + 1)..(l - 1) : source[k].d # "endif"
    BY <1>1, <1>2, <1>3 DEF ElseBefore
  <2>2. j \in Nat
    BY <2>1, SourceFacts
  <2>3. j < m /\ \A k \in (j + 1)..(m - 1) : k \in (j + 1)..(l - 1) \/ k = l
    BY <1>14, <1>15, <2>1, <2>2
  <2> QED BY <1>2, <1>3, <1>5, <2>1, <2>3 DEF ElseBefore
<1>18. m \in Lines /\ m = Item.line + 1
  BY <1>2, <1>3, <1>5, <1>14
<1>19. hungry'
  BY <1>1
<1>20. Values(q) \subseteq Values(Collected) \cup {Item}
  BY <1>13
<1>21. state' = "ifdef"
  BY <1>1, <1>2
<1> QED BY <1>1, <1>5, <1>10, <1>16, <1>17, <1>18, <1>19, <1>20, <1>21, InnerGoes

\* A branch of one line keeps the operands of the call, and its line shares it
\* with no other; one of more lines loses them.
LEMMA BranchSettles ==
  ASSUME source \in Sources, NEW b, Items(b), NEW l \in Lines, source[l].d \in Conditional,
         NEW h, h # <<>>, BranchTo(b, l, h), Item.over = Given(h)
  PROVE  Chain(Branched(b), 0)
<1> DEFINE n == Len(b)
           u == Branched(b)
<1>1. IsSeq(b) /\ n \in Nat /\ DOMAIN b = 1..n
  BY SeqFacts DEF Items
<1>2. /\ source[l - n - 1].d \in Conditional
      /\ \A k \in DOMAIN b : /\ b[k].line = l - n + (k - 1) /\ b[k].path = h
                             /\ b[k].line \in Lines /\ InMacro[b[k].line]
                             /\ b[k].d = source[b[k].line].d /\ b[k].d \notin Directives
                             /\ BodyDepth[b[k].line] = 1
  BY DEF BranchTo
<1>3. l \in Nat
  BY SourceFacts
<1>4. PICK over : over = IF n = 1 /\ b[1].d \notin Directives THEN Item.over ELSE Nothing
  OBVIOUS
<1>5. u = [k \in DOMAIN b |-> [b[k] EXCEPT !.over = over]]
  BY <1>4 DEF Branched
<1> HIDE DEF u, n
<1> SUFFICES ASSUME NEW k \in DOMAIN u PROVE Ready(u, k, 0)
  BY DEF Chain, u
<1>6. k \in DOMAIN b /\ u[k] = [b[k] EXCEPT !.over = over] /\ IsItem(b[k])
  BY <1>5 DEF Items
<1>7. u[k].path = h /\ u[k].line = b[k].line /\ u[k].d = b[k].d /\ u[k].over = over
  BY <1>2, <1>6 DEF IsItem
<1>8. over = IF Shares(b[k].line) THEN Nothing ELSE Given(h)
  <2>1. CASE n = 1
    <3>1. k = 1 /\ 1 \in DOMAIN b
      BY <1>1, <1>6, <2>1
    <3>2. over = Given(h)
      BY <1>2, <1>4, <2>1, <3>1
    <3>3. b[k].line = l - 1 /\ l - n - 1 = (l - 1) - 1 /\ (l - 1) + 1 = l
      BY <1>1, <1>2, <1>3, <2>1, <3>1
    <3>4. ~Shares(l - 1)
      BY <1>2, <3>3 DEF Shares
    <3> QED BY <3>2, <3>3, <3>4
  <2>2. CASE n # 1
    <3>1. over = Nothing
      BY <1>4, <2>2
    <3>2. PICK i : i = b[k].line
      OBVIOUS
    <3>3. i = l - n + (k - 1) /\ InMacro[i] /\ BodyDepth[i] = 1
      BY <1>2, <1>6, <3>2
    <3>4. \E j \in {i - 1, i + 1} : source[j].d \notin Conditional
      <4>1. CASE k < n
        <5>1. k + 1 \in DOMAIN b
          BY <1>1, <1>6, <4>1
        <5>2. b[k + 1].line = l - n + ((k + 1) - 1)
          BY <1>2, <5>1
        <5>3. b[k + 1].line = i + 1
          BY <1>1, <1>3, <1>6, <3>3, <5>2
        <5>4. source[i + 1].d \notin Directives
          BY <1>2, <5>1, <5>3
        <5> QED BY <5>4 DEF Directives
      <4>2. CASE ~(k < n)
        <5>1. k - 1 \in DOMAIN b
          BY <1>1, <1>6, <2>2, <4>2
        <5>2. b[k - 1].line = l - n + ((k - 1) - 1)
          BY <1>2, <5>1
        <5>3. b[k - 1].line = i - 1
          BY <1>1, <1>3, <1>6, <3>3, <5>2
        <5>4. source[i - 1].d \notin Directives
          BY <1>2, <5>1, <5>3
        <5> QED BY <5>4 DEF Directives
      <4> QED BY <4>1, <4>2
    <3>5. Shares(i)
      BY <3>3, <3>4 DEF Shares
    <3> QED BY <3>1, <3>2, <3>5
  <2> QED BY <2>1, <2>2
<1>9. Settled(u[k])
  BY <1>2, <1>6, <1>7, <1>8 DEF Settled
<1> QED BY <1>7, <1>9 DEF Ready

\* The conditional ends.
LEMMA InnerEndif ==
  ASSUME source \in Sources, PreprocessorInv, OrderInv, WellInBody, Endif
  PROVE  Well' /\ Chain(todo', 0)
<1>1. /\ Item.d = "endif"
      /\ source' = source /\ symbols' = symbols /\ out' = out
      /\ macros' = macros /\ functions' = functions /\ Restore(Top)
      /\ todo' = IF Top.value THEN Branched(Top.body) \o Tail(todo) ELSE Tail(todo)
  BY DEF Endif, Open, At
<1>2. /\ Balanced /\ ~Tame /\ state = "ifdef" /\ todo # <<>> /\ SymbolsRead /\ InBody
  BY DEF WellInBody
<1>3. PICK c \in 1..(N + 1), e \in 0..N : Within(c, e)
  BY DEF WellInBody
<1>4. PICK h \in DOMAIN todo : Run(todo, 1, h) /\ Chain(todo, h)
  BY <1>2 DEF InBody
<1>5. /\ h = 1 /\ Item.over = Given(Item.path) /\ Item.path # <<>> /\ IsItem(Item)
      /\ Item = todo[1] /\ Item.d = source[Item.line].d
  BY <1>1, <1>2, <1>4, InnerHead
<1>6. Items(todo) /\ InOrder(todo) /\ Items(Collected) /\ IsSeq(todo) /\ IsSeq(Tail(todo))
  BY <1>2, FirstItem DEF OrderInv, Ordered
<1>7. Chain(Tail(todo), 0)
  <2>1. h \in Nat /\ h # 0 /\ h - 1 = 0
    BY <1>5
  <2>2. Chain(Tail(todo), IF h = 0 THEN 0 ELSE h - 1)
    BY <1>2, <1>4, <1>6, <2>1, ChainTail
  <2> QED BY <2>1, <2>2
<1>8. Top.body = Collected /\ state' = "passthrough"
  BY <1>1, <1>2, CollectedInStack DEF Restore
<1>9. PICK l \in Lines : /\ source[l].d \in Conditional \/ hungry
                         /\ hungry => l = Item.line
                         /\ BranchTo(Collected, l, Item.path)
  BY InnerLine
<1>10. source[l].d \in Conditional
  BY <1>1, <1>5, <1>9 DEF Conditional
<1>11. PICK u : u = IF Top.value THEN Branched(Collected) ELSE <<>>
  OBVIOUS
<1>12. IsSeq(u) /\ Chain(u, 0)
  <2>1. CASE Top.value
    BY <1>5, <1>6, <1>9, <1>10, <1>11, <2>1, BranchSettles, ValuesBranched
  <2>2. CASE ~Top.value
    BY <1>11, <2>2, EmptyIsSeq DEF Chain
  <2> QED BY <2>1, <2>2
<1>13. todo' = u \o Tail(todo)
  BY <1>1, <1>6, <1>8, <1>11, EmptyConcat
<1>14. Chain(todo', 0)
  BY <1>6, <1>7, <1>12, <1>13, ChainConcat
<1>15. ASSUME NEW it \in Values(u)
       PROVE  CallItem(it, c) /\ it.path # <<>>
  <2>1. PICK a \in Values(Collected) :
          it.path = a.path /\ it.line = a.line /\ it.d = a.d
    BY <1>6, <1>11, ValuesBranched, ValuesEmpty
  <2>2. CallItem(a, c)
    BY <1>3 DEF Within
  <2> QED BY <2>1, <2>2 DEF CallItem, Key
<1>16. Values(todo') = Values(u) \cup Values(Tail(todo))
  BY <1>6, <1>12, <1>13, ValuesConcat
<1>17. Values(todo) = {Item} \cup Values(Tail(todo))
  BY <1>2, <1>6, ValuesTail DEF Item
<1>18. Tops(todo') = Left(c, e)
  <2>1. Tops(Tail(todo)) = Tops(todo)
    BY <1>2, <1>5, <1>6, TailTops DEF Item
  <2>2. Tops(todo') = Tops(Tail(todo))
    BY <1>15, <1>16 DEF Tops
  <2> QED BY <1>3, <2>1, <2>2 DEF Within
<1>19. \A it \in Values(todo') : OwnItem(it) \/ CallItem(it, c)
  BY <1>3, <1>15, <1>16, <1>17 DEF Within, Genuine
<1>20. Placed(c, e)'
  <2>1. /\ c =< e + 1 /\ Depth[e] = 0 /\ (c =< N => ~InMacro[c])
        /\ macros' = Meaning[c - 1].macros /\ FunctionsAre(functions', Meaning[c - 1].fns)
    BY <1>1, <1>3 DEF Within, ReadTo
  <2>2. AtOutside(c, e)'
    BY <1>1, <1>8, <2>1, OutsideNext
  <2>3. state' # "ifdef"
    BY <1>8
  <2> QED BY <1>1, <1>18, <1>19, <2>1, <2>2, <2>3, PlacedNext
<1>21. SymbolsRead'
  <2>1. \A it \in Values(Collected) : IsItem(it) /\ it.path # <<>>
    BY <1>3, <1>6 DEF Within, CallItem, Items, Values
  <2>2. \A it \in Values(Taken) : IsItem(it) /\ it.path # <<>>
    BY <2>1, ValuesEmpty DEF Taken
  <2>3. \A it \in Values(u) : IsItem(it) /\ it.path # <<>>
    <3>1. Items(u)
      BY <1>6, <1>11, <1>12, BranchedKeeps, EmptyIsSeq DEF OrderInv, Ordered, Items
    <3> QED BY <1>15, <3>1 DEF Items, Values
  <2>4. Taken' = <<>>
    BY <1>8 DEF Taken
  <2> QED BY <1>1, <1>2, <1>5, <1>12, <1>13, <2>2, <2>3, <2>4, ValuesEmpty, PutOff
<1>22. Accounts'
  BY <1>1, <1>2, <1>21, ShapeSame DEF Accounts
<1>23. N' = N
  BY <1>1, LinesSame
<1> QED BY <1>14, <1>20, <1>22, <1>23 DEF Well

\* Whatever is done in a macro function's conditional.
LEMMA InnerStep ==
  ASSUME source \in Sources, PreprocessorInv, OrderInv, WellInBody, ~failed, Next
  PROVE  ~failed' /\ (WellInBody' \/ (Well' /\ Chain(todo', 0)))
<1>1. /\ state = "ifdef" /\ todo # <<>> /\ Item.d \notin Ifs
      /\ accepted \in {{"endif"}, {"endif", "else", "elifdef", "elifndef"}}
      /\ \E v, h : stack = Opened(v, Collected, h)
  BY InnerLine
<1>2. stack # <<>>
  <2>1. Len(stack) = 1
    BY <1>1, OneEntry
  <2> QED BY <2>1, EmptyIsSeq
<1>3. ~Ifdef /\ ~Lone /\ ~Define /\ ~DefineFunction
  BY <1>1, <1>2 DEF Ifdef, Lone, Define, DefineFunction, At, Ifs
<1>4. ~EatLast /\ ~Pass /\ ~PassEqu /\ ~PassLabel /\ ~Call /\ ~BadCall /\ ~Recursion
  BY <1>1 DEF EatLast, Pass, PassEqu, PassLabel, Call, BadCall, Recursion, Passed
<1>5. SkipRest \/ Drop \/ Elifdef \/ Else \/ Eat \/ Endif
  BY <1>3, <1>4 DEF Next
<1>6. ~failed'
  BY <1>5 DEF SkipRest, Drop, Elifdef, Else, Eat, Endif
<1>7. CASE SkipRest \/ Drop
  BY <1>6, <1>7, InnerSkip
<1>8. CASE Elifdef \/ Else
  BY <1>6, <1>8, InnerBranch
<1>9. CASE Eat
  BY <1>6, <1>9, InnerEat
<1>10. CASE Endif
  BY <1>6, <1>10, InnerEndif
<1> QED BY <1>5, <1>7, <1>8, <1>9, <1>10

-----------------------------------------------------------------------------
(* The invariant always holds.                                             *)

LEMMA SourceStays == [Next]_vars => source' = source
<1> SUFFICES ASSUME [Next]_vars PROVE source' = source
  OBVIOUS
<1>1. CASE UNCHANGED vars
  BY <1>1 DEF vars
<1>2. CASE Ifdef \/ Lone \/ SkipRest \/ Elifdef \/ Else \/ Endif
  BY <1>2 DEF Ifdef, Lone, SkipRest, Elifdef, Else, Endif
<1>3. CASE Define \/ DefineFunction \/ Eat \/ EatLast \/ Drop
  BY <1>3 DEF Define, DefineFunction, Eat, EatLast, Drop
<1>4. CASE Pass \/ PassEqu \/ PassLabel \/ Call \/ BadCall \/ Recursion
  BY <1>4 DEF Pass, PassEqu, PassLabel, Call, BadCall, Recursion
<1> QED BY <1>1, <1>2, <1>3, <1>4 DEF Next

LEMMA FailedStops == failed => ~Next
<1> SUFFICES ASSUME failed, Next PROVE FALSE
  OBVIOUS
<1>1. ~Ifdef /\ ~Lone /\ ~SkipRest /\ ~Elifdef /\ ~Else /\ ~Endif /\ ~Define /\ ~DefineFunction
  BY DEF Ifdef, Lone, SkipRest, Elifdef, Else, Endif, Define, DefineFunction, Open, At
<1>2. ~Eat /\ ~EatLast /\ ~Drop /\ ~Pass /\ ~PassEqu /\ ~PassLabel /\ ~Call /\ ~BadCall /\ ~Recursion
  BY DEF Eat, EatLast, Drop, Pass, PassEqu, PassLabel, Call, BadCall, Recursion, Passed, Ordinary
<1> QED BY <1>1, <1>2 DEF Next

\* Nothing happens.
LEMMA WellStays == ASSUME UNCHANGED vars, Well PROVE Well'
<1>1. /\ source' = source /\ todo' = todo /\ state' = state /\ hungry' = hungry
      /\ accepted' = accepted /\ stack' = stack /\ macros' = macros /\ functions' = functions
      /\ symbols' = symbols /\ out' = out
  BY DEF vars, globals
<1>2. Top' = Top /\ Collected' = Collected /\ Taken' = Taken
  BY <1>1 DEF Top, Collected, Taken
<1>3. Read' = Read
  <2>1. \A k : Pending(k)' <=> Pending(k)
    BY <1>1, <1>2 DEF Pending, WaysOn, Values, Key, Extends
  <2> QED BY <1>1, <2>1, ReadSame
<1>4. Accounts
  BY DEF Well
<1>5. Accounts'
  BY <1>1, <1>3, <1>4, ReadsStay
<1>6. PICK c \in 1..(N + 1), e \in 0..N : Placed(c, e)
  BY DEF Well
<1>7. /\ N' = N /\ InMacro' = InMacro /\ Meaning' = Meaning /\ Depth' = Depth
      /\ \A i, ds : IsDirective(i, ds)' <=> IsDirective(i, ds)
      /\ \A i : (Alive(i)' <=> Alive(i)) /\ (IsIf(i)' <=> IsIf(i))
  BY <1>1, LinesSame, MeaningSame, ShapeSame
<1>8. AtOutside(c, e)' \/ AtConditional(c, e)' \/ AtFunction(c, e)'
  <2>1. CASE AtOutside(c, e)
    BY <1>1, <1>6, <2>1, OutsideNext DEF AtOutside, ReadTo
  <2>2. CASE AtConditional(c, e)
    <3>1. PICK o \in 1..e :
            /\ IsIf(o) /\ \A j \in (o + 1)..e : ~IsIf(j)
            /\ hungry /\ accepted = {"endif"} => \E j \in o..e : IsDirective(j, {"else"})
      BY <2>2 DEF AtConditional
    <3>2. PICK b \in 2..c :
            /\ ReadTo(b) /\ IsDirective(b - 1, Conditional)
            /\ IF Top.value THEN Tops(Collected) = {j \in b..e : Alive(j)}
                            ELSE \A j \in b..e : ~Alive(j)
      BY <2>2 DEF AtConditional
    <3>3. PICK v : v = Top.value
      OBVIOUS
    <3>4. Top.value' = v
      BY <1>2, <3>3
    <3>5. /\ state' = "ifdef" /\ e = c - 1 /\ OfSource(todo') /\ OfSource(Collected')
          /\ Depth[e] = 1 /\ v = Meaning[e].taken
          /\ IF v THEN hungry' = Meaning[e].live ELSE hungry' /\ ~Meaning[e].live
      BY <1>1, <1>2, <2>2, <3>3 DEF AtConditional
    <3>6. hungry' /\ accepted' = {"endif"} => \E j \in o..e : IsDirective(j, {"else"})
      BY <1>1, <3>1
    <3>7. macros' = Meaning[b - 1].macros /\ FunctionsAre(functions', Meaning[b - 1].fns)
      BY <1>1, <3>2 DEF ReadTo
    <3>8. IF v THEN Tops(Collected') = {j \in b..e : Alive(j)} ELSE \A j \in b..e : ~Alive(j)
      BY <1>2, <3>2, <3>3
    <3>9. AtConditional(c, e)'
      BY <1>1, <1>6, <3>1, <3>2, <3>4, <3>5, <3>6, <3>7, <3>8, ConditionalNext
    <3> QED BY <3>9
  <2>3. CASE AtFunction(c, e)
    <3>1. PICK m \in 1..(c - 1) :
            /\ Top.value = m /\ IsDirective(m, {"macro"}) /\ source[m].more /\ Alive(m)
            /\ \A j \in (m + 1)..c : InMacro[j]
            /\ ReadTo(m)
            /\ DOMAIN Collected = 1..(c - 1 - m)
            /\ \A k \in DOMAIN Collected :
                 Collected[k].line = m + k /\ Collected[k].d = source[m + k].d
      BY <2>3 DEF AtFunction
    <3>2. PICK q : q = Collected
      OBVIOUS
    <3>3. /\ Collected' = q /\ DOMAIN q = 1..(c - 1 - m)
          /\ \A k \in DOMAIN q : q[k].line = m + k /\ q[k].d = source[m + k].d
      BY <1>2, <3>1, <3>2
    <3>4. Top.value' = m
      BY <1>2, <3>1
    <3>5. state' = "define" /\ Depth[e] = 0 /\ c =< N /\ c \in Left(c, e) /\ OfSource(todo')
      BY <1>1, <2>3 DEF AtFunction
    <3>6. macros' = Meaning[m - 1].macros /\ FunctionsAre(functions', Meaning[m - 1].fns)
      BY <1>1, <3>1 DEF ReadTo
    <3>7. /\ IsDirective(m, {"macro"}) /\ source[m].more /\ Alive(m)
          /\ \A j \in (m + 1)..c : InMacro[j]
      BY <3>1
    <3>8. AtFunction(c, e)'
      BY <1>1, <1>6, <3>3, <3>4, <3>5, <3>6, <3>7, FunctionNext
    <3> QED BY <3>8
  <2> QED BY <1>6, <2>1, <2>2, <2>3 DEF Placed
<1>9. Placed(c, e)'
  <2>1. /\ c =< e + 1 /\ Tops(todo') = Left(c, e)
        /\ \A it \in Values(todo') : OwnItem(it) \/ CallItem(it, c)
        /\ state' = "ifdef" => \A it \in Values(Collected') : OwnItem(it) \/ CallItem(it, c)
    BY <1>1, <1>2, <1>6 DEF Placed, Genuine
  <2> QED BY <1>1, <1>6, <1>8, <2>1, PlacedNext
<1> QED BY <1>5, <1>7, <1>9 DEF Well

\* At first all is still to be read.
LEMMA WellInit == ASSUME Init PROVE IF failed THEN Faulty ELSE Well /\ Chain(todo, 0)
<1>1. /\ source \in Sources /\ state = "passthrough"
      /\ todo = [i \in DOMAIN source |-> [line |-> i, d |-> source[i].d, more |-> source[i].more,
                                          over |-> Nothing, path |-> <<>>]]
      /\ macros = Nothing /\ functions = Nothing /\ out = <<>>
      /\ symbols = {source[i].x : i \in EquLines(source)}
      /\ failed = \E i, j \in EquLines(source) : i # j /\ source[i].x = source[j].x
  BY DEF Init
<1>2. EquLines(source) = Consts
  BY DEF EquLines, Consts, Lines
<1>3. CASE failed
  BY <1>1, <1>2, <1>3 DEF Faulty
<1>4. CASE ~failed
  <2>1. N \in Nat /\ Lines = 1..N /\ DOMAIN source = 1..N
    BY <1>1, SourceFacts DEF Lines
  <2>2. /\ DOMAIN todo = Lines
        /\ \A i \in Lines : /\ todo[i].line = i /\ todo[i].path = <<>>
                            /\ todo[i].d = source[i].d /\ todo[i].more = source[i].more
    BY <1>1 DEF Lines
  <2>3. Values(todo) = {todo[i] : i \in Lines}
    BY <2>2 DEF Values
  <2>4. \A it \in Values(todo) : OwnItem(it)
    BY <2>2, <2>3 DEF OwnItem
  <2>5. Tops(todo) = Lines
    <3>1. \A i \in Lines : i \in Tops(todo)
      BY <2>2, <2>3 DEF Tops
    <3>2. \A j \in Tops(todo) : j \in Lines
      BY <2>4 DEF Tops, OwnItem
    <3> QED BY <3>1, <3>2
  <2>6. Left(1, 0) = Lines
    <3>1. \A j \in Lines : j >= 1 /\ j > 0
      BY <2>1
    <3> QED BY <3>1 DEF Left
  <2>7. Meaning[0] = MeaningStart /\ Depth[0] = 0
    BY <1>1, MeaningIs, DepthIs
  <2>8. AtOutside(1, 0)
    <3>1. 1 =< N => ~InMacro[1]
      BY <1>1, <2>1, InMacroIs
    <3>2. Meaning[1 - 1] = MeaningStart /\ Depth[0] = 0
      BY <2>7
    <3>3. MeaningStart.macros = Nothing /\ MeaningStart.fns = Nothing
      BY DEF MeaningStart
    <3>4. FunctionsAre(Nothing, Nothing)
      BY DEF FunctionsAre, Nothing
    <3>5. ReadTo(1)
      BY <1>1, <3>2, <3>3, <3>4 DEF ReadTo
    <3> QED BY <1>1, <3>1, <3>2, <3>5 DEF AtOutside
  <2>9. Placed(1, 0)
    <3>1. 1 \in 1..(N + 1) /\ 0 \in 0..N /\ 1 =< 0 + 1
      BY <2>1
    <3>2. Genuine(todo, 1) /\ state # "ifdef"
      BY <1>1, <2>4 DEF Genuine
    <3> QED BY <2>5, <2>6, <2>8, <3>1, <3>2 DEF Placed
  <2>10. Read = {}
    <3> SUFFICES ASSUME NEW k \in Expanded PROVE Pending(k)
      BY DEF Read
    <3>1. k[1] \in Lines /\ k \in Seq(Nat) /\ Len(k) > 0
      BY <1>1, ExpandedFacts
    <3>2. PICK i : i = k[1]
      OBVIOUS
    <3>3. todo[i] \in Values(todo) /\ Key(todo[i]) = <<i>>
      BY <2>2, <2>3, <3>1, <3>2, OwnKey
    <3>4. Extends(<<i>>, k)
      BY <3>1, <3>2, ExtendsOne
    <3> QED BY <3>3, <3>4 DEF Pending, WaysOn
  <2>11. SymbolsRead
    BY <1>1, <1>2, <2>10 DEF SymbolsRead, ConstNames, Labels
  <2>12. OutRead
    <3>1. DOMAIN out = {}
      BY <1>1, EmptyIsSeq
    <3> QED BY <2>10, <3>1 DEF OutRead
  <2>13. Clean
    BY <1>1, <1>2, <1>4, <2>10 DEF Clean
  <2>14. 1 \in 1..(N + 1) /\ 0 \in 0..N
    BY <2>1
  <2>15. Well
    BY <2>9, <2>11, <2>12, <2>13, <2>14 DEF Well, Accounts
  <2>16. Chain(todo, 0)
    BY <1>1 DEF Chain, Ready
  <2> QED BY <1>4, <2>15, <2>16
<1> QED BY <1>3, <1>4

\* Nothing happens in a macro function's conditional.
LEMMA InnerStays ==
  ASSUME source \in Sources, UNCHANGED vars, WellInBody PROVE WellInBody'
<1>1. /\ source' = source /\ todo' = todo /\ state' = state /\ hungry' = hungry
      /\ accepted' = accepted /\ stack' = stack /\ macros' = macros /\ functions' = functions
      /\ symbols' = symbols
  BY DEF vars, globals
<1>2. Collected' = Collected /\ Taken' = Taken
  BY <1>1 DEF Top, Collected, Taken
<1>3. /\ Balanced /\ ~Tame /\ state = "ifdef" /\ todo # <<>> /\ SymbolsRead /\ InBody
  BY DEF WellInBody
<1>4. PICK c \in 1..(N + 1), e \in 0..N : Within(c, e)
  BY DEF WellInBody
<1>5. PICK l \in Lines : /\ source[l].d \in Conditional \/ hungry
                         /\ hungry => l = todo[1].line
                         /\ BranchTo(Collected, l, todo[1].path)
  BY <1>3 DEF InBody
<1>6. PICK t, q : t = todo /\ q = Collected
  OBVIOUS
<1>7. todo' = t /\ Collected' = q
  BY <1>1, <1>2, <1>6
<1>8. Continues(t, l, q)
  BY <1>3, <1>5, <1>6 DEF InBody, Continues
<1>9. Elsewhere(t, q, c, e)
  BY <1>4, <1>6 DEF Within, Elsewhere
<1>10. \A k : Pending(k)' <=> Pending(k)
  BY <1>1, <1>2 DEF Pending, WaysOn, Values, Key, Extends
<1>11. SymbolsRead'
  BY <1>1, <1>3, <1>10, SymbolsStay
<1>12. macros' = Meaning[c - 1].macros /\ FunctionsAre(functions', Meaning[c - 1].fns)
  BY <1>1, <1>4 DEF Within, ReadTo
<1>13. /\ source[l].d \in Conditional \/ hungry'
       /\ hungry' => l = t[1].line
       /\ hungry' /\ accepted' = {"endif"} => ElseBefore(t[1].line)
  BY <1>1, <1>3, <1>5, <1>6 DEF InBody
<1>14. state' = "ifdef"
  BY <1>1, <1>3
<1> QED BY <1>1, <1>3, <1>7, <1>8, <1>9, <1>11, <1>12, <1>13, <1>14, InnerNext

\* Whatever is done elsewhere.
LEMMA OuterStep ==
  ASSUME Steady, Next
  PROVE  IF failed' THEN Faulty ELSE WellInBody' \/ (Well' /\ (Balanced => Chain(todo', 0)))
<1>1. CASE Ifdef /\ Item.path # <<>>
  <2>1. ~failed'
    BY <1>1 DEF Ifdef, Steady
  <2> QED BY <1>1, <2>1, InnerIfdef
<1>2. CASE Ifdef => Item.path = <<>>
  <2>1. IF failed' THEN Faulty ELSE Well'
    BY <1>2, SteadyStep
  <2>2. Balanced /\ ~failed' => Chain(todo', 0)
    BY <1>2, ChainStep
  <2> QED BY <2>1, <2>2
<1> QED BY <1>1, <1>2

LEMMA MeaningStays ==
  ASSUME source \in Sources, PreprocessorInv, OrderInv, MeaningInv, [Next]_vars
  PROVE  source' \in Sources /\ MeaningInv'
<1>1. source' = source
  BY SourceStays
<1>2. /\ (Tame' <=> Tame) /\ (Balanced' <=> Balanced) /\ (Faulty' <=> Faulty)
      /\ Chain(todo, 0)' <=> Chain(todo', 0)
  BY <1>1, ShapeSame, ChainSame
<1> SUFFICES ASSUME Sound
             PROVE  IF failed' THEN Faulty
                    ELSE WellInBody' \/ (Well' /\ (Balanced => Chain(todo', 0)))
  BY <1>1, <1>2 DEF MeaningInv, Sound
<1>3. CASE failed
  <2>1. UNCHANGED vars /\ Faulty
    BY <1>3, FailedStops DEF MeaningInv
  <2>2. failed' = failed
    BY <2>1 DEF vars
  <2> QED BY <1>3, <2>1, <2>2
<1>4. CASE ~failed /\ WellInBody
  <2>1. CASE Next
    BY <1>4, <2>1, InnerStep
  <2>2. CASE UNCHANGED vars
    <3>1. failed' = failed
      BY <2>2 DEF vars
    <3> QED BY <1>4, <2>2, <3>1, InnerStays
  <2> QED BY <2>1, <2>2
<1>5. CASE ~failed /\ Well /\ (Balanced => Chain(todo, 0))
  <2>1. Steady
    BY <1>5 DEF Steady, Sound, Tame, Balanced
  <2>2. CASE Next
    BY <2>1, <2>2, OuterStep
  <2>3. CASE UNCHANGED vars
    <3>1. failed' = failed /\ todo' = todo
      BY <2>3 DEF vars
    <3> QED BY <1>5, <2>3, <3>1, WellStays
  <2> QED BY <2>2, <2>3
<1> QED BY <1>3, <1>4, <1>5 DEF MeaningInv

-----------------------------------------------------------------------------
(* At the end.                                                             *)

\* There is no more line, and every one has been read.
LEMMA AllRead ==
  ASSUME source \in Sources, Tame, Well, todo = <<>>
  PROVE  FunctionsAre(functions, Meaning[N].fns) /\ Read = Expanded
<1>1. PICK c \in 1..(N + 1), e \in 0..N : Placed(c, e)
  BY DEF Well
<1>2. N \in Nat /\ Lines = 1..N
  BY SourceFacts
<1>3. Left(c, e) = {} /\ c =< e + 1
  <2>1. Tops(<<>>) = {}
    BY ValuesEmpty DEF Tops
  <2> QED BY <1>1, <2>1 DEF Placed
<1>4. ~AtFunction(c, e)
  BY <1>3 DEF AtFunction
<1>5. ~AtConditional(c, e)
  <2> SUFFICES ASSUME AtConditional(c, e) PROVE FALSE
    OBVIOUS
  <2>1. e = c - 1 /\ Depth[e] = 1
    BY DEF AtConditional
  <2>2. c \notin Lines
    <3>1. c \in Lines => c \in Left(c, e)
      BY <1>2, <2>1 DEF Left
    <3> QED BY <1>3, <3>1
  <2>3. e = N
    BY <1>1, <1>2, <2>1, <2>2
  <2>4. Depth[N] = 0
    BY DEF Tame, WellFormed, N
  <2> QED BY <2>1, <2>3, <2>4
<1>6. AtOutside(c, e)
  BY <1>1, <1>4, <1>5 DEF Placed
<1>7. \A j \in c..N : ~Alive(j)
  <2>1. \A j \in c..N : j \in Lines /\ j >= c
    BY <1>1, <1>2
  <2> QED BY <1>3, <2>1 DEF Left
<1>8. Meaning[N].fns = Meaning[c - 1].fns
  <2>1. c - 1 \in 0..N /\ N \in (c - 1)..N /\ (c - 1) + 1 = c
    BY <1>1, <1>2
  <2> QED BY <1>7, <2>1, SameBetween
<1>9. FunctionsAre(functions, Meaning[N].fns)
  BY <1>6, <1>8 DEF AtOutside, ReadTo
<1>10. \A k : ~Pending(k)
  <2>1. Taken = <<>>
    BY <1>6 DEF Taken, AtOutside
  <2> QED BY <2>1, WaysOfLists DEF Pending
<1>11. Read = Expanded
  BY <1>10 DEF Read
<1> QED BY <1>9, <1>11

LEMMA CleanIsNotFaulty ==
  ASSUME source \in Sources, Clean, Read = Expanded PROVE ~Faulty
<1>1. ASSUME NEW i \in Consts, NEW j \in Consts, i # j, source[i].x = source[j].x PROVE FALSE
  BY <1>1 DEF Clean
<1>2. ASSUME NEW k \in Expanded, source[Last(k)].d = "call",
             GoodCall(Last(k), Meaning[k[1]].fns) => Len(k) > Limit
      PROVE  FALSE
  <2>1. GoodCall(Last(k), Meaning[k[1]].fns) /\ Len(k) =< Limit
    BY <1>2 DEF Clean
  <2>2. Len(k) > Limit
    BY <1>2, <2>1
  <2>3. Len(k) \in Nat
    BY ExpandedFacts
  <2> QED BY <2>1, <2>2, <2>3, LimitAssumption
<1>3. ASSUME NEW k \in Expanded, IsLabel(k),
             \/ \E i \in Consts : source[i].x = source[Last(k)].x
             \/ \E h \in Expanded \ {k} : IsLabel(h) /\ source[Last(h)].x = source[Last(k)].x
      PROVE  FALSE
  <2>1. /\ Name(k) \notin ConstNames
        /\ \A h \in Expanded \ {k} : IsLabel(h) => Name(h) # Name(k)
    BY <1>3 DEF Clean
  <2> QED BY <1>3, <2>1 DEF Name, ConstNames
<1> QED BY <1>1, <1>2, <1>3 DEF Faulty

\* The symbols are those of all that is assembled.
LEMMA AllSymbols ==
  ASSUME source \in Sources, SymbolsRead, Read = Expanded PROVE symbols = Meaning[N].symbols
<1>1. N \in Nat /\ Lines = 1..N /\ N \in 0..N
  BY SourceFacts
<1>2. \A k \in Expanded : k[1] =< N
  BY <1>1, ExpandedFacts
<1>3. {k \in Expanded : k[1] =< N} = Expanded
  BY <1>2
<1>4. Meaning[N].symbols = ConstNames \cup Labels(Expanded)
  BY <1>1, <1>3, SymbolsAre
<1> QED BY <1>4 DEF SymbolsRead

LEMMA WellWhenTame == ASSUME MeaningInv, Tame, ~failed PROVE Well
BY DEF MeaningInv, Sound, WellInBody

LEMMA MeaningKeeps ==
  ASSUME source \in Sources, MeaningInv PROVE KeepsTakenBranches
<1> SUFFICES ASSUME Done, Tame
             PROVE  /\ failed <=> Faulty
                    /\ ~failed =>
                         /\ {out[i].key : i \in DOMAIN out} = {k \in Expanded : IsIns(k)}
                         /\ symbols = Meaning[Len(source)].symbols
  BY DEF KeepsTakenBranches
<1>1. CASE failed
  BY <1>1 DEF MeaningInv, Sound
<1>2. CASE ~failed
  <2>1. todo = <<>> /\ Well
    BY <1>2, WellWhenTame DEF Done
  <2>2. Read = Expanded
    BY <2>1, AllRead
  <2>3. ~Faulty
    BY <2>1, <2>2, CleanIsNotFaulty DEF Well, Accounts
  <2>4. {out[i].key : i \in DOMAIN out} = {k \in Expanded : IsIns(k)}
    BY <2>1, <2>2 DEF Well, Accounts, OutRead
  <2>5. symbols = Meaning[Len(source)].symbols
    BY <2>1, <2>2, AllSymbols DEF Well, Accounts, N
  <2> QED BY <1>2, <2>3, <2>4, <2>5
<1> QED BY <1>1, <1>2

LEMMA MeaningWhole ==
  ASSUME source \in Sources, MeaningInv PROVE MacrosWhole
<1> SUFFICES ASSUME Done, Tame, ~failed, NEW i \in Lines, IsLast(i)
             PROVE  /\ source[i].x \in DOMAIN functions
                    /\ LET body == functions[source[i].x].body IN
                       /\ {body[k].line : k \in DOMAIN body} = BodyOf(i)
                       /\ \A k \in DOMAIN body :
                            body[k].line = i + k \/ (~source[i].more /\ k = 1)
  BY DEF MacrosWhole
<1>1. FunctionsAre(functions, Meaning[N].fns)
  BY AllRead, WellWhenTame DEF Done
<1>2. source[i].x \in DOMAIN Meaning[N].fns /\ Meaning[N].fns[source[i].x] = i
  BY LastWins
<1>3. PICK body : body = functions[source[i].x].body
  OBVIOUS
<1>4. source[i].x \in DOMAIN functions /\ Whole(i, body)
  BY <1>1, <1>2, <1>3 DEF FunctionsAre
<1>5. /\ {body[k].line : k \in DOMAIN body} = BodyOf(i)
      /\ \A k \in DOMAIN body : body[k].line = i + k \/ (~source[i].more /\ k = 1)
  <2>1. CASE source[i].more
    BY <1>4, <2>1 DEF Whole
  <2>2. CASE ~source[i].more
    <3>1. DOMAIN body = {1} /\ body[1].line = i
      BY <1>4, <2>2 DEF Whole
    <3>2. BodyOf(i) = {i}
      BY <2>2 DEF BodyOf
    <3> QED BY <2>2, <3>1, <3>2
  <2> QED BY <2>1, <2>2
<1> QED BY <1>3, <1>4, <1>5

LEMMA AlwaysMeant == Spec => [](source \in Sources /\ MeaningInv)
<1>1. Init => source \in Sources /\ MeaningInv
  BY WellInit DEF Init, MeaningInv
<1>2. PreprocessorInv /\ [Next]_vars => PreprocessorInv'
  BY InvStep
<1>3. PreprocessorInv /\ OrderInv /\ [Next]_vars => OrderInv'
  BY OrderStep
<1>4. source \in Sources /\ PreprocessorInv /\ OrderInv /\ MeaningInv /\ [Next]_vars
        => (source \in Sources)' /\ MeaningInv'
  BY MeaningStays
<1> QED BY InvInit, OrderInit, <1>1, <1>2, <1>3, <1>4, PTL DEF Spec

\* A source without nested conditionals comes to the instructions of the branches
\* that are taken, with those of the functions they call, and no other; the
\* symbols are theirs and those of every equ; and only a name that is defined
\* twice, or a call that cannot be made, is an error (rrasm.py:1080-1208,
\* 1399-1424).
THEOREM TakenBranchesKept == Spec => []KeepsTakenBranches
<1>1. source \in Sources /\ MeaningInv => KeepsTakenBranches
  BY MeaningKeeps
<1> QED BY AlwaysMeant, <1>1, PTL

\* The body of a macro function is all of its lines and no other, in order, also
\* when its definition was itself collected in a branch (rrasm.py:1191-1201).
THEOREM MacrosStayWhole == Spec => []MacrosWhole
<1>1. source \in Sources /\ MeaningInv => MacrosWhole
  BY MeaningWhole
<1> QED BY AlwaysMeant, <1>1, PTL

\* The operands of the next line that is assembled are as they should be.
LEMMA OperandsStay ==
  ASSUME source \in Sources, PreprocessorInv, OrderInv, MeaningInv, OperandsReplaced, [Next]_vars
  PROVE  OperandsReplaced'
<1>1. source' = source
  BY SourceStays
<1>2. (Balanced' <=> Balanced) /\ \A k : ResolvedAt(k)' = ResolvedAt(k)
  BY <1>1, ShapeSame, OperandsSame
<1> SUFFICES ASSUME Balanced, NEW i \in DOMAIN out'
             PROVE  out'[i].args = ResolvedAt(out'[i].key)
  BY <1>2 DEF OperandsReplaced
<1>3. \A j \in DOMAIN out : out[j].args = ResolvedAt(out[j].key)
  BY DEF OperandsReplaced
<1>4. CASE Pass
  <2>1. /\ ~failed /\ todo # <<>> /\ state = "passthrough" /\ Item.d = "ins"
        /\ out' = Append(out, [key |-> Key(Item), args |-> Operands])
    BY <1>4 DEF Pass, Passed, Ordinary, Key
  <2>2. Well /\ Chain(todo, 0) /\ WellFormed
    BY <2>1 DEF MeaningInv, Sound, WellInBody, Balanced
  <2>3. PICK p \in 1..(N + 1), e \in 0..N : Placed(p, e)
    BY <2>2 DEF Well
  <2>4. Item.d \notin Directives
    BY <2>1 DEF Directives, Conditional
  <2>5. PICK h, o : h = Key(Item) /\ o = Operands
    OBVIOUS
  <2>6. o = ResolvedAt(h)
    BY <2>1, <2>2, <2>3, <2>4, <2>5, PassOperands
  <2>7. PICK r : r = [key |-> h, args |-> o]
    OBVIOUS
  <2>8. out' = Append(out, r) /\ r.key = h /\ r.args = o
    BY <2>1, <2>5, <2>7
  <2>9. IsSeq(out)
    BY DEF OrderInv, Ordered, OutInOrder
  <2>10. Len(out) \in Nat /\ DOMAIN out = 1..Len(out)
    BY <2>9, SeqFacts
  <2>11. /\ DOMAIN out' = 1..(Len(out) + 1) /\ out'[Len(out) + 1] = r
         /\ \A j \in DOMAIN out : out'[j] = out[j]
    BY <2>8, <2>9, AppendSeq
  <2>12. i \in DOMAIN out \/ i = Len(out) + 1
    BY <2>10, <2>11
  <2>13. CASE i \in DOMAIN out
    BY <1>3, <2>11, <2>13
  <2>14. CASE i = Len(out) + 1
    BY <2>6, <2>8, <2>11, <2>14
  <2> QED BY <2>12, <2>13, <2>14
<1>5. CASE ~Pass
  <2>1. CASE UNCHANGED vars
    BY <1>3, <2>1 DEF vars
  <2>2. CASE Next
    <3>1. Ifdef \/ Lone \/ SkipRest \/ Elifdef \/ Else \/ Endif \/ Define \/ DefineFunction => out' = out
      BY DEF Ifdef, Lone, SkipRest, Elifdef, Else, Endif, Define, DefineFunction
    <3>2. Eat \/ EatLast \/ Drop \/ PassEqu \/ PassLabel \/ Call \/ BadCall \/ Recursion => out' = out
      BY DEF Eat, EatLast, Drop, PassEqu, PassLabel, Call, BadCall, Recursion
    <3>3. out' = out
      BY <1>5, <2>2, <3>1, <3>2 DEF Next
    <3> QED BY <1>3, <3>3
  <2> QED BY <2>1, <2>2
<1> QED BY <1>4, <1>5

\* An operand is what the innermost call gives for it, or else what the macro of
\* its name stands for where the outermost call is made, through branches of
\* macro functions that are collected and preprocessed again; but in such a
\* branch of several lines the parameters are not known (rrasm.py:947-961,
\* 1064-1074, 1092-1103).
THEOREM OperandsAlwaysReplaced == Spec => []OperandsReplaced
<1>1. Init => OperandsReplaced
  BY EmptyIsSeq DEF Init, OperandsReplaced
<1>2. PreprocessorInv /\ [Next]_vars => PreprocessorInv'
  BY InvStep
<1>3. PreprocessorInv /\ OrderInv /\ [Next]_vars => OrderInv'
  BY OrderStep
<1>4. source \in Sources /\ PreprocessorInv /\ OrderInv /\ MeaningInv /\ OperandsReplaced
        /\ [Next]_vars => OperandsReplaced'
  BY OperandsStay
<1> QED BY InvInit, OrderInit, AlwaysMeant, <1>1, <1>2, <1>3, <1>4, PTL DEF Spec
=============================================================================
