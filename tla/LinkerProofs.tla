---------------------------- MODULE LinkerProofs ----------------------------
(***************************************************************************)
(* Proofs about the linker, for every command line and every set of        *)
(* objects: linked assemblies never overlap, symbols follow their          *)
(* assembly, a relocated image is contiguous, every reference is patched   *)
(* where and with what it should, and rrld only gives up for a reason.     *)
(***************************************************************************)
EXTENDS Linker, SequenceTheorems, TLAPS

Loaded   == 1..Len(assemblies)
Assembly == [address : Int, size : Int]
Tables   == <<input, assemblies, symbols, owner, unresolved>>

\* Only loading and relocating change the tables of the linker.
Quiet ==
  /\ UNCHANGED Tables
  /\ base' = base /\ next' \in {next, next + 1, 1}
  /\ phase' = "load" => phase = "load" /\ next' = next
  /\ phase' \in {"relocate", "validate", "link", "done"} =>
       phase' = phase \/ phase \in {"relocate", "validate", "link"}

LEMMA StepKinds ==
  [Next]_vars => LoadFile \/ RelocateAssembly \/ FilesLoaded \/ Quiet
<1>1. \A how \in {"failed", "crashed"} : Stop(how) => Quiet
  BY DEF Stop, Quiet, Tables
<1>2. RejectFile \/ RelocateFixed \/ RejectOverlap \/ RejectSymbol \/ CrashOnSymbol
        \/ RejectOutput => Quiet
  BY <1>1 DEF RejectFile, RelocateFixed, RejectOverlap, RejectSymbol,
              CrashOnSymbol, RejectOutput
<1>3. Relocated \/ ValidateAssembly \/ Validated => Quiet
  BY DEF Relocated, ValidateAssembly, Validated, Quiet, Tables
<1>4. LinkSymbol => Quiet
  BY DEF LinkSymbol, Linking, Quiet, Tables
<1>5. WriteImage => Quiet
  BY DEF WriteImage, Linked, Quiet, Tables
<1>6. UNCHANGED vars => Quiet
  BY DEF vars, Quiet, Tables
<1> QED BY <1>2, <1>3, <1>4, <1>5, <1>6 DEF Next

LEMMA SourceFacts ==
  ASSUME input \in Inputs
  PROVE  /\ Len(Sources) \in Nat \ {0} /\ DOMAIN Sources = Files
         /\ input.relocate \in BOOLEAN /\ input.start \in Nat
         /\ \A f \in Files : IsSource(Sources[f])
BY InputsAssumption DEF Sources, Files

LEMMA SourcesSame == UNCHANGED input => Sources' = Sources /\ Files' = Files
BY DEF Sources, Files

LEMMA SegmentFacts ==
  ASSUME input \in Inputs, NEW f \in Files
  PROVE  /\ Segment(Sources[f]) \in Assembly
         /\ Segment(Sources[f]).address = 4 * Sources[f].org
         /\ Segment(Sources[f]).address % 4 = 0
         /\ Segment(Sources[f]).size = 4 * Sources[f].words
         /\ Sources[f].org \in Nat /\ Sources[f].words \in Nat
BY SourceFacts DEF Segment, IsSource, Assembly

-----------------------------------------------------------------------------
\* The loops' indices, and what every table of assemblies looks like.
ShapeInv ==
  /\ input \in Inputs
  /\ next \in Nat \ {0}
  /\ base \in Int /\ base % 4 = 0
  /\ assemblies \in Seq(Assembly)
  /\ \A f \in Loaded : /\ assemblies[f].address % 4 = 0
                       /\ assemblies[f].size = 4 * Sources[f].words
  /\ phase = "load" => Len(assemblies) = next - 1 /\ next =< Len(Sources) + 1
  /\ phase \in {"relocate", "validate", "link", "done"} =>
       Len(assemblies) = Len(Sources)

LEMMA InitShape == Init => ShapeInv
<1> SUFFICES ASSUME Init PROVE ShapeInv
  OBVIOUS
<1>1. input \in Inputs /\ phase = "load" /\ next = 1 /\ assemblies = <<>> /\ base = 0
  BY DEF Init
<1>2. Len(Sources) \in Nat
  BY <1>1, SourceFacts
<1> QED BY <1>1, <1>2 DEF ShapeInv, Loaded

\* One more assembly at the end of the table.
LEMMA LoadKeepsAssemblies ==
  ASSUME ShapeInv, LoadFile
  PROVE  /\ assemblies' = Append(assemblies, Segment(Sources[next]))
         /\ next \in Files /\ next = Len(assemblies) + 1
         /\ assemblies' \in Seq(Assembly)
         /\ Len(assemblies') = Len(assemblies) + 1
         /\ \A f \in Loaded : assemblies'[f] = assemblies[f]
         /\ assemblies'[next] = Segment(Sources[next])
         /\ Loaded' = Loaded \cup {next}
         /\ Len(assemblies) \in Nat
<1>1. /\ assemblies' = Append(assemblies, Segment(Sources[next]))
      /\ next \in Files /\ next = Len(assemblies) + 1
      /\ assemblies \in Seq(Assembly) /\ Len(assemblies) \in Nat
  BY DEF LoadFile, ShapeInv
<1>2. Segment(Sources[next]) \in Assembly
  BY <1>1, SegmentFacts DEF ShapeInv
<1>3. /\ assemblies' \in Seq(Assembly)
      /\ Len(assemblies') = Len(assemblies) + 1
      /\ \A f \in 1..Len(assemblies) : assemblies'[f] = assemblies[f]
      /\ assemblies'[Len(assemblies) + 1] = Segment(Sources[next])
  BY <1>1, <1>2
<1> QED BY <1>1, <1>3 DEF Loaded

\* One assembly moved, to the current base.
LEMMA RelocateKeepsAssemblies ==
  ASSUME ShapeInv, RelocateAssembly
  PROVE  /\ next \in Files /\ Files = Loaded /\ Loaded' = Loaded
         /\ assemblies' \in Seq(Assembly)
         /\ Len(assemblies') = Len(assemblies)
         /\ \A f \in Loaded : f # next => assemblies'[f] = assemblies[f]
         /\ assemblies'[next].address = base
         /\ assemblies'[next].size = assemblies[next].size
         /\ assemblies[next].address = 0 /\ base \in Int
<1>1. /\ assemblies' = [assemblies EXCEPT ![next].address = base]
      /\ next \in Files /\ assemblies[next].address = 0 /\ phase = "relocate"
  BY DEF RelocateAssembly
<1>2. /\ assemblies \in Seq(Assembly) /\ base \in Int
      /\ Files = 1..Len(assemblies) /\ Len(assemblies) \in Nat
  BY <1>1 DEF ShapeInv, Files
<1>3. assemblies[next] \in Assembly
  BY <1>1, <1>2
<1>4. [assemblies[next] EXCEPT !.address = base] \in Assembly
  BY <1>2, <1>3 DEF Assembly
<1>5. /\ assemblies' \in Seq(Assembly) /\ Len(assemblies') = Len(assemblies)
      /\ \A f \in 1..Len(assemblies) : f # next => assemblies'[f] = assemblies[f]
      /\ assemblies'[next] = [assemblies[next] EXCEPT !.address = base]
  BY <1>1, <1>2, <1>4
<1> QED BY <1>1, <1>2, <1>3, <1>5 DEF Loaded, Assembly

LEMMA NextShape == ShapeInv /\ [Next]_vars => ShapeInv'
<1> SUFFICES ASSUME ShapeInv, [Next]_vars PROVE ShapeInv'
  OBVIOUS
<1>0. /\ Len(Sources) \in Nat /\ input' = input /\ Sources' = Sources
      /\ Files' = Files /\ next \in Nat \ {0} /\ input \in Inputs
      /\ assemblies \in Seq(Assembly) /\ Len(assemblies) \in Nat
  <2>1. input' = input
    BY StepKinds DEF LoadFile, RelocateAssembly, FilesLoaded, Quiet, Tables
  <2> QED BY <2>1, SourceFacts, SourcesSame DEF ShapeInv
<1>1. CASE LoadFile
  <2>1. /\ next' = next + 1 /\ phase' = "load" /\ phase = "load" /\ base' = base
        /\ next =< Len(Sources)
    BY <1>1, <1>0 DEF LoadFile, Files
  <2>2. /\ next \in Files /\ assemblies' \in Seq(Assembly)
        /\ Len(assemblies') = Len(assemblies) + 1 /\ next = Len(assemblies) + 1
        /\ \A f \in Loaded : assemblies'[f] = assemblies[f]
        /\ assemblies'[next] = Segment(Sources[next])
        /\ Loaded' = Loaded \cup {next}
    BY <1>1, LoadKeepsAssemblies
  <2>3. /\ assemblies'[next].address % 4 = 0
        /\ assemblies'[next].size = 4 * Sources[next].words
    BY <1>0, <2>2, SegmentFacts
  <2>4. \A f \in Loaded' : /\ assemblies'[f].address % 4 = 0
                           /\ assemblies'[f].size = 4 * Sources[f].words
    BY <2>2, <2>3 DEF ShapeInv
  <2>5. /\ Len(assemblies') = next' - 1 /\ next' =< Len(Sources') + 1
        /\ next' \in Nat \ {0}
    BY <1>0, <2>1, <2>2
  <2>6. base' \in Int /\ base' % 4 = 0 /\ input' \in Inputs
    BY <1>0, <2>1 DEF ShapeInv
  <2> QED BY <1>0, <2>1, <2>2, <2>4, <2>5, <2>6 DEF ShapeInv
<1>2. CASE RelocateAssembly
  <2>1. /\ base' = base + assemblies[next].size /\ next' = next + 1
        /\ phase' = "relocate" /\ phase = "relocate"
    BY <1>2 DEF RelocateAssembly
  <2>2. next \in Loaded /\ assemblies[next].size = 4 * Sources[next].words
    BY <1>2, RelocateKeepsAssemblies DEF ShapeInv
  <2>3. Sources[next].words \in Nat
    BY <1>0, <1>2, SegmentFacts, RelocateKeepsAssemblies
  <2>4. base \in Int /\ base % 4 = 0 /\ base' = base + 4 * Sources[next].words
    BY <2>1, <2>2 DEF ShapeInv
  <2>5. base' \in Int /\ base' % 4 = 0
    BY <2>3, <2>4
  <2>6. \A f \in Loaded' : /\ assemblies'[f].address % 4 = 0
                           /\ assemblies'[f].size = 4 * Sources[f].words
    BY <1>2, RelocateKeepsAssemblies DEF ShapeInv
  <2> QED BY <1>0, <1>2, <2>1, <2>5, <2>6, RelocateKeepsAssemblies DEF ShapeInv
<1>3. CASE FilesLoaded
  <2>1. /\ assemblies' = assemblies /\ next' = 1
        /\ phase' \in {"relocate", "validate"} /\ phase = "load"
        /\ base' \in {base} \cup ReasonableBase /\ next \notin Files
    BY <1>3, Zenon DEF FilesLoaded
  <2>2. Len(assemblies) = Len(Sources)
    BY <1>0, <2>1 DEF ShapeInv, Files
  <2>3. base' \in Int /\ base' % 4 = 0
    <3>0. \A f \in 1..Len(assemblies) : assemblies[f] \in Assembly
      BY <1>0
    <3>1. \A f \in Files : assemblies[f].address \in Int
      BY <3>0, <2>2 DEF Files, Assembly
    <3>2. \A f \in Files : assemblies[f].address % 4 = 0
      BY <2>2 DEF ShapeInv, Loaded, Files
    <3>3. input.start \in Nat
      BY <1>0, SourceFacts
    <3>4. \A b \in ReasonableBase : b \in Int /\ b % 4 = 0
      BY <3>1, <3>2, <3>3 DEF ReasonableBase
    <3> QED BY <2>1, <3>4 DEF ShapeInv
  <2>4. \A f \in Loaded' : /\ assemblies'[f].address % 4 = 0
                           /\ assemblies'[f].size = 4 * Sources[f].words
    BY <2>1 DEF ShapeInv, Loaded
  <2>5. next' \in Nat \ {0} /\ assemblies' \in Seq(Assembly)
    BY <1>0, <2>1
  <2>6. Len(assemblies') = Len(Sources') /\ phase' # "load"
    BY <1>0, <2>1, <2>2
  <2> QED BY <1>0, <2>3, <2>4, <2>5, <2>6 DEF ShapeInv
<1>4. CASE Quiet
  <2>1. assemblies' = assemblies /\ next' \in Nat \ {0}
    BY <1>0, <1>4 DEF Quiet, Tables
  <2>2. \A f \in Loaded' : /\ assemblies'[f].address % 4 = 0
                           /\ assemblies'[f].size = 4 * Sources[f].words
    BY <2>1 DEF ShapeInv, Loaded
  <2>3. phase' \in {"relocate", "validate", "link", "done"} =>
          Len(assemblies') = Len(Sources')
    BY <1>0, <1>4, <2>1 DEF ShapeInv, Quiet
  <2>4. phase' = "load" => Len(assemblies') = next' - 1 /\ next' =< Len(Sources') + 1
    BY <1>0, <1>4, <2>1 DEF ShapeInv, Quiet
  <2>5. base' = base
    BY <1>4 DEF Quiet
  <2> QED BY <1>0, <2>1, <2>2, <2>3, <2>4, <2>5 DEF ShapeInv
<1> QED BY <1>1, <1>2, <1>3, <1>4, StepKinds

THEOREM ShapeCorrect == Spec => []ShapeInv
BY InitShape, NextShape, PTL DEF Spec

-----------------------------------------------------------------------------
(***************************************************************************)
(* Overlaps.  Each assembly is compared only with those before it; the     *)
(* assemblies validated so far are therefore pairwise disjoint.            *)
(***************************************************************************)
Validating ==
  phase = "validate" =>
    \A f, g \in Files : f < g /\ g < next => ~Overlap(assemblies[f], assemblies[g])

DisjointInv == ShapeInv /\ Validating /\ DisjointWhenLinked

LEMMA OverlapSymmetric ==
  ASSUME ShapeInv, phase \in {"relocate", "validate", "link", "done"},
         NEW f \in Files, NEW g \in Files, Overlap(assemblies[f], assemblies[g])
  PROVE  Overlap(assemblies[g], assemblies[f])
<1>1. assemblies \in Seq(Assembly) /\ Files = 1..Len(assemblies)
  BY DEF ShapeInv, Files
<1>2. assemblies[f] \in Assembly /\ assemblies[g] \in Assembly
  BY <1>1
<1> QED BY <1>2 DEF Overlap, Assembly

LEMMA NextDisjoint == DisjointInv /\ [Next]_vars => Validating' /\ DisjointWhenLinked'
<1> SUFFICES ASSUME DisjointInv, [Next]_vars
             PROVE  Validating' /\ DisjointWhenLinked'
  OBVIOUS
<1>0. /\ ShapeInv /\ Files' = Files /\ Files = 1..Len(Sources)
      /\ Len(Sources) \in Nat /\ next \in Nat \ {0}
  <2>1. input' = input
    BY StepKinds DEF LoadFile, RelocateAssembly, FilesLoaded, Quiet, Tables
  <2> QED BY <2>1, SourceFacts, SourcesSame DEF DisjointInv, ShapeInv, Files
<1>1. ASSUME phase' \notin {"validate", "link", "done"}
      PROVE  Validating' /\ DisjointWhenLinked'
  BY <1>1 DEF Validating, DisjointWhenLinked
<1>2. ASSUME next' = 1, phase' = "validate"
      PROVE  Validating' /\ DisjointWhenLinked'
  BY <1>0, <1>2 DEF Validating, DisjointWhenLinked
<1>3. CASE FilesLoaded
  BY <1>1, <1>2, <1>3 DEF FilesLoaded
<1>4. CASE Relocated
  BY <1>2, <1>4 DEF Relocated
<1>5. CASE ValidateAssembly
  <2>1. /\ phase' = "validate" /\ next' = next + 1 /\ phase = "validate"
        /\ assemblies' = assemblies /\ ~OverlapsAssembly(next)
    BY <1>5 DEF ValidateAssembly
  <2>2. \A f, g \in Files : f < g /\ g < next + 1 =>
                             ~Overlap(assemblies[f], assemblies[g])
    <3> SUFFICES ASSUME NEW f \in Files, NEW g \in Files, f < g, g < next + 1
                 PROVE  ~Overlap(assemblies[f], assemblies[g])
      OBVIOUS
    <3>1. CASE g < next
      BY <2>1, <3>1 DEF DisjointInv, Validating
    <3>2. CASE g = next
      <4>1. f \in Compared(next)
        BY <1>0, <3>2 DEF Compared
      <4> QED BY <2>1, <3>2, <4>1 DEF OverlapsAssembly
    <3> QED BY <1>0, <3>1, <3>2
  <2> QED BY <1>0, <2>1, <2>2 DEF Validating, DisjointWhenLinked
<1>6. CASE Validated
  <2>1. /\ phase' = "link" /\ phase = "validate" /\ next \notin Files
        /\ assemblies' = assemblies
    BY <1>6 DEF Validated
  <2>2. \A f, g \in Files : f < g => ~Overlap(assemblies[f], assemblies[g])
    BY <1>0, <2>1 DEF DisjointInv, Validating
  <2>3. \A f, g \in Files : f # g => ~Overlap(assemblies[f], assemblies[g])
    <3> SUFFICES ASSUME NEW f \in Files, NEW g \in Files, f # g
                 PROVE  ~Overlap(assemblies[f], assemblies[g])
      OBVIOUS
    <3>1. f < g \/ g < f
      BY <1>0
    <3> QED BY <1>0, <2>1, <2>2, <3>1, OverlapSymmetric
  <2> QED BY <1>0, <2>1, <2>3 DEF Validating, DisjointWhenLinked
<1>7. ASSUME phase \in {"link", "done"}, phase' \in {"link", "done"},
             assemblies' = assemblies
      PROVE  Validating' /\ DisjointWhenLinked'
  BY <1>0, <1>7 DEF DisjointInv, Validating, DisjointWhenLinked
<1>8. CASE LinkSymbol
  BY <1>7, <1>8 DEF LinkSymbol, Linking
<1>9. CASE WriteImage
  BY <1>7, <1>9 DEF WriteImage, Linked
<1>10. CASE LoadFile \/ RelocateAssembly
  BY <1>1, <1>10 DEF LoadFile, RelocateAssembly
<1>11. CASE RejectFile \/ RelocateFixed \/ RejectOverlap \/ RejectSymbol \/ CrashOnSymbol
            \/ RejectOutput
  BY <1>1, <1>11 DEF RejectFile, RelocateFixed, RejectOverlap, RejectSymbol,
                     CrashOnSymbol, RejectOutput, Stop
<1>12. CASE UNCHANGED vars
  BY <1>0, <1>12 DEF DisjointInv, Validating, DisjointWhenLinked, vars
<1> QED BY <1>3, <1>4, <1>5, <1>6, <1>8, <1>9, <1>10, <1>11, <1>12 DEF Next

\* No image is ever linked from assemblies that overlap, although the code
\* compares each assembly only with those listed before it.
THEOREM LinkedAreDisjoint == Spec => []DisjointWhenLinked
<1>1. Init => DisjointInv
  BY InitShape DEF DisjointInv, Validating, DisjointWhenLinked, Init
<1>2. DisjointInv /\ [Next]_vars => DisjointInv'
  BY NextShape, NextDisjoint DEF DisjointInv
<1>3. DisjointInv => DisjointWhenLinked
  BY DEF DisjointInv
<1> QED BY <1>1, <1>2, <1>3, PTL DEF Spec

-----------------------------------------------------------------------------
(***************************************************************************)
(* Symbols.                                                                *)
(***************************************************************************)
SymbolInv ==
  /\ ShapeInv
  /\ DOMAIN owner = DOMAIN symbols
  /\ \A n \in DOMAIN symbols : owner[n] \in Loaded
  /\ SymbolsFollow

LEMMA LoadSymbols ==
  ASSUME SymbolInv, LoadFile
  PROVE  SymbolInv'
<1> DEFINE new == Sources[next]
<1>0. /\ ShapeInv' /\ Sources' = Sources /\ next \in Files
      /\ ~Clashes(new) /\ symbols' = Merged(symbols, Defined(new))
      /\ owner' = Merged(owner, [n \in DOMAIN Defined(new) |-> next])
  <2>1. LoadFile => [Next]_vars
    BY DEF Next
  <2> QED BY <2>1, NextShape, SourcesSame DEF SymbolInv, LoadFile, Listed
<1>1. /\ \A f \in Loaded : assemblies'[f] = assemblies[f]
      /\ assemblies'[next] = Segment(new)
      /\ Loaded' = Loaded \cup {next}
  BY LoadKeepsAssemblies DEF SymbolInv
<1>2. /\ assemblies'[next].address = 4 * new.org /\ new.org \in Nat
      /\ IsSource(new)
  BY <1>0, <1>1, SegmentFacts, SourceFacts DEF SymbolInv, ShapeInv
<1>3. DOMAIN Defined(new) = DOMAIN new.labels
  BY DEF Defined
<1>4. /\ DOMAIN symbols' = DOMAIN symbols \cup DOMAIN new.labels
      /\ DOMAIN owner' = DOMAIN owner \cup DOMAIN new.labels
  BY <1>0, <1>3 DEF Merged
<1>5. ASSUME NEW n \in DOMAIN new.labels
      PROVE  /\ owner'[n] = next
             /\ symbols'[n] = assemblies'[next].address + 4 * new.labels[n]
  <2>1. symbols'[n] = 4 * (new.org + new.labels[n])
    BY <1>0, <1>3, <1>5 DEF Merged, Defined
  <2>2. new.labels[n] \in Nat
    BY <1>2, <1>5 DEF IsSource
  <2>3. owner'[n] = next
    BY <1>0, <1>3, <1>5 DEF Merged
  <2> QED BY <1>2, <2>1, <2>2, <2>3
<1>6. ASSUME NEW n \in DOMAIN symbols
      PROVE  /\ owner'[n] = owner[n] /\ symbols'[n] = symbols[n]
             /\ n \notin DOMAIN new.labels
  <2>1. n \notin DOMAIN new.labels
    BY <1>0, <1>3, <1>6 DEF Clashes
  <2> QED BY <1>0, <1>3, <1>6, <2>1 DEF Merged, SymbolInv
<1>7. \A n \in DOMAIN symbols' : owner'[n] \in Loaded'
  BY <1>1, <1>4, <1>5, <1>6 DEF SymbolInv
<1>8. \A n \in DOMAIN symbols' :
        /\ n \in DOMAIN Sources[owner'[n]].labels
        /\ symbols'[n] = assemblies'[owner'[n]].address
                            + 4 * Sources[owner'[n]].labels[n]
  BY <1>1, <1>4, <1>5, <1>6 DEF SymbolInv, SymbolsFollow
<1>9. DOMAIN owner' = DOMAIN symbols'
  BY <1>4 DEF SymbolInv
<1> QED BY <1>0, <1>7, <1>8, <1>9 DEF SymbolInv, SymbolsFollow

LEMMA RelocateSymbols ==
  ASSUME SymbolInv, RelocateAssembly
  PROVE  SymbolInv'
<1>0. /\ ShapeInv' /\ Sources' = Sources /\ owner' = owner
      /\ symbols' = [n \in DOMAIN symbols |->
                       IF owner[n] = next
                       THEN symbols[n] + (base - assemblies[next].address)
                       ELSE symbols[n]]
  <2>1. RelocateAssembly => [Next]_vars
    BY DEF Next
  <2> QED BY <2>1, NextShape, SourcesSame DEF SymbolInv, RelocateAssembly, MovedSymbols
<1>1. /\ next \in Files /\ Files = Loaded /\ Loaded' = Loaded
      /\ \A f \in Loaded : f # next => assemblies'[f] = assemblies[f]
      /\ assemblies'[next].address = base /\ assemblies[next].address = 0
      /\ base \in Int
  BY RelocateKeepsAssemblies DEF SymbolInv
<1>2. ASSUME NEW n \in DOMAIN symbols
      PROVE  /\ n \in DOMAIN Sources[owner[n]].labels
             /\ symbols'[n] = assemblies'[owner[n]].address
                                 + 4 * Sources[owner[n]].labels[n]
  <2>1. /\ owner[n] \in Loaded /\ n \in DOMAIN Sources[owner[n]].labels
        /\ symbols[n] = assemblies[owner[n]].address + 4 * Sources[owner[n]].labels[n]
    BY <1>2 DEF SymbolInv, SymbolsFollow
  <2>2. IsSource(Sources[owner[n]])
    BY <1>1, <2>1, SourceFacts DEF SymbolInv, ShapeInv
  <2>3. Sources[owner[n]].labels[n] \in Nat
    BY <2>1, <2>2 DEF IsSource
  <2>4. CASE owner[n] = next
    BY <1>0, <1>1, <1>2, <2>1, <2>3, <2>4
  <2>5. CASE owner[n] # next
    BY <1>0, <1>1, <1>2, <2>1, <2>5
  <2> QED BY <2>1, <2>4, <2>5
<1> QED BY <1>0, <1>1, <1>2 DEF SymbolInv, SymbolsFollow

LEMMA NextSymbols == SymbolInv /\ [Next]_vars => SymbolInv'
<1> SUFFICES ASSUME SymbolInv, [Next]_vars PROVE SymbolInv'
  OBVIOUS
<1>1. ASSUME UNCHANGED Tables PROVE SymbolInv'
  BY <1>1, NextShape, SourcesSame DEF SymbolInv, SymbolsFollow, Tables, Loaded
<1>2. CASE FilesLoaded \/ Quiet
  BY <1>1, <1>2 DEF FilesLoaded, Quiet, Tables
<1> QED BY <1>2, LoadSymbols, RelocateSymbols, StepKinds

LEMMA SymbolsAlways == Spec => []SymbolInv
<1>1. Init => SymbolInv
  BY InitShape DEF SymbolInv, SymbolsFollow, Init
<1> QED BY <1>1, NextSymbols, PTL DEF Spec

\* Symbols move with the assembly that defines them, and with no other: at
\* every point a label is where its object's code is.
THEOREM SymbolsAreWithTheirCode == Spec => []SymbolsFollow
<1>1. SymbolInv => SymbolsFollow
  BY DEF SymbolInv
<1> QED BY <1>1, SymbolsAlways, PTL

-----------------------------------------------------------------------------
(***************************************************************************)
(* Places.  Where the assemblies are in each phase: as they were assembled *)
(* until they are relocated, and then one behind the other from the base.  *)
(***************************************************************************)
End(f)         == assemblies[f].address + assemblies[f].size
AsAssembled(f) == assemblies[f].address = 4 * Sources[f].org

\* The first n assemblies are relocated, each behind those before it.
Stacked(n) ==
  /\ \A f \in 1..n : Sources[f].org = 0
  /\ n >= 1 => assemblies[1].address = 4 * input.start
  /\ \A f \in 2..n : assemblies[f].address = End(f - 1)
  /\ \A f, g \in 1..n : f < g => End(f) =< assemblies[g].address

\* The base before the first relocation, and after the n-th.
BaseAfter(n) ==
  IF n = 0
  THEN \/ base = 4 * input.start
       \/ input.start = 0 /\ base >= 0 /\ \A f \in Files : base =< assemblies[f].address
  ELSE base = End(n) /\ \A f \in 1..n : End(f) =< base

PlacesInv ==
  /\ phase = "load" => \A f \in Loaded : AsAssembled(f)
  /\ phase = "relocate" =>
       /\ input.relocate /\ next =< Len(Sources) + 1
       /\ \A f \in next..Len(Sources) : AsAssembled(f)
       /\ Stacked(next - 1) /\ BaseAfter(next - 1)
  /\ phase \in {"validate", "link", "done"} =>
       IF input.relocate THEN Stacked(Len(Sources)) ELSE \A f \in Files : AsAssembled(f)

-----------------------------------------------------------------------------
(***************************************************************************)
(* References.  Every entry of the table of references is one of an object *)
(* that was read, at its place; none is missing.                           *)
(***************************************************************************)
RefNames == {NameIn(Sources[f], k) : f \in Files, k \in Nat}
Entry    == [type : Kinds, value : RefNames, address : Int, relbase : Int, asmid : Nat]

\* An entry for reference k of object f, whose source is src, when its assembly is
\* at a place.
EntryFor(ref, src, f, k, place) ==
  LET r == src.refs[k] IN
  /\ ref.asmid = f /\ ref.type = r.kind /\ ref.value = NameIn(src, k)
  /\ ref.address = place + r.at
  /\ r.kind = "rel16" => ref.relbase = place + 4 * (r.at \div 4)

IsReference(ref, f, k) == EntryFor(ref, Sources[f], f, k, assemblies[f].address)

ReferencesInv ==
  /\ unresolved \in Seq(Entry)
  /\ \A i \in DOMAIN unresolved :
       \E f \in Loaded : \E k \in DOMAIN Sources[f].refs : IsReference(unresolved[i], f, k)
  /\ \A f \in Loaded : \A k \in DOMAIN Sources[f].refs :
       \E i \in DOMAIN unresolved : IsReference(unresolved[i], f, k)

\* A label that was read is in the table, and no other object has it.
OwnersInv ==
  \A f \in Loaded : \A n \in DOMAIN Sources[f].labels : n \in DOMAIN symbols /\ owner[n] = f

\* An entry point comes from one of the objects.
EntryInv == entrypoint # 0 => \E f \in Loaded : EntryOf(Sources[f]) # 0

-----------------------------------------------------------------------------
(***************************************************************************)
(* Patches.  The references before next have been written, each to the     *)
(* assembly that was found for it.                                         *)
(***************************************************************************)
Patch == [asmid : Nat, offset : Int, size : {2, 4}, value : Int]

PatchOf(ref, f) ==
  [asmid |-> f, offset |-> ref.address - assemblies[f].address,
   size |-> FieldSize(ref.type), value |-> Encoded(ref)]

IsPatched(p) ==
  LET ref == unresolved[p] IN
  /\ ref.value \in DOMAIN symbols /\ ~TooFar(ref)
  /\ \E f \in Files : /\ LooksUp(f, ref.address + FieldSize(ref.type))
                      /\ patches[p] = PatchOf(ref, f)

HeaderInv ==
  \E f \in Files : /\ \A g \in Files : assemblies[f].address =< assemblies[g].address
                   /\ header = HeaderFor(assemblies[f].address)

PatchesInv ==
  /\ patches \in Seq(Patch)
  /\ phase \in {"load", "relocate", "validate"} => patches = <<>>
  /\ phase \in {"link", "done"} =>
       /\ Len(patches) = next - 1
       /\ \A p \in 1..(next - 1) : p \in DOMAIN unresolved /\ IsPatched(p)
  /\ phase = "done" => next \notin DOMAIN unresolved /\ HeaderInv

-----------------------------------------------------------------------------
(***************************************************************************)
(* Places, step by step.                                                   *)
(***************************************************************************)
LEMMA SourceNumbers ==
  ASSUME ShapeInv
  PROVE  /\ Len(Sources) \in Nat \ {0} /\ Files = 1..Len(Sources)
         /\ input.start \in Nat /\ input.relocate \in BOOLEAN
         /\ \A f \in Files : Sources[f].org \in Nat /\ Sources[f].words \in Nat
BY SourceFacts, SegmentFacts DEF ShapeInv, Files

\* What the numbers in the table of assemblies are.
LEMMA AssemblyNumbers ==
  ASSUME ShapeInv, phase \in {"relocate", "validate", "link", "done"}
  PROVE  /\ Loaded = Files /\ Len(assemblies) = Len(Sources)
         /\ \A f \in Files : /\ assemblies[f].address \in Int /\ assemblies[f].address % 4 = 0
                             /\ assemblies[f].size = 4 * Sources[f].words
                             /\ assemblies[f].size \in Nat
<1>1. Len(assemblies) = Len(Sources) /\ Loaded = Files /\ assemblies \in Seq(Assembly)
  BY SourceNumbers DEF ShapeInv, Loaded
<1>2. \A f \in Files : assemblies[f] \in Assembly
  BY <1>1 DEF Loaded
<1> QED BY <1>1, <1>2, SourceNumbers DEF ShapeInv, Assembly

LEMMA LoadPlaces ==
  ASSUME ShapeInv, PlacesInv, LoadFile
  PROVE  PlacesInv'
<1>1. /\ phase = "load" /\ phase' = "load" /\ input' = input /\ Sources' = Sources
      /\ next \in Files
  BY SourcesSame DEF LoadFile
<1>2. /\ \A f \in Loaded : assemblies'[f] = assemblies[f]
      /\ assemblies'[next] = Segment(Sources[next]) /\ Loaded' = Loaded \cup {next}
  BY LoadKeepsAssemblies
<1>3. Segment(Sources[next]).address = 4 * Sources[next].org
  BY DEF Segment
<1> QED BY <1>1, <1>2, <1>3 DEF PlacesInv, AsAssembled

LEMMA FilesLoadedPlaces ==
  ASSUME ShapeInv, PlacesInv, FilesLoaded
  PROVE  PlacesInv'
<1>1. /\ phase = "load" /\ next' = 1 /\ UNCHANGED <<input, assemblies>>
      /\ phase' = (IF input.relocate THEN "relocate" ELSE "validate")
      /\ base' \in (IF input.relocate THEN ReasonableBase ELSE {base})
      /\ next \notin Files
  BY DEF FilesLoaded
<1>2. /\ Sources' = Sources /\ Files' = Files /\ Len(Sources) \in Nat \ {0}
      /\ Files = 1..Len(Sources) /\ input.start \in Nat /\ input.relocate \in BOOLEAN
  BY <1>1, SourcesSame, SourceNumbers
<1>3. Loaded = Files
  BY <1>1, <1>2 DEF ShapeInv, Loaded
<1>4. \A f \in Files : AsAssembled(f) /\ assemblies[f].address \in Nat
  BY <1>1, <1>3, SourceNumbers DEF PlacesInv, AsAssembled
<1>5. CASE input.relocate
  <2>1. BaseAfter(0)'
    <3>1. base' \in ReasonableBase
      BY <1>1, <1>5
    <3>2. CASE input.start # 0
      BY <1>1, <3>1, <3>2 DEF ReasonableBase, BaseAfter
    <3>3. CASE input.start = 0
      BY <1>1, <1>2, <1>4, <3>1, <3>3 DEF ReasonableBase, BaseAfter
    <3> QED BY <3>2, <3>3
  <2>2. Stacked(0)'
    BY DEF Stacked
  <2>3. next' - 1 = 0
    BY <1>1
  <2> QED BY <1>1, <1>2, <1>4, <1>5, <2>1, <2>2, <2>3 DEF PlacesInv, AsAssembled
<1>6. CASE ~input.relocate
  BY <1>1, <1>2, <1>4, <1>6 DEF PlacesInv, AsAssembled
<1> QED BY <1>5, <1>6

LEMMA RelocatePlaces ==
  ASSUME ShapeInv, PlacesInv, RelocateAssembly
  PROVE  PlacesInv'
<1>0. PICK n \in Nat \ {0} : n = next
  BY DEF ShapeInv
<1>1. /\ phase = "relocate" /\ phase' = "relocate" /\ next' = n + 1 /\ n \in Files
      /\ assemblies[n].address = 0 /\ UNCHANGED input
      /\ base' = base + assemblies[n].size
  BY <1>0 DEF RelocateAssembly
<1>2. /\ Sources' = Sources /\ Files' = Files /\ Len(Sources) \in Nat \ {0}
      /\ Files = 1..Len(Sources) /\ input.start \in Nat /\ base \in Int
  BY <1>1, SourcesSame, SourceNumbers DEF ShapeInv
<1>3. \A f \in Files : /\ assemblies[f].address \in Int /\ assemblies[f].size \in Nat
                       /\ Sources[f].org \in Nat
  BY <1>1, AssemblyNumbers, SourceNumbers
<1>4. /\ \A f \in Files : f # n => assemblies'[f] = assemblies[f]
      /\ assemblies'[n].address = base /\ assemblies'[n].size = assemblies[n].size
  BY <1>0, RelocateKeepsAssemblies
<1>5. /\ input.relocate /\ n =< Len(Sources) + 1
      /\ \A f \in n..Len(Sources) : AsAssembled(f)
      /\ Stacked(n - 1) /\ BaseAfter(n - 1)
  BY <1>0, <1>1 DEF PlacesInv
<1>6. Sources[n].org = 0
  <2>1. AsAssembled(n)
    BY <1>1, <1>2, <1>5
  <2> QED BY <1>1, <1>3, <2>1 DEF AsAssembled
<1>7. \A f \in 1..(n - 1) : End(f)' = End(f) /\ f \in Files /\ f # n
  BY <1>1, <1>2, <1>4 DEF End
<1>8. End(n)' = base' /\ base' >= base /\ base' \in Int
  BY <1>1, <1>2, <1>3, <1>4 DEF End
<1>9. \A f \in 1..(n - 1) : End(f) =< base
  BY <1>1, <1>2, <1>5 DEF BaseAfter
<1>10. \A f \in Files : End(f) \in Int
  BY <1>3 DEF End
<1>11. Stacked(n)'
  <2>1. \A f \in 1..n : Sources[f].org = 0
    BY <1>2, <1>5, <1>6 DEF Stacked
  <2>2. assemblies'[1].address = 4 * input.start
    <3>1. CASE n = 1
      <4>1. base = 4 * input.start
        BY <1>1, <1>2, <1>5, <3>1 DEF BaseAfter
      <4> QED BY <1>4, <3>1, <4>1
    <3>2. CASE n > 1
      <4>1. 1 \in 1..(n - 1)
        BY <3>2
      <4> QED BY <1>4, <1>5, <1>7, <4>1 DEF Stacked
    <3> QED BY <3>1, <3>2
  <2>3. ASSUME NEW f \in 2..n PROVE assemblies'[f].address = End(f - 1)'
    <3>1. CASE f = n
      <4>1. f - 1 \in 1..(n - 1) /\ base = End(f - 1)
        BY <1>5, <2>3, <3>1 DEF BaseAfter
      <4> QED BY <1>4, <1>7, <3>1, <4>1
    <3>2. CASE f # n
      <4>1. f \in 2..(n - 1) /\ f - 1 \in 1..(n - 1) /\ f \in 1..(n - 1)
        BY <2>3, <3>2
      <4>2. assemblies'[f] = assemblies[f] /\ End(f - 1)' = End(f - 1)
        BY <1>4, <1>7, <4>1
      <4> QED BY <1>5, <4>1, <4>2 DEF Stacked
    <3> QED BY <3>1, <3>2
  <2>4. ASSUME NEW f \in 1..n, NEW g \in 1..n, f < g
        PROVE  End(f)' =< assemblies'[g].address
    <3>1. f \in 1..(n - 1)
      BY <2>4
    <3>2. CASE g = n
      BY <1>4, <1>7, <1>9, <3>1, <3>2
    <3>3. CASE g # n
      <4>1. g \in 1..(n - 1)
        BY <3>3
      <4> QED BY <1>4, <1>5, <1>7, <2>4, <3>1, <4>1 DEF Stacked
    <3> QED BY <3>2, <3>3
  <2> QED BY <1>1, <1>2, <2>1, <2>2, <2>3, <2>4 DEF Stacked
<1>12. BaseAfter(n)'
  <2>1. \A f \in 1..n : End(f)' =< base'
    <3> SUFFICES ASSUME NEW f \in 1..n PROVE End(f)' =< base'
      OBVIOUS
    <3>1. CASE f = n
      BY <1>8, <3>1
    <3>2. CASE f # n
      <4>1. f \in 1..(n - 1)
        BY <3>2
      <4>2. End(f)' = End(f) /\ End(f) \in Int /\ End(f) =< base
        BY <1>7, <1>9, <1>10, <4>1
      <4> QED BY <1>2, <1>8, <4>2
    <3> QED BY <3>1, <3>2
  <2> QED BY <1>8, <2>1 DEF BaseAfter
<1>13. \A f \in (n + 1)..Len(Sources) : AsAssembled(f)'
  <2> SUFFICES ASSUME NEW f \in (n + 1)..Len(Sources) PROVE AsAssembled(f)'
    OBVIOUS
  <2>1. f \in n..Len(Sources) /\ f # n /\ f \in Files
    BY <1>2
  <2> QED BY <1>2, <1>4, <1>5, <2>1 DEF AsAssembled
<1>14. next' - 1 = n /\ next' =< Len(Sources) + 1
  BY <1>1, <1>2
<1> QED BY <1>1, <1>2, <1>5, <1>11, <1>12, <1>13, <1>14
        DEF PlacesInv, AsAssembled, Stacked, BaseAfter, End

LEMMA NextPlaces == ShapeInv /\ PlacesInv /\ [Next]_vars => PlacesInv'
<1> SUFFICES ASSUME ShapeInv, PlacesInv, [Next]_vars PROVE PlacesInv'
  OBVIOUS
<1> USE DEF PlacesInv, AsAssembled, Stacked, BaseAfter, End
<1>1. CASE LoadFile \/ FilesLoaded \/ RelocateAssembly
  BY <1>1, LoadPlaces, FilesLoadedPlaces, RelocatePlaces
<1>2. CASE RejectFile \/ RelocateFixed \/ RejectOverlap \/ RejectSymbol \/ CrashOnSymbol
            \/ RejectOutput
  <2>1. phase' \in {"failed", "crashed"}
    BY <1>2 DEF RejectFile, RelocateFixed, RejectOverlap, RejectSymbol, CrashOnSymbol,
                RejectOutput, Stop
  <2> QED BY <2>1
<1>3. CASE Relocated
  <2>1. /\ phase = "relocate" /\ phase' = "validate" /\ next \notin Files
        /\ UNCHANGED <<input, assemblies>> /\ Sources' = Sources
    BY <1>3, SourcesSame DEF Relocated
  <2>2. next - 1 = Len(Sources) /\ input.relocate
    BY <2>1, SourceNumbers DEF ShapeInv
  <2> QED BY <2>1, <2>2
<1>4. ASSUME phase \in {"validate", "link"}, phase' \in {"validate", "link", "done"},
             UNCHANGED <<input, assemblies>>
      PROVE  PlacesInv'
  BY <1>4, SourcesSame
<1>5. CASE ValidateAssembly \/ Validated \/ LinkSymbol \/ WriteImage
  BY <1>4, <1>5 DEF ValidateAssembly, Validated, LinkSymbol, Linking, WriteImage, Linked
<1>6. CASE UNCHANGED vars
  BY <1>6, SourcesSame DEF vars, Loaded
<1> QED BY <1>1, <1>2, <1>3, <1>5, <1>6 DEF Next

LEMMA InitPlaces == Init => PlacesInv
<1> SUFFICES ASSUME Init PROVE PlacesInv
  OBVIOUS
<1>1. phase = "load" /\ Loaded = {}
  BY DEF Init, Loaded
<1> QED BY <1>1 DEF PlacesInv

LEMMA PlacesAlways == Spec => [](ShapeInv /\ PlacesInv)
BY InitShape, InitPlaces, NextShape, NextPlaces, PTL DEF Spec

\* A relocated image starts at the base that was asked for and is contiguous, in
\* the order of the files (rrld:376-412): an assembly with an address of its own
\* would have ended the link.
THEOREM RelocatedIsContiguous == Spec => []RelocatedContiguous
<1>1. ShapeInv /\ PlacesInv => RelocatedContiguous
  <2> SUFFICES ASSUME ShapeInv, PlacesInv, phase = "done", input.relocate
               PROVE  /\ assemblies[1].address = 4 * input.start
                      /\ \A f \in Files \ {1} :
                           assemblies[f].address = assemblies[f - 1].address + assemblies[f - 1].size
    BY DEF RelocatedContiguous
  <2>1. Stacked(Len(Sources))
    BY DEF PlacesInv
  <2> QED BY <2>1, SourceNumbers DEF Stacked, End
<1> QED BY <1>1, PlacesAlways, PTL

-----------------------------------------------------------------------------
(***************************************************************************)
(* References, step by step.                                               *)
(***************************************************************************)
RefSet == [kind : Kinds, name : Names, at : Nat]

LEMMA RefFacts ==
  ASSUME ShapeInv, NEW f \in Files
  PROVE  /\ Sources[f].refs \in Seq(RefSet)
         /\ DOMAIN Sources[f].refs = 1..Len(Sources[f].refs)
         /\ \A k \in DOMAIN Sources[f].refs :
              /\ k \in Nat \ {0} /\ Sources[f].refs[k] \in RefSet
              /\ Sources[f].refs[k].at + FieldSize(Sources[f].refs[k].kind) =< 4 * Sources[f].words
<1>1. /\ Sources[f].refs \in Seq(RefSet)
      /\ \A k \in DOMAIN Sources[f].refs :
           Sources[f].refs[k].at + FieldSize(Sources[f].refs[k].kind) =< 4 * Sources[f].words
  BY SourceFacts DEF ShapeInv, IsSource, RefSet
<1>2. /\ DOMAIN Sources[f].refs = 1..Len(Sources[f].refs)
      /\ \A k \in DOMAIN Sources[f].refs : k \in Nat \ {0} /\ Sources[f].refs[k] \in RefSet
  BY <1>1
<1> QED BY <1>1, <1>2

\* What is read of an object is a sequence of entries for its references.
LEMMA ObjectsReferences ==
  ASSUME ShapeInv, NEW f \in Files
  PROVE  /\ References(Sources[f], f) \in Seq(Entry)
         /\ Len(References(Sources[f], f)) = Len(Sources[f].refs)
         /\ \A k \in DOMAIN Sources[f].refs :
              References(Sources[f], f)[k] = Reference(Sources[f], k, f)
<1> DEFINE src == Sources[f]
<1>1. /\ src.refs \in Seq(RefSet) /\ DOMAIN src.refs = 1..Len(src.refs) /\ Len(src.refs) \in Nat
      /\ \A k \in DOMAIN src.refs : k \in Nat \ {0} /\ src.refs[k] \in RefSet
  BY RefFacts
<1>2. src.org \in Nat /\ f \in Nat
  BY SourceNumbers
<1>3. ASSUME NEW k \in DOMAIN src.refs PROVE Reference(src, k, f) \in Entry
  <2>1. NameIn(src, k) \in RefNames
    BY <1>1, <1>3 DEF RefNames
  <2>2. /\ src.refs[k].kind \in Kinds /\ src.refs[k].at \in Nat
    BY <1>1, <1>3 DEF RefSet
  <2>3. /\ 4 * src.org + src.refs[k].at \in Int
        /\ 4 * (src.org + src.refs[k].at \div 4) \in Int
    BY <1>2, <2>2
  <2> HIDE DEF src
  <2> QED BY <1>2, <2>1, <2>2, <2>3 DEF Reference, Entry
<1>4. References(src, f) = [k \in 1..Len(src.refs) |-> Reference(src, k, f)]
  BY <1>1 DEF References
<1> HIDE DEF src
<1>5. /\ References(src, f) \in Seq(Entry) /\ Len(References(src, f)) = Len(src.refs)
  BY <1>1, <1>3, <1>4
<1> QED BY <1>1, <1>4, <1>5 DEF src

LEMMA LoadReferences ==
  ASSUME ShapeInv, ReferencesInv, LoadFile
  PROVE  ReferencesInv'
<1>0. PICK n \in Nat \ {0} : n = next
  BY DEF ShapeInv
<1> DEFINE src == Sources[n]
           old == unresolved
           new == References(src, n)
<1>1. /\ unresolved' = old \o new /\ n \in Files /\ UNCHANGED input
      /\ Sources' = Sources /\ Files' = Files
  BY <1>0, SourcesSame DEF LoadFile
<1>2. /\ \A f \in Loaded : assemblies'[f] = assemblies[f]
      /\ assemblies'[n] = Segment(src) /\ Loaded' = Loaded \cup {n}
  BY <1>0, LoadKeepsAssemblies
<1>3. /\ Loaded \subseteq Files /\ Segment(src).address = 4 * src.org /\ src.org \in Nat
  <2>1. Loaded = 1..(n - 1)
    BY <1>0 DEF ShapeInv, Loaded, LoadFile
  <2> QED BY <1>1, <2>1, SourceNumbers DEF Segment
<1>4. /\ old \in Seq(Entry) /\ Len(old) \in Nat /\ DOMAIN old = 1..Len(old)
      /\ new \in Seq(Entry) /\ Len(new) \in Nat /\ Len(new) = Len(src.refs)
      /\ DOMAIN src.refs = 1..Len(new)
      /\ \A k \in DOMAIN src.refs : new[k] = Reference(src, k, n) /\ src.refs[k] \in RefSet
  BY <1>1, ObjectsReferences, RefFacts DEF ReferencesInv
<1> HIDE DEF new, old
<1>5. /\ unresolved' \in Seq(Entry) /\ DOMAIN unresolved' = 1..(Len(old) + Len(new))
      /\ \A i \in 1..(Len(old) + Len(new)) :
           unresolved'[i] = IF i =< Len(old) THEN old[i] ELSE new[i - Len(old)]
  <2>1. /\ old \o new \in Seq(Entry) /\ Len(old \o new) = Len(old) + Len(new)
        /\ \A i \in 1..(Len(old) + Len(new)) :
             (old \o new)[i] = IF i =< Len(old) THEN old[i] ELSE new[i - Len(old)]
    <3>1. old \in Seq(Entry) /\ new \in Seq(Entry)
      BY <1>4
    <3> QED BY ONLY <3>1, ConcatProperties
  <2> QED BY <1>1, <2>1
<1>7. ASSUME NEW k \in DOMAIN src.refs
      PROVE  EntryFor(new[k], src, n, k, assemblies'[n].address)
  <2>1. src.refs[k].at \in Nat
    BY <1>4, <1>7 DEF RefSet
  <2>2. /\ assemblies'[n].address = 4 * src.org
        /\ 4 * (src.org + src.refs[k].at \div 4) = 4 * src.org + 4 * (src.refs[k].at \div 4)
    BY <1>2, <1>3, <2>1
  <2>3. new[k] = Reference(src, k, n)
    BY <1>4, <1>7
  <2> HIDE DEF src
  <2> QED BY <2>2, <2>3 DEF EntryFor, Reference
<1>8. ASSUME NEW i \in DOMAIN unresolved'
      PROVE  \E f \in Loaded' : \E k \in DOMAIN Sources[f].refs : EntryFor(unresolved'[i], Sources[f], f, k, assemblies'[f].address)
  <2>1. CASE i =< Len(old)
    <3>1. i \in DOMAIN old /\ unresolved'[i] = old[i]
      BY <1>4, <1>5, <1>8, <2>1
    <3>2. PICK f \in Loaded : \E k \in DOMAIN Sources[f].refs : IsReference(old[i], f, k)
      BY <3>1 DEF ReferencesInv, old
    <3> QED BY <1>2, <3>1, <3>2 DEF IsReference
  <2>2. CASE i > Len(old)
    <3>1. i - Len(old) \in DOMAIN src.refs /\ unresolved'[i] = new[i - Len(old)]
      BY <1>4, <1>5, <1>8, <2>2
    <3> QED BY <1>1, <1>2, <1>7, <3>1
  <2> QED BY <1>4, <1>5, <1>8, <2>1, <2>2
<1>9. ASSUME NEW f \in Loaded', NEW k \in DOMAIN Sources[f].refs
      PROVE  \E i \in DOMAIN unresolved' : EntryFor(unresolved'[i], Sources[f], f, k, assemblies'[f].address)
  <2>1. CASE f \in Loaded
    <3>1. PICK i \in DOMAIN old : IsReference(old[i], f, k)
      BY <1>9, <2>1 DEF ReferencesInv, old
    <3>2. i \in DOMAIN unresolved' /\ unresolved'[i] = old[i]
      BY <1>4, <1>5, <3>1
    <3> QED BY <1>2, <2>1, <3>1, <3>2 DEF IsReference
  <2>2. CASE f = n
    <3>1. k \in DOMAIN src.refs /\ k \in 1..Len(new)
      BY <1>1, <1>4, <1>9, <2>2
    <3>2. Len(old) + k \in DOMAIN unresolved' /\ unresolved'[Len(old) + k] = new[k]
      BY <1>4, <1>5, <3>1
    <3> QED BY <1>7, <2>2, <3>1, <3>2
  <2> QED BY <1>2, <1>9, <2>1, <2>2
<1>10. Entry' = Entry
  BY <1>1 DEF Entry, RefNames
<1> QED BY <1>1, <1>5, <1>8, <1>9, <1>10 DEF ReferencesInv, IsReference

LEMMA RelocateReferences ==
  ASSUME ShapeInv, ReferencesInv, RelocateAssembly
  PROVE  ReferencesInv'
<1>0. PICK n \in Nat \ {0} : n = next
  BY DEF ShapeInv
<1>1. /\ n \in Files /\ UNCHANGED input /\ Sources' = Sources /\ Files' = Files
      /\ Loaded = Files /\ Loaded' = Loaded /\ base \in Int
      /\ \A f \in Files : f # n => assemblies'[f] = assemblies[f]
      /\ assemblies'[n].address = base /\ assemblies[n].address = 0
  BY <1>0, RelocateKeepsAssemblies, SourcesSame DEF RelocateAssembly
<1>2. unresolved' = [i \in DOMAIN unresolved |->
        IF unresolved[i].asmid = n
        THEN [unresolved[i] EXCEPT !.address = @ + base, !.relbase = @ + base]
        ELSE unresolved[i]]
  <2>1. base - assemblies[next].address = base
    BY <1>0, <1>1
  <2>2. unresolved' = MovedReferences(base)
    BY <2>1 DEF RelocateAssembly
  <2> QED BY <1>0, <2>2 DEF MovedReferences
<1>3. /\ unresolved \in Seq(Entry) /\ DOMAIN unresolved = 1..Len(unresolved)
      /\ Len(unresolved) \in Nat /\ \A i \in DOMAIN unresolved : unresolved[i] \in Entry
  BY DEF ReferencesInv
<1>4. ASSUME NEW i \in DOMAIN unresolved, unresolved[i].asmid = n
      PROVE  /\ unresolved'[i] = [type |-> unresolved[i].type, value |-> unresolved[i].value,
                                  address |-> unresolved[i].address + base,
                                  relbase |-> unresolved[i].relbase + base, asmid |-> n]
             /\ unresolved'[i] \in Entry
  <2>1. /\ unresolved[i] \in Entry
        /\ unresolved'[i] = [unresolved[i] EXCEPT !.address = @ + base, !.relbase = @ + base]
    BY <1>2, <1>3, <1>4
  <2>2. unresolved'[i] = [type |-> unresolved[i].type, value |-> unresolved[i].value,
                          address |-> unresolved[i].address + base,
                          relbase |-> unresolved[i].relbase + base, asmid |-> n]
    BY <1>4, <2>1 DEF Entry
  <2> QED BY <1>0, <1>1, <2>1, <2>2 DEF Entry
<1>5. \A i \in DOMAIN unresolved : unresolved[i].asmid # n => unresolved'[i] = unresolved[i]
  BY <1>2
<1>6. unresolved' \in Seq(Entry) /\ DOMAIN unresolved' = DOMAIN unresolved
  <2>1. \A i \in 1..Len(unresolved) : unresolved'[i] \in Entry
    BY <1>3, <1>4, <1>5
  <2>2. unresolved' \in [1..Len(unresolved) -> Entry]
    BY <1>2, <1>3, <2>1
  <2>3. unresolved' \in UNION {[1..m -> Entry] : m \in Nat}
    BY <1>3, <2>2
  <2>4. unresolved' \in Seq(Entry)
    BY <2>3, SeqDef, Zenon
  <2> QED BY <1>2, <2>4
<1>7. ASSUME NEW i \in DOMAIN unresolved, NEW f \in Files, NEW k \in DOMAIN Sources[f].refs,
             IsReference(unresolved[i], f, k)
      PROVE  EntryFor(unresolved'[i], Sources[f], f, k, assemblies'[f].address)
  <2>1. Sources[f].refs[k].at \in Nat
    BY RefFacts DEF RefSet
  <2>2. CASE f = n
    <3>1. unresolved[i].asmid = n
      BY <1>7, <2>2 DEF IsReference, EntryFor
    <3>2. unresolved'[i] = [type |-> unresolved[i].type, value |-> unresolved[i].value,
                            address |-> unresolved[i].address + base,
                            relbase |-> unresolved[i].relbase + base, asmid |-> n]
      BY <1>4, <3>1
    <3>3. EntryFor(unresolved[i], Sources[n], n, k, 0)
      BY <1>1, <1>7, <2>2 DEF IsReference
    <3>4. EntryFor(unresolved'[i], Sources[n], n, k, base)
      BY <1>1, <2>1, <2>2, <3>2, <3>3 DEF EntryFor
    <3> QED BY <1>1, <2>2, <3>4
  <2>3. CASE f # n
    <3>1. EntryFor(unresolved[i], Sources[f], f, k, assemblies[f].address)
      BY <1>7 DEF IsReference
    <3>2. unresolved[i].asmid # n /\ assemblies'[f] = assemblies[f]
      BY <1>1, <2>3, <3>1 DEF EntryFor
    <3> QED BY <1>5, <3>1, <3>2
  <2> QED BY <2>2, <2>3
<1>8. Entry' = Entry
  BY <1>1 DEF Entry, RefNames
<1>9. ASSUME NEW i \in DOMAIN unresolved
      PROVE  \E f \in Loaded : \E k \in DOMAIN Sources[f].refs : EntryFor(unresolved'[i], Sources[f], f, k, assemblies'[f].address)
  <2>1. PICK f \in Loaded : \E k \in DOMAIN Sources[f].refs : IsReference(unresolved[i], f, k)
    BY DEF ReferencesInv
  <2> QED BY <1>1, <1>7, <2>1
<1>10. ASSUME NEW f \in Loaded, NEW k \in DOMAIN Sources[f].refs
       PROVE  \E i \in DOMAIN unresolved : EntryFor(unresolved'[i], Sources[f], f, k, assemblies'[f].address)
  <2>1. PICK i \in DOMAIN unresolved : IsReference(unresolved[i], f, k)
    BY DEF ReferencesInv
  <2> QED BY <1>1, <1>7, <2>1
<1> QED BY <1>1, <1>6, <1>8, <1>9, <1>10 DEF ReferencesInv, IsReference

LEMMA SameReferences ==
  ASSUME ReferencesInv, UNCHANGED <<input, assemblies, unresolved>>
  PROVE  ReferencesInv'
BY SourcesSame DEF ReferencesInv, IsReference, Loaded, Entry, RefNames, Files

LEMMA NextReferences == ShapeInv /\ ReferencesInv /\ [Next]_vars => ReferencesInv'
<1> SUFFICES ASSUME ShapeInv, ReferencesInv, [Next]_vars PROVE ReferencesInv'
  OBVIOUS
<1>1. CASE FilesLoaded \/ Quiet
  BY <1>1, SameReferences DEF FilesLoaded, Quiet, Tables
<1> QED BY <1>1, LoadReferences, RelocateReferences, StepKinds

LEMMA InitReferences == Init => ReferencesInv
BY DEF Init, ReferencesInv, Loaded

-----------------------------------------------------------------------------
(***************************************************************************)
(* Owners and entry points, step by step.                                  *)
(***************************************************************************)
LEMMA NextOwners == SymbolInv /\ OwnersInv /\ EntryInv /\ [Next]_vars => OwnersInv' /\ EntryInv'
<1> SUFFICES ASSUME SymbolInv, OwnersInv, EntryInv, [Next]_vars PROVE OwnersInv' /\ EntryInv'
  OBVIOUS
<1>1. CASE LoadFile
  <2>0. PICK n \in Nat \ {0} : n = next
    BY DEF SymbolInv, ShapeInv
  <2> DEFINE src == Sources[n]
  <2>1. /\ Sources' = Sources /\ ~Clashes(src)
        /\ symbols' = Merged(symbols, Defined(src))
        /\ owner' = Merged(owner, [m \in DOMAIN Defined(src) |-> n])
        /\ entrypoint' = (IF EntryOf(src) # 0 THEN EntryOf(src) ELSE entrypoint)
    BY <1>1, <2>0, SourcesSame DEF LoadFile, Listed
  <2>2. Loaded' = Loaded \cup {n} /\ DOMAIN owner = DOMAIN symbols
    BY <1>1, <2>0, LoadKeepsAssemblies DEF SymbolInv
  <2>3. DOMAIN Defined(src) = DOMAIN src.labels
    BY DEF Defined
  <2>4. ASSUME NEW f \in Loaded', NEW m \in DOMAIN Sources[f].labels
        PROVE  m \in DOMAIN symbols' /\ owner'[m] = f
    <3>1. CASE f = n
      BY <2>1, <2>3, <2>4, <3>1 DEF Merged
    <3>2. CASE f # n
      <4>1. f \in Loaded /\ m \in DOMAIN symbols /\ owner[m] = f
        BY <2>2, <2>4, <3>2 DEF OwnersInv
      <4>2. m \notin DOMAIN src.labels
        BY <2>1, <2>3, <4>1 DEF Clashes
      <4> QED BY <2>1, <2>2, <2>3, <4>1, <4>2 DEF Merged
    <3> QED BY <3>1, <3>2
  <2>5. EntryInv'
    <3>1. CASE EntryOf(src) # 0
      BY <2>1, <2>2, <3>1 DEF EntryInv
    <3>2. CASE EntryOf(src) = 0
      BY <2>1, <2>2, <3>2 DEF EntryInv
    <3> QED BY <3>1, <3>2
  <2> QED BY <2>1, <2>4, <2>5 DEF OwnersInv
<1>2. CASE RelocateAssembly
  <2>1. Loaded' = Loaded /\ Sources' = Sources /\ owner' = owner /\ entrypoint' = entrypoint
    BY <1>2, RelocateKeepsAssemblies, SourcesSame DEF RelocateAssembly, SymbolInv
  <2>2. DOMAIN symbols' = DOMAIN symbols
    BY <1>2 DEF RelocateAssembly, MovedSymbols
  <2> QED BY <2>1, <2>2 DEF OwnersInv, EntryInv
<1>3. ASSUME UNCHANGED Tables, UNCHANGED entrypoint PROVE OwnersInv' /\ EntryInv'
  BY <1>3, SourcesSame DEF Tables, Loaded, OwnersInv, EntryInv
<1>4. CASE ~LoadFile /\ ~RelocateAssembly
  <2>1. UNCHANGED Tables
    BY <1>4, StepKinds DEF FilesLoaded, Quiet, Tables
  <2>2. UNCHANGED entrypoint
    BY <1>4 DEF Next, RejectFile, FilesLoaded, RelocateFixed, Relocated, ValidateAssembly,
                RejectOverlap, Validated, LinkSymbol, RejectSymbol, CrashOnSymbol, WriteImage,
                RejectOutput, Stop, vars
  <2> QED BY <1>3, <2>1, <2>2
<1> QED BY <1>1, <1>2, <1>4

LEMMA InitOwners == Init => OwnersInv /\ EntryInv
BY DEF Init, OwnersInv, EntryInv, Loaded

-----------------------------------------------------------------------------
(***************************************************************************)
(* Patches, step by step.                                                  *)
(***************************************************************************)
LEMMA SymbolNumbers ==
  ASSUME SymbolInv, phase \in {"link", "done"}
  PROVE  /\ \A n \in DOMAIN symbols : symbols[n] \in Int
         /\ \A f \in Files : \A n \in DOMAIN Sources[f].labels : Sources[f].labels[n] \in Nat
<1>1. \A f \in Files : \A n \in DOMAIN Sources[f].labels : Sources[f].labels[n] \in Nat
  BY SourceFacts DEF SymbolInv, ShapeInv, IsSource
<1>2. ASSUME NEW n \in DOMAIN symbols PROVE symbols[n] \in Int
  <2>1. /\ owner[n] \in Loaded /\ n \in DOMAIN Sources[owner[n]].labels
        /\ symbols[n] = assemblies[owner[n]].address + 4 * Sources[owner[n]].labels[n]
    BY <1>2 DEF SymbolInv, SymbolsFollow
  <2>2. owner[n] \in Files /\ assemblies[owner[n]].address \in Int
    BY <2>1, AssemblyNumbers DEF SymbolInv
  <2> QED BY <1>1, <2>1, <2>2
<1> QED BY <1>1, <1>2

LEMMA EncodedNumber ==
  ASSUME SymbolInv, phase = "link", NEW ref \in Entry, ref.value \in DOMAIN symbols
  PROVE  Encoded(ref) \in Int /\ FieldSize(ref.type) \in {2, 4}
<1>1. ref.type \in Kinds /\ ref.relbase \in Int
  BY DEF Entry
<1>2. symbols[ref.value] \in Int
  BY SymbolNumbers
<1>3. symbols[ref.value] \div 4 \in Int /\ ref.relbase \div 4 \in Int
  BY <1>1, <1>2
<1> QED BY <1>1, <1>3 DEF Encoded, Kinds, FieldSize

\* Patches stay what they are while the tables they are from do.
LEMMA SamePatch ==
  ASSUME UNCHANGED <<input, assemblies, symbols, unresolved>>, NEW p, patches'[p] = patches[p],
         IsPatched(p)
  PROVE  IsPatched(p)'
<1> DEFINE ref == unresolved[p]
<1>1. PICK f \in Files : /\ LooksUp(f, ref.address + FieldSize(ref.type))
                         /\ patches[p] = PatchOf(ref, f)
  BY DEF IsPatched
<1>2. Files' = Files
  BY SourcesSame
<1>3. LooksUp(f, ref.address + FieldSize(ref.type))'
  BY <1>1, <1>2 DEF LooksUp, Holds
<1>4. PatchOf(ref, f)' = PatchOf(ref, f)
  BY DEF PatchOf, Encoded
<1>5. ref'.value \in DOMAIN symbols' /\ ~TooFar(ref)'
  BY DEF IsPatched, TooFar
<1> QED BY <1>1, <1>2, <1>3, <1>4, <1>5 DEF IsPatched

\* Within the loop over the references.
LEMMA LinkPatches ==
  ASSUME SymbolInv, ReferencesInv, PatchesInv, LinkSymbol
  PROVE  PatchesInv'
<1>0. PICK n \in Nat \ {0} : n = next
  BY DEF SymbolInv, ShapeInv
<1> DEFINE ref == unresolved[n]
<1>1. /\ phase = "link" /\ n \in DOMAIN unresolved /\ next' = n + 1
      /\ UNCHANGED <<input, phase, assemblies, symbols, unresolved, Sources, Files>>
      /\ ref.value \in DOMAIN symbols /\ ~TooFar(ref)
  BY <1>0, SourcesSame DEF LinkSymbol, Linking
<1>2. PICK f \in Files : /\ LooksUp(f, ref.address + FieldSize(ref.type))
                         /\ patches' = Append(patches, PatchOf(ref, f))
  BY <1>0 DEF LinkSymbol, Linking, PatchOf
<1>3. ref \in Entry
  BY <1>1 DEF ReferencesInv
<1>4. PatchOf(ref, f) \in Patch
  <2>1. assemblies[f].address \in Int /\ f \in Nat
    BY <1>1, AssemblyNumbers, SourceNumbers DEF SymbolInv
  <2>2. Encoded(ref) \in Int /\ FieldSize(ref.type) \in {2, 4} /\ ref.address \in Int
    BY <1>1, <1>3, EncodedNumber DEF Entry
  <2> HIDE DEF ref
  <2> QED BY <2>1, <2>2 DEF PatchOf, Patch
<1>5. patches \in Seq(Patch) /\ Len(patches) = n - 1
  BY <1>0, <1>1 DEF PatchesInv
<1>6. /\ patches' \in Seq(Patch) /\ Len(patches') = n
      /\ \A p \in 1..(n - 1) : patches'[p] = patches[p]
      /\ patches'[n] = PatchOf(ref, f)
  BY <1>2, <1>4, <1>5
<1>7. ASSUME NEW p \in 1..n PROVE p \in DOMAIN unresolved' /\ IsPatched(p)'
  <2>1. CASE p = n
    <3>1. LooksUp(f, ref.address + FieldSize(ref.type))'
      BY <1>1, <1>2 DEF LooksUp, Holds
    <3>2. PatchOf(ref, f)' = PatchOf(ref, f)
      BY <1>1 DEF PatchOf, Encoded
    <3>3. ref'.value \in DOMAIN symbols' /\ ~TooFar(ref)'
      BY <1>1 DEF TooFar
    <3> QED BY <1>1, <1>2, <1>6, <2>1, <3>1, <3>2, <3>3 DEF IsPatched
  <2>2. CASE p # n
    <3>1. p \in 1..(n - 1) /\ p \in DOMAIN unresolved /\ IsPatched(p)
      BY <1>0, <1>1, <1>7, <2>2 DEF PatchesInv
    <3> QED BY <1>1, <1>6, <3>1, SamePatch
  <2> QED BY <2>1, <2>2
<1> QED BY <1>1, <1>6, <1>7 DEF PatchesInv

LEMMA NextPatches ==
  SymbolInv /\ ReferencesInv /\ PatchesInv /\ [Next]_vars => PatchesInv'
<1> SUFFICES ASSUME SymbolInv, ReferencesInv, PatchesInv, [Next]_vars PROVE PatchesInv'
  OBVIOUS
<1>1. CASE LinkSymbol
  BY <1>1, LinkPatches
<1>2. ASSUME patches' = patches, phase \in {"load", "relocate", "validate"},
             phase' \in {"load", "relocate", "validate"}
      PROVE  PatchesInv'
  BY <1>2 DEF PatchesInv
<1>3. CASE LoadFile \/ FilesLoaded \/ RelocateAssembly \/ Relocated \/ ValidateAssembly
  BY <1>2, <1>3 DEF LoadFile, FilesLoaded, RelocateAssembly, Relocated, ValidateAssembly
<1>4. CASE RejectFile \/ RelocateFixed \/ RejectOverlap \/ RejectSymbol \/ CrashOnSymbol
            \/ RejectOutput
  <2>1. phase' \in {"failed", "crashed"} /\ patches' = patches
    BY <1>4 DEF RejectFile, RelocateFixed, RejectOverlap, RejectSymbol, CrashOnSymbol,
                RejectOutput, Stop
  <2> QED BY <2>1 DEF PatchesInv
<1>5. CASE Validated
  <2>1. patches' = patches /\ phase = "validate" /\ phase' = "link" /\ next' = 1
    BY <1>5 DEF Validated
  <2> QED BY <2>1 DEF PatchesInv
<1>6. ASSUME UNCHANGED <<input, next, assemblies, symbols, unresolved, patches>>,
             phase \in {"link", "done"}, phase' \in {"link", "done"}
      PROVE  /\ patches' \in Seq(Patch) /\ Len(patches') = next' - 1
             /\ \A p \in 1..(next' - 1) : p \in DOMAIN unresolved' /\ IsPatched(p)'
  <2>1. \A p \in 1..(next - 1) : IsPatched(p) => IsPatched(p)'
    BY <1>6, SamePatch
  <2> QED BY <1>6, <2>1 DEF PatchesInv
<1>7. CASE WriteImage
  <2>1. /\ UNCHANGED <<input, next, assemblies, symbols, unresolved, patches, entrypoint>>
        /\ phase = "link" /\ phase' = "done" /\ next \notin DOMAIN unresolved
        /\ Files' = Files
    BY <1>7, SourcesSame DEF WriteImage, Linked
  <2>2. HeaderInv'
    BY <1>7, <2>1 DEF WriteImage, HeaderInv, HeaderFor
  <2> QED BY <1>6, <2>1, <2>2 DEF PatchesInv
<1>8. CASE UNCHANGED vars
  <2>1. HeaderInv' <=> HeaderInv
    BY <1>8, SourcesSame DEF vars, HeaderInv, HeaderFor
  <2>2. /\ UNCHANGED <<input, next, assemblies, symbols, unresolved, patches>>
        /\ phase' = phase
    BY <1>8 DEF vars
  <2>3. CASE phase \in {"link", "done"}
    BY <1>6, <2>1, <2>2, <2>3 DEF PatchesInv
  <2>4. CASE phase \notin {"link", "done"}
    BY <2>2, <2>4 DEF PatchesInv
  <2> QED BY <2>3, <2>4
<1> QED BY <1>1, <1>3, <1>4, <1>5, <1>7, <1>8 DEF Next

-----------------------------------------------------------------------------
LinkerInv ==
  /\ SymbolInv /\ DisjointInv /\ PlacesInv /\ ReferencesInv /\ OwnersInv /\ EntryInv
  /\ PatchesInv

LEMMA LinkerAlways == Spec => []LinkerInv
<1>1. Init => LinkerInv
  <2>1. Init => SymbolInv
    BY InitShape DEF SymbolInv, SymbolsFollow, Init
  <2>2. Init => DisjointInv
    BY InitShape DEF DisjointInv, Validating, DisjointWhenLinked, Init
  <2>3. Init => PatchesInv
    BY DEF Init, PatchesInv
  <2> QED BY <2>1, <2>2, <2>3, InitPlaces, InitReferences, InitOwners DEF LinkerInv
<1>2. LinkerInv /\ [Next]_vars => LinkerInv'
  <2> SUFFICES ASSUME LinkerInv, [Next]_vars PROVE LinkerInv'
    OBVIOUS
  <2>1. ShapeInv /\ ShapeInv'
    BY NextShape DEF LinkerInv, SymbolInv
  <2>2. SymbolInv' /\ DisjointInv'
    BY <2>1, NextSymbols, NextDisjoint DEF LinkerInv, DisjointInv
  <2> QED BY <2>1, <2>2, NextPlaces, NextReferences, NextOwners, NextPatches DEF LinkerInv
<1> QED BY <1>1, <1>2, PTL DEF Spec

-----------------------------------------------------------------------------
(***************************************************************************)
(* What the tables say when every file is read.                            *)
(***************************************************************************)
LEMMA AddressesNatural ==
  ASSUME ShapeInv, PlacesInv, phase \in {"validate", "link", "done"}
  PROVE  \A f \in Files : assemblies[f].address \in Nat
<1> SUFFICES ASSUME NEW f \in Files PROVE assemblies[f].address \in Nat
  OBVIOUS
<1>1. /\ Files = 1..Len(Sources) /\ Len(Sources) \in Nat \ {0} /\ input.start \in Nat
      /\ Sources[f].org \in Nat
      /\ \A g \in Files : assemblies[g].address \in Int /\ assemblies[g].size \in Nat
  BY SourceNumbers, AssemblyNumbers
<1>2. CASE input.relocate
  <2>1. Stacked(Len(Sources)) /\ 1 \in Files
    BY <1>1, <1>2 DEF PlacesInv
  <2>2. assemblies[1].address \in Nat /\ (1 < f => End(1) =< assemblies[f].address)
    BY <1>1, <2>1 DEF Stacked
  <2> QED BY <1>1, <2>1, <2>2 DEF End
<1>3. CASE ~input.relocate
  BY <1>1, <1>3 DEF PlacesInv, AsAssembled
<1> QED BY <1>2, <1>3

\* The table of symbols has the labels, at their targets.
LEMMA LabelTarget ==
  ASSUME LinkerInv, phase \in {"link", "done"}, NEW n \in DOMAIN symbols
  PROVE  /\ \E f \in Files : n \in DOMAIN Sources[f].labels
         /\ Target(n) \in Nat /\ symbols[n] = 4 * Target(n)
<1>1. /\ Loaded = Files
      /\ \A f \in Files : assemblies[f].address \in Nat /\ assemblies[f].address % 4 = 0
      /\ \A f \in Files : \A m \in DOMAIN Sources[f].labels : Sources[f].labels[m] \in Nat
  BY AssemblyNumbers, AddressesNatural, SymbolNumbers DEF LinkerInv, SymbolInv
<1> DEFINE f == owner[n]
<1>2. /\ f \in Files /\ n \in DOMAIN Sources[f].labels
      /\ symbols[n] = assemblies[f].address + 4 * Sources[f].labels[n]
  BY <1>1 DEF LinkerInv, SymbolInv, SymbolsFollow
<1>3. \A g \in Files : n \in DOMAIN Sources[g].labels => g = f
  BY <1>1 DEF LinkerInv, OwnersInv
<1>4. (CHOOSE g \in Files : n \in DOMAIN Sources[g].labels) = f
  BY <1>2, <1>3
<1>5. Target(n) = assemblies[f].address \div 4 + Sources[f].labels[n]
  BY <1>4 DEF Target
<1>6. assemblies[f].address = 4 * (assemblies[f].address \div 4)
  BY <1>1, <1>2
<1> HIDE DEF f
<1> QED BY <1>1, <1>2, <1>5, <1>6

\* lookup_assembly finds the assembly that a reference is in.
LEMMA FindsItsAssembly ==
  ASSUME LinkerInv, phase = "done", \A f, g \in Files : ~Abuts(g, f),
         NEW g \in Files, NEW k \in DOMAIN Sources[g].refs, NEW f \in Files,
         LooksUp(f, assemblies[g].address + Sources[g].refs[k].at
                      + FieldSize(Sources[g].refs[k].kind))
  PROVE  f = g
<1> DEFINE size == FieldSize(Sources[g].refs[k].kind)
           at   == Sources[g].refs[k].at
           x    == assemblies[g].address + at + size
<1>1. /\ \A h \in Files : /\ h \in Nat \ {0} /\ assemblies[h].address \in Int
                          /\ assemblies[h].size \in Nat
                          /\ assemblies[h].size = 4 * Sources[h].words
  BY AssemblyNumbers, SourceNumbers DEF LinkerInv, SymbolInv
<1>2. at \in Nat /\ size \in {2, 4} /\ at + size =< assemblies[g].size
  BY <1>1, RefFacts DEF RefSet, FieldSize, LinkerInv, SymbolInv
<1>3. Holds(g, x)
  BY <1>1, <1>2 DEF Holds
<1>4. Holds(f, x) /\ ~(g < f)
  BY <1>1, <1>3 DEF LooksUp
<1>5. ASSUME f # g PROVE FALSE
  <2>1. f < g
    BY <1>1, <1>4, <1>5
  <2>2. ~Overlap(assemblies[f], assemblies[g])
    BY <1>5 DEF LinkerInv, DisjointInv, DisjointWhenLinked
  <2>3. /\ assemblies[g].address < x /\ x =< assemblies[g].address + assemblies[g].size
        /\ x \in Int
    BY <1>1, <1>2
  <2>4. assemblies[f].address =< x /\ x =< assemblies[f].address + assemblies[f].size
    BY <1>4 DEF Holds
  <2>5. ~Abuts(f, g)
    OBVIOUS
  <2> HIDE DEF x
  <2> QED BY <1>1, <2>1, <2>2, <2>3, <2>4, <2>5 DEF Overlap, Abuts
<1> QED BY <1>5

\* A reference that is not misread has what the CPU needs in its field.
LEMMA EncodedDenotes ==
  ASSUME LinkerInv, phase = "done", NEW f \in Files, NEW k \in DOMAIN Sources[f].refs,
         ~Misread(f, k), NEW ref \in Entry, IsReference(ref, f, k),
         ref.value \in DOMAIN symbols, ~TooFar(ref)
  PROVE  Denotes(Encoded(ref), Sources[f].refs[k], f)
<1> DEFINE r == Sources[f].refs[k]
           t == Target(r.name)
<1>1. /\ ref.value = r.name /\ ref.type = r.kind
      /\ r.kind = "rel16" => ref.relbase = assemblies[f].address + 4 * (r.at \div 4)
  BY DEF Misread, IsReference, EntryFor
<1>2. t \in Nat /\ symbols[ref.value] = 4 * t
  BY <1>1, LabelTarget
<1>3. symbols[ref.value] \div 4 = t
  BY <1>2
<1>4. r.kind \in Kinds /\ r.at \in Nat
  BY RefFacts DEF RefSet, LinkerInv, SymbolInv
<1>5. assemblies[f].address \in Int /\ assemblies[f].address % 4 = 0
  BY AssemblyNumbers DEF LinkerInv, SymbolInv
<1>7. CASE r.kind = "rel16"
  <2>1. ref.relbase \div 4 = assemblies[f].address \div 4 + r.at \div 4
    BY <1>1, <1>4, <1>5, <1>7
  <2>2. Encoded(ref) = t - ref.relbase \div 4
    BY <1>1, <1>3, <1>7 DEF Encoded
  <2> QED BY <1>2, <1>4, <1>5, <1>7, <2>1, <2>2 DEF Denotes
<1>8. CASE r.kind = "abs16_l"
  BY <1>1, <1>3, <1>8 DEF Denotes, Encoded
<1>9. CASE r.kind = "abs16_h"
  BY <1>1, <1>2, <1>3, <1>9 DEF Denotes, Encoded, TooFar
<1>10. CASE r.kind = "abs32_l"
  BY <1>1, <1>3, <1>10 DEF Denotes, Encoded
<1> QED BY <1>4, <1>7, <1>8, <1>9, <1>10 DEF Kinds

\* Every reference of every object ends up in its own field with the value that
\* leads the CPU to the label it names, nothing else is written, and the header
\* of a vmd says where the image was linked for (rrld:82-91, 293-422, 461-499).
THEOREM LinksCorrectly == Spec => []LinkedCorrectly
<1>1. LinkerInv => LinkedCorrectly
  <2> SUFFICES ASSUME LinkerInv, phase = "done", \A f, g \in Files : ~Abuts(g, f)
               PROVE  /\ \A f \in Files : \A k \in DOMAIN Sources[f].refs :
                            Misread(f, k) \/ Patched(f, k)
                      /\ \A p \in DOMAIN patches :
                           \E k \in DOMAIN Sources[patches[p].asmid].refs :
                              Sources[patches[p].asmid].refs[k].at = patches[p].offset
                      /\ input.format = "vmd" => \E f \in Files : VmdLoads(f)
    BY DEF LinkedCorrectly
  <2>1. /\ Loaded = Files /\ unresolved \in Seq(Entry) /\ DOMAIN unresolved = 1..Len(unresolved)
        /\ patches \in Seq(Patch) /\ Len(patches) = next - 1 /\ next \in Nat \ {0}
        /\ next \notin DOMAIN unresolved /\ Len(unresolved) \in Nat
        /\ \A i \in DOMAIN unresolved : unresolved[i] \in Entry
        /\ \A p \in 1..(next - 1) : p \in DOMAIN unresolved /\ IsPatched(p)
    BY AssemblyNumbers DEF LinkerInv, SymbolInv, ShapeInv, ReferencesInv, PatchesInv
  <2>2. DOMAIN patches = 1..(next - 1) /\ DOMAIN unresolved = 1..(next - 1)
    <3>1. DOMAIN patches = 1..(next - 1)
      BY <2>1
    <3>2. Len(unresolved) = next - 1
      <4>1. next > Len(unresolved)
        BY <2>1
      <4>2. CASE Len(unresolved) < next - 1
        <5>1. next - 1 \in 1..(next - 1) /\ next - 1 \notin 1..Len(unresolved)
          BY <2>1, <4>2
        <5> QED BY <2>1, <5>1
      <4>3. CASE Len(unresolved) >= next - 1
        BY <2>1, <4>1, <4>3
      <4> QED BY <2>1, <4>2, <4>3
    <3> QED BY <2>1, <3>1, <3>2
  <2>3. \A h \in Files : assemblies[h].address \in Int
    BY AssemblyNumbers DEF LinkerInv, SymbolInv
  \* The patch of a reference is written to the assembly it is in.
  <2>4. ASSUME NEW f \in Files, NEW k \in DOMAIN Sources[f].refs, NEW p \in DOMAIN unresolved,
               IsReference(unresolved[p], f, k)
        PROVE  /\ patches[p].asmid = f /\ patches[p].offset = Sources[f].refs[k].at
               /\ patches[p].size = FieldSize(Sources[f].refs[k].kind)
               /\ patches[p].value = Encoded(unresolved[p])
    <3> DEFINE ref == unresolved[p]
    <3>1. PICK g \in Files : /\ LooksUp(g, ref.address + FieldSize(ref.type))
                             /\ patches[p] = PatchOf(ref, g)
      BY <2>1, <2>2 DEF IsPatched
    <3>2. /\ ref.address = assemblies[f].address + Sources[f].refs[k].at
          /\ ref.type = Sources[f].refs[k].kind
      BY <2>4 DEF IsReference, EntryFor
    <3>3. g = f
      BY <3>1, <3>2, FindsItsAssembly
    <3>4. Sources[f].refs[k].at \in Nat
      BY RefFacts DEF RefSet, LinkerInv, SymbolInv
    <3>5. ref.address - assemblies[f].address = Sources[f].refs[k].at
      BY <2>3, <3>2, <3>4
    <3> QED BY <3>1, <3>2, <3>3, <3>5 DEF PatchOf
  <2>5. ASSUME NEW f \in Files, NEW k \in DOMAIN Sources[f].refs, ~Misread(f, k)
        PROVE  Patched(f, k)
    <3>1. PICK p \in DOMAIN unresolved : IsReference(unresolved[p], f, k)
      BY <2>1 DEF LinkerInv, ReferencesInv
    <3>2. unresolved[p].value \in DOMAIN symbols /\ ~TooFar(unresolved[p])
      BY <2>1, <2>2 DEF IsPatched
    <3>3. Denotes(patches[p].value, Sources[f].refs[k], f)
      BY <2>1, <2>4, <2>5, <3>1, <3>2, EncodedDenotes
    <3>4. p \in DOMAIN patches
      BY <2>2
    <3> QED BY <2>4, <3>1, <3>3, <3>4 DEF Patched
  <2>6. ASSUME NEW p \in DOMAIN patches
        PROVE  \E k \in DOMAIN Sources[patches[p].asmid].refs :
                 Sources[patches[p].asmid].refs[k].at = patches[p].offset
    <3>1. PICK f \in Files : \E k \in DOMAIN Sources[f].refs :
                                  IsReference(unresolved[p], f, k)
      BY <2>1, <2>2 DEF LinkerInv, ReferencesInv
    <3>2. PICK k \in DOMAIN Sources[f].refs : IsReference(unresolved[p], f, k)
      BY <3>1
    <3> QED BY <2>2, <2>4, <3>2
  <2>7. ASSUME input.format = "vmd" PROVE \E f \in Files : VmdLoads(f)
    <3>1. PICK f \in Files : /\ \A g \in Files : assemblies[f].address =< assemblies[g].address
                             /\ header = HeaderFor(assemblies[f].address)
      BY DEF LinkerInv, PatchesInv, HeaderInv
    <3>2. header.vmembase = assemblies[f].address
      BY <2>7, <3>1 DEF HeaderFor
    <3> QED BY <2>3, <3>1, <3>2 DEF VmdLoads
  <2> QED BY <2>5, <2>6, <2>7
<1> QED BY <1>1, LinkerAlways, PTL

-----------------------------------------------------------------------------
(***************************************************************************)
(* Giving up.  Each of the actions that do is for one of the Reasons.      *)
(***************************************************************************)
LEMMA SameReasons == UNCHANGED <<input, assemblies>> /\ Reasons => Reasons'
<1> SUFFICES ASSUME UNCHANGED <<input, assemblies>>, Reasons PROVE Reasons'
  OBVIOUS
<1>1. Sources' = Sources /\ Files' = Files /\ input' = input
  BY SourcesSame
<1>2. \A n : Target(n)' = Target(n)
  BY <1>1 DEF Target
<1>3. \A f, k : Misread(f, k)' <=> Misread(f, k)
  BY <1>1 DEF Misread
<1>4. \A f, k : /\ Undefined(Sources[f].refs[k])' <=> Undefined(Sources[f].refs[k])
                /\ OutOfReach(Sources[f].refs[k], f)' <=> OutOfReach(Sources[f].refs[k], f)
  BY <1>1 DEF Undefined, OutOfReach, Target
<1> QED BY <1>1, <1>3, <1>4 DEF Reasons

LEMMA FileReasons ==
  ASSUME LinkerInv, RejectFile
  PROVE  Reasons
<1>1. next \in Files /\ Clashes(Sources[next]) /\ phase = "load"
  BY DEF RejectFile
<1>2. Loaded = 1..(next - 1) /\ next \in Nat /\ Files = 1..Len(Sources) /\ Len(Sources) \in Nat
  BY <1>1, SourceNumbers DEF LinkerInv, SymbolInv, ShapeInv, Loaded
<1>3. \A f \in Loaded : f \in Files /\ f < next
  BY <1>1, <1>2
<1>4. CASE EntryOf(Sources[next]) # 0 /\ entrypoint # 0
  <2>1. PICK f \in Loaded : EntryOf(Sources[f]) # 0
    BY <1>4 DEF LinkerInv, EntryInv
  <2>2. TwoEntries(Sources[f], Sources[next])
    BY <1>4, <2>1 DEF TwoEntries
  <2> QED BY <1>1, <1>3, <2>2 DEF Reasons
<1>5. CASE DOMAIN Defined(Sources[next]) \cap DOMAIN symbols # {}
  <2>1. PICK n : n \in DOMAIN Sources[next].labels /\ n \in DOMAIN symbols
    BY <1>5 DEF Defined
  <2>2. owner[n] \in Loaded /\ n \in DOMAIN Sources[owner[n]].labels
    BY <2>1 DEF LinkerInv, SymbolInv, SymbolsFollow
  <2>3. TwoDefinitions(Sources[owner[n]], Sources[next])
    BY <2>1, <2>2 DEF TwoDefinitions
  <2> QED BY <1>1, <1>3, <2>2, <2>3 DEF Reasons
<1> QED BY <1>1, <1>4, <1>5 DEF Clashes

LEMMA FixedReasons ==
  ASSUME LinkerInv, RelocateFixed
  PROVE  Reasons
<1>1. next \in Files /\ assemblies[next].address # 0 /\ phase = "relocate"
  BY DEF RelocateFixed
<1>2. next \in next..Len(Sources) /\ input.relocate
  BY <1>1, SourceNumbers DEF LinkerInv, SymbolInv, PlacesInv
<1>3. Sources[next].org # 0
  BY <1>1, <1>2 DEF LinkerInv, PlacesInv, AsAssembled
<1> QED BY <1>1, <1>2, <1>3 DEF Reasons

LEMMA OverlapReasons ==
  ASSUME LinkerInv, RejectOverlap
  PROVE  Reasons
<1>1. next \in Files /\ OverlapsAssembly(next) /\ phase = "validate"
  BY DEF RejectOverlap
<1>2. /\ Files = 1..Len(Sources) /\ Len(Sources) \in Nat /\ next \in Nat
      /\ \A f \in Files : /\ assemblies[f].address \in Int /\ assemblies[f].size \in Nat
                          /\ assemblies[f].size = Segment(Sources[f]).size
                          /\ Segment(Sources[f]).address = 4 * Sources[f].org
  BY <1>1, SourceNumbers, AssemblyNumbers, SegmentFacts DEF LinkerInv, SymbolInv, ShapeInv
<1>3. PICK f \in 1..(next - 1) : Overlap(assemblies[f], assemblies[next])
  BY <1>1 DEF OverlapsAssembly, Compared
<1>4. f \in Files /\ f < next
  BY <1>1, <1>2
<1>5. ~input.relocate
  <2>1. ASSUME input.relocate PROVE FALSE
    <3>1. End(f) =< assemblies[next].address
      BY <1>1, <1>2, <1>4, <2>1 DEF LinkerInv, PlacesInv, Stacked
    <3> QED BY <1>1, <1>2, <1>3, <1>4, <3>1 DEF End, Overlap
  <2> QED BY <2>1
<1>6. Overlap(Segment(Sources[f]), Segment(Sources[next]))
  <2>1. \A g \in Files : assemblies[g].address = Segment(Sources[g]).address
    BY <1>1, <1>2, <1>5 DEF LinkerInv, PlacesInv, AsAssembled
  <2> QED BY <1>1, <1>2, <1>3, <1>4, <2>1 DEF Overlap
<1> QED BY <1>1, <1>4, <1>5, <1>6 DEF Reasons

\* Why a reference that is not misread cannot be linked.
LEMMA ReferenceReasons ==
  ASSUME LinkerInv, phase = "link", NEW f \in Files, NEW k \in DOMAIN Sources[f].refs,
         ~Misread(f, k), NEW ref \in Entry, IsReference(ref, f, k),
         ref.value \in DOMAIN symbols => TooFar(ref) \/ Unpackable(ref)
  PROVE  Undefined(Sources[f].refs[k]) \/ OutOfReach(Sources[f].refs[k], f)
<1> DEFINE r == Sources[f].refs[k]
           t == Target(r.name)
<1>1. /\ ref.value = r.name /\ ref.type = r.kind
      /\ r.kind = "rel16" => ref.relbase = assemblies[f].address + 4 * (r.at \div 4)
  BY DEF Misread, IsReference, EntryFor
<1>2. CASE ref.value \notin DOMAIN symbols
  <2>1. Loaded = Files
    BY AssemblyNumbers DEF LinkerInv, SymbolInv
  <2> QED BY <1>1, <1>2, <2>1 DEF LinkerInv, OwnersInv, Undefined
<1>3. CASE ref.value \in DOMAIN symbols
  <2>1. t \in Nat /\ symbols[ref.value] = 4 * t
    BY <1>1, <1>3, LabelTarget
  <2>2. CASE TooFar(ref)
    <3>1. r.kind # "rel16" /\ t > 8191
      BY <1>1, <2>1, <2>2 DEF TooFar
    <3> QED BY <3>1 DEF OutOfReach
  <2>3. CASE Unpackable(ref)
    <3>1. r.kind = "rel16" /\ Encoded(ref) \notin Shorts
      BY <1>1, <2>3 DEF Unpackable
    <3>2. assemblies[f].address \in Int /\ assemblies[f].address % 4 = 0 /\ r.at \in Nat
      BY AssemblyNumbers, RefFacts DEF RefSet, LinkerInv, SymbolInv
    <3>3. ref.relbase \div 4 = assemblies[f].address \div 4 + r.at \div 4
      BY <1>1, <3>1, <3>2
    <3>4. symbols[ref.value] \div 4 = t
      BY <2>1
    <3>5. Encoded(ref) = t - ref.relbase \div 4
      BY <1>1, <3>1, <3>4 DEF Encoded
    <3>6. Encoded(ref) = t - assemblies[f].address \div 4 - r.at \div 4
      BY <2>1, <3>2, <3>3, <3>5
    <3> QED BY <3>1, <3>6 DEF OutOfReach
  <2> QED BY <1>3, <2>2, <2>3
<1> QED BY <1>2, <1>3

LEMMA SymbolReasons ==
  ASSUME LinkerInv, RejectSymbol \/ CrashOnSymbol
  PROVE  Reasons
<1>1. PICK ref : /\ Linking(ref)
                 /\ \/ ref.value \notin DOMAIN symbols
                    \/ \A f \in Files : ~Holds(f, ref.address + FieldSize(ref.type))
                    \/ ref.value \in DOMAIN symbols /\ TooFar(ref)
                    \/ ref.value \in DOMAIN symbols /\ Unpackable(ref)
  BY DEF RejectSymbol, CrashOnSymbol
<1>2. /\ phase = "link" /\ next \in DOMAIN unresolved /\ ref = unresolved[next]
      /\ Loaded = Files /\ ref \in Entry
  BY <1>1, AssemblyNumbers DEF Linking, LinkerInv, SymbolInv, ReferencesInv
<1>3. PICK f \in Files : \E k \in DOMAIN Sources[f].refs : IsReference(ref, f, k)
  BY <1>2 DEF LinkerInv, ReferencesInv
<1>4. PICK k \in DOMAIN Sources[f].refs : IsReference(ref, f, k)
  BY <1>3
<1>5. Holds(f, ref.address + FieldSize(ref.type))
  <2>1. /\ ref.address = assemblies[f].address + Sources[f].refs[k].at
        /\ ref.type = Sources[f].refs[k].kind
    BY <1>4 DEF IsReference, EntryFor
  <2>2. /\ assemblies[f].address \in Int /\ assemblies[f].size = 4 * Sources[f].words
        /\ Sources[f].refs[k].at \in Nat /\ Sources[f].words \in Nat
        /\ Sources[f].refs[k].at + FieldSize(Sources[f].refs[k].kind) =< 4 * Sources[f].words
        /\ FieldSize(Sources[f].refs[k].kind) \in {2, 4}
    BY <1>2, AssemblyNumbers, SourceNumbers, RefFacts
       DEF RefSet, FieldSize, LinkerInv, SymbolInv
  <2> QED BY <2>1, <2>2 DEF Holds
<1>6. Misread(f, k) \/ Undefined(Sources[f].refs[k]) \/ OutOfReach(Sources[f].refs[k], f)
  BY <1>1, <1>2, <1>4, <1>5, ReferenceReasons
<1> QED BY <1>6 DEF Reasons

\* rrld gives up only over a clash of symbols or entry points, an overlap, a fixed
\* address it is asked to relocate, an undefined or misread symbol, a label out of
\* reach, or an output it does not have (rrld:242-422, 501-647).
THEOREM GivesUpForReason == Spec => []LinksWhatItCan
<1>1. Init => LinksWhatItCan
  BY DEF Init, LinksWhatItCan
<1>2. LinkerInv /\ LinksWhatItCan /\ [Next]_vars => LinksWhatItCan'
  <2> SUFFICES ASSUME LinkerInv, LinksWhatItCan, [Next]_vars,
                      phase' \in {"failed", "crashed"}
               PROVE  Reasons'
    BY DEF LinksWhatItCan
  <2>1. CASE UNCHANGED vars
    BY <2>1, SameReasons DEF LinksWhatItCan, vars
  <2>2. CASE RejectFile \/ RelocateFixed \/ RejectOverlap \/ RejectSymbol \/ CrashOnSymbol
               \/ RejectOutput
    <3>1. Reasons
      <4>1. RejectOutput => Reasons
        BY DEF RejectOutput, CanOutput, Reasons
      <4> QED BY <2>2, <4>1, FileReasons, FixedReasons, OverlapReasons, SymbolReasons
    <3>2. UNCHANGED <<input, assemblies>>
      BY <2>2 DEF RejectFile, RelocateFixed, RejectOverlap, RejectSymbol, CrashOnSymbol,
                  RejectOutput, Stop
    <3> QED BY <3>1, <3>2, SameReasons
  <2>3. CASE LoadFile \/ FilesLoaded \/ RelocateAssembly \/ Relocated \/ ValidateAssembly
               \/ Validated \/ LinkSymbol \/ WriteImage
    <3>1. phase' \notin {"failed", "crashed"}
      BY <2>3 DEF LoadFile, FilesLoaded, RelocateAssembly, Relocated, ValidateAssembly,
                  Validated, LinkSymbol, Linking, WriteImage
    <3> QED BY <3>1
  <2> QED BY <2>1, <2>2, <2>3 DEF Next
<1> QED BY <1>1, <1>2, LinkerAlways, PTL DEF Spec
=============================================================================
