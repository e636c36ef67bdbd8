-------------------------- MODULE LibraryBuildProofs --------------------------
(***************************************************************************)
(* Theorems about LibraryBuild, for any number of symbols and references:  *)
(* the renamed library is an ELF file that a linker could have written,    *)
(* its exports are guarded by wrappers, wrappers call the functions they   *)
(* were made for, and the library's own code reads what the run says.      *)
(*                                                                         *)
(* What mkimage and the loader do with the renamed library is taken from   *)
(* LotRelocationProofs.                                                    *)
(***************************************************************************)
EXTENDS LibraryBuild, SequenceLemmas, FiniteSetTheorems, TLAPS

LotP == INSTANCE LotRelocationProofs
          WITH Names <- AllNames, MaxSymbols <- 2 * MaxSymbols,
               MaxReferences <- MaxReferences + MaxSymbols,
               SameNames <- TRUE, OwnReferences <- TRUE

Entry == [name : AllNames, global : BOOLEAN, defined : BOOLEAN]

\* The symbols of the source, those of the wrappers, the references of the library's
\* own code; the name of each wrapper.
N == Len(Symbols)
W == Cardinality(wrapped)
R == Len(sources.references)
names == SetToSeq(wrapped)

FunctionNames ==
  {Symbols[k].name : k \in {j \in DOMAIN Symbols : is_wrapped(Symbols[j])}}

\* The assumptions of LotRelocation hold of the library.
LEMMA LotBounds ==
  /\ 2 * MaxSymbols \in Nat /\ MaxReferences + MaxSymbols \in Nat
  /\ TRUE \in BOOLEAN /\ TRUE \in BOOLEAN
BY NameAssumption

-----------------------------------------------------------------------------
(***************************************************************************)
(* Symbols and wrappers.                                                   *)
(***************************************************************************)
LEMMA SourceFacts ==
  ASSUME sources \in Inputs
  PROVE  /\ N \in 1..MaxSymbols /\ N \in Nat /\ DOMAIN Symbols = 1..N
         /\ \A k \in 1..N : Symbols[k] \in Source /\ Symbols[k].name \in Names
                            /\ Symbols[k].kind \in Kinds
         /\ R \in 0..MaxReferences /\ R \in Nat /\ DOMAIN sources.references = 1..R
         /\ \A r \in 1..R : sources.references[r] \in 1..N
         /\ \A j, k \in 1..N : j # k /\ Symbols[j].name = Symbols[k].name =>
              Symbols[j].kind = "static" \/ Symbols[k].kind = "static"
<1>1. PICK m \in 1..MaxSymbols : Symbols \in [1..m -> Source]
  BY NameAssumption DEF Inputs, Symbols
<1>2. PICK n \in 0..MaxReferences : sources.references \in [1..n -> 1..MaxSymbols]
  BY NameAssumption DEF Inputs
<1>3. m \in Nat /\ n \in Nat
  BY NameAssumption
<1>4. Len(Symbols) = m /\ DOMAIN Symbols = 1..m
  BY <1>1, <1>3
<1>5. Len(sources.references) = n /\ DOMAIN sources.references = 1..n
  BY <1>2, <1>3
<1>6. \A k \in 1..m : Symbols[k] \in Source
  BY <1>1
<1>7. \A s \in Source : s.name \in Names /\ s.kind \in Kinds
  BY DEF Source
<1>8. Range(sources.references) \subseteq DOMAIN Symbols
  BY DEF Inputs, Symbols
<1>9. \A r \in 1..n : sources.references[r] \in 1..m
  BY <1>4, <1>5, <1>8 DEF Range
<1>10. \A j, k \in 1..m : j # k /\ Symbols[j].name = Symbols[k].name =>
              Symbols[j].kind = "static" \/ Symbols[k].kind = "static"
  <2>1. \A j, k \in DOMAIN Symbols : j # k /\ Symbols[j].name = Symbols[k].name =>
              "static" \in {Symbols[j].kind, Symbols[k].kind}
    BY DEF Inputs, Symbols
  <2> QED BY <1>4, <2>1
<1> QED BY <1>3, <1>4, <1>5, <1>6, <1>7, <1>9, <1>10 DEF N, R

\* Each public function has a name of its own.
LEMMA WrappedFacts ==
  ASSUME sources \in Inputs, wrapped = FunctionNames
  PROVE  /\ wrapped \subseteq Names
         /\ IsFiniteSet(wrapped) /\ W \in 0..N /\ W \in Nat
         /\ \A n \in wrapped : \E k \in 1..N :
              Symbols[k].name = n /\ Symbols[k].kind = "function"
         /\ \A k \in 1..N : Symbols[k].kind = "function" => Symbols[k].name \in wrapped
         /\ \A k \in 1..N : Symbols[k].name \in wrapped =>
              Symbols[k].kind \in {"function", "static"}
<1> DEFINE F == {j \in 1..N : Symbols[j].kind = "function"}
           f == [k \in F |-> Symbols[k].name]
<1>1. wrapped = {Symbols[k].name : k \in F}
  BY SourceFacts DEF FunctionNames, is_wrapped
<1>2. f \in Surjection(F, wrapped)
  BY <1>1 DEF Surjection
<1>3. IsFiniteSet(1..N) /\ Cardinality(1..N) = N
  BY SourceFacts, FS_Interval
<1>4. F \in SUBSET (1..N)
  OBVIOUS
<1>5. IsFiniteSet(F) /\ Cardinality(F) <= N
  BY <1>3, <1>4, FS_Subset
<1>6. IsFiniteSet(wrapped) /\ W <= Cardinality(F)
  BY <1>2, <1>5, FS_Surjection DEF W
<1>7. W \in Nat /\ Cardinality(F) \in Nat
  BY <1>5, <1>6, FS_CardinalityType DEF W
<1>8. W \in 0..N
  BY <1>5, <1>6, <1>7, SourceFacts
<1>9. wrapped \subseteq Names
  BY <1>1, SourceFacts
<1>10. \A n \in wrapped : \E k \in 1..N : Symbols[k].name = n /\ Symbols[k].kind = "function"
  BY <1>1
<1>11. \A k \in 1..N : Symbols[k].kind = "function" => Symbols[k].name \in wrapped
  BY <1>1
<1>12. \A k \in 1..N : Symbols[k].name \in wrapped =>
         Symbols[k].kind \in {"function", "static"}
  BY <1>10, SourceFacts
<1> QED BY <1>6, <1>7, <1>8, <1>9, <1>10, <1>11, <1>12

LEMMA NamesFacts ==
  ASSUME IsFiniteSet(wrapped)
  PROVE  /\ DOMAIN names = 1..W /\ W \in Nat /\ names \in [1..W -> wrapped]
         /\ \A i \in 1..W : names[i] \in wrapped
         /\ \A n \in wrapped : \E i \in 1..W : names[i] = n
         /\ \A i, j \in 1..W : names[i] = names[j] => i = j
<1>1. W \in Nat /\ ExistsBijection(1..W, wrapped)
  BY FS_CardinalityType DEF W
<1>2. \E f \in [1..W -> wrapped] : IsInjective(f)
  BY <1>1 DEF ExistsBijection, Bijection, Injection
<1>3. names \in [1..W -> wrapped] /\ IsInjective(names)
  BY <1>2 DEF names, SetToSeq, W
<1>4. IsFiniteSet(1..W) /\ Cardinality(1..W) = W
  BY <1>1, FS_Interval
<1>5. names \in Injection(1..W, wrapped)
  BY <1>3 DEF Injection
<1>6. names \in Surjection(1..W, wrapped)
  BY <1>4, <1>5, FS_Injection DEF W
<1>7. \A n \in wrapped : \E i \in 1..W : names[i] = n
  BY <1>6 DEF Surjection
<1>8. \A i, j \in 1..W : names[i] = names[j] => i = j
  BY <1>3 DEF IsInjective
<1> QED BY <1>1, <1>3, <1>7, <1>8

\* A wrapper is made for one function.
LEMMA WrappersFacts ==
  ASSUME sources \in Inputs, wrapped = FunctionNames
  PROVE  /\ DOMAIN Wrappers = 1..W /\ Wrappers \in Seq([symbol : Entry, original : 1..N])
         /\ Len(Wrappers) = W
         /\ \A i \in 1..W :
              /\ Wrappers[i].symbol \in Entry /\ Wrappers[i].symbol.name = Wrapper[names[i]]
              /\ Wrappers[i].symbol.global /\ Wrappers[i].symbol.defined
              /\ Wrappers[i].original \in 1..N
              /\ Symbols[Wrappers[i].original].name = names[i]
              /\ Symbols[Wrappers[i].original].kind = "function"
<1>1. /\ W \in Nat /\ wrapped \subseteq Names /\ DOMAIN names = 1..W
      /\ \A i \in 1..W : names[i] \in wrapped
  BY WrappedFacts, NamesFacts
<1>2. Wrappers = [i \in 1..W |-> wrapper_of(names[i])]
  BY <1>1 DEF Wrappers, names
<1>3. ASSUME NEW i \in 1..W
      PROVE  LET w == wrapper_of(names[i])
             IN  /\ w \in [symbol : Entry, original : 1..N] /\ w.symbol \in Entry
                 /\ w.symbol.name = Wrapper[names[i]] /\ w.symbol.global /\ w.symbol.defined
                 /\ w.original \in 1..N /\ Symbols[w.original].name = names[i]
                 /\ Symbols[w.original].kind = "function"
  <2> DEFINE n == names[i]
             o == CHOOSE k \in DOMAIN Symbols :
                    Symbols[k].name = n /\ Symbols[k].kind # "static"
  <2>1. n \in wrapped /\ n \in Names
    BY <1>1
  <2>2. \E k \in 1..N : Symbols[k].name = n /\ Symbols[k].kind # "static"
    BY <2>1, WrappedFacts
  <2>3. o \in 1..N /\ Symbols[o].name = n /\ Symbols[o].kind # "static"
    BY <2>2, SourceFacts
  <2>4. Symbols[o].kind = "function"
    BY <2>1, <2>3, WrappedFacts
  <2>5. Wrapper[n] \in AllNames
    BY <2>1, NameAssumption DEF AllNames, Range
  <2>6. wrapper_of(n) = [symbol |-> [name |-> Wrapper[n], global |-> TRUE, defined |-> TRUE],
                         original |-> o]
    BY DEF wrapper_of
  <2> HIDE DEF n, o
  <2> QED BY <2>3, <2>4, <2>5, <2>6 DEF Entry, n
<1>4. DOMAIN Wrappers = 1..W /\ \A i \in 1..W : Wrappers[i] = wrapper_of(names[i])
  BY <1>2
<1>5. Wrappers \in [1..W -> [symbol : Entry, original : 1..N]]
  BY <1>2, <1>3
<1>6. Wrappers \in Seq([symbol : Entry, original : 1..N]) /\ Len(Wrappers) = W
  BY <1>1, <1>5, FunctionIsSeq
<1> QED BY <1>3, <1>4, <1>6

\* References of the library's own code, then those of the wrappers.
LEMMA ReferencesFacts ==
  ASSUME sources \in Inputs, wrapped = FunctionNames
  PROVE  /\ DOMAIN References = 1..R + W /\ R + W \in Nat
         /\ \A r \in 1..R : References[r] = sources.references[r]
         /\ \A i \in 1..W : References[R + i] = Wrappers[i].original
         /\ \A r \in 1..R + W : References[r] \in 1..N
<1> DEFINE own == sources.references
           other == [k \in DOMAIN Wrappers |-> Wrappers[k].original]
<1>1. R \in Nat /\ W \in Nat /\ N \in Nat
  BY SourceFacts, WrappedFacts
<1>2. own \in Seq(1..N) /\ Len(own) = R
  <2>1. \E n \in Nat : own \in [1..n -> Nat]
    <3>1. PICK n \in 0..MaxReferences : own \in [1..n -> 1..MaxSymbols]
      BY NameAssumption DEF Inputs
    <3> QED BY <3>1, NameAssumption
  <2>2. own \in [1..R -> 1..N]
    BY <2>1, SourceFacts
  <2> QED BY <1>1, <2>2, FunctionIsSeq
<1>3. other \in Seq(1..N) /\ Len(other) = W /\ \A i \in 1..W : other[i] = Wrappers[i].original
  <2>1. other = [i \in 1..W |-> Wrappers[i].original]
    BY WrappersFacts
  <2>2. \A i \in 1..W : Wrappers[i].original \in 1..N
    BY WrappersFacts
  <2>3. other \in [1..W -> 1..N]
    BY <2>1, <2>2
  <2> QED BY <1>1, <2>1, <2>3, FunctionIsSeq
<1>4. References = own \o other
  BY DEF References
<1> HIDE DEF own, other
<1>5. /\ own \o other \in Seq(1..N) /\ Len(own \o other) = R + W
      /\ \A r \in 1..R : (own \o other)[r] = own[r]
      /\ \A i \in 1..W : (own \o other)[R + i] = other[i]
  <2>1. /\ own \o other \in Seq(1..N) /\ Len(own \o other) = Len(own) + Len(other)
        /\ \A r \in 1..Len(own) : (own \o other)[r] = own[r]
        /\ \A i \in 1..Len(other) : (own \o other)[i + Len(own)] = other[i]
    <3>1. own \in Seq(1..N) /\ other \in Seq(1..N)
      BY <1>2, <1>3
    <3> QED BY ONLY <3>1, ConcatFacts
  <2>2. \A i \in 1..W : i + R = R + i
    BY <1>1
  <2> QED BY <1>2, <1>3, <2>1, <2>2, Zenon
<1>6. \A r \in 1..R + W : References[r] \in 1..N
  BY <1>1, <1>4, <1>5, ElementOfSeq
<1>7. DOMAIN References = 1..R + W /\ R + W \in Nat
  BY <1>1, <1>4, <1>5
<1> QED BY <1>3, <1>4, <1>5, <1>6, <1>7 DEF own
-----------------------------------------------------------------------------
(***************************************************************************)
(* The linker and fix_names.py.                                            *)
(***************************************************************************)
IsLinked ==
  /\ linked \in Seq(Entry) /\ Len(linked) = N + W
  /\ \A k \in 1..N :
       /\ linked[k].name = Symbols[k].name
       /\ linked[k].global <=> Symbols[k].kind # "static"
       /\ linked[k].defined <=> Symbols[k].kind # "import"
  /\ \A i \in 1..W :
       /\ linked[N + i].name = Wrapper[names[i]]
       /\ linked[N + i].global /\ linked[N + i].defined

\* The linker writes each symbol once.
IsOrderOf(n) ==
  /\ order \in [1..n -> 1..n]
  /\ \A k \in 1..n : \E i \in 1..n : order[i] = k
  /\ \A i, j \in 1..n : order[i] = order[j] => i = j

IsPlaced == IsOrderOf(N + W)

\* A wrapper has the name of its function; the function and whatever shares its name have
\* another, and are local.
IsRenamed(symbols) ==
  /\ symbols \in Seq(Entry) /\ Len(symbols) = N + W
  /\ \A k \in 1..N :
       /\ Symbols[k].name \in wrapped => symbols[k].name = Original[Symbols[k].name]
       /\ Symbols[k].name \notin wrapped => symbols[k].name = Symbols[k].name
       /\ symbols[k].global <=>
            Symbols[k].kind # "static" /\ Symbols[k].name \notin wrapped
       /\ symbols[k].defined <=> Symbols[k].kind # "import"
  /\ \A i \in 1..W :
       /\ symbols[N + i].name = names[i]
       /\ symbols[N + i].global /\ symbols[N + i].defined

\* A place in the linked library is that of a symbol of the source or of a wrapper.
LEMMA PlaceIsOneOf ==
  ASSUME sources \in Inputs, wrapped = FunctionNames, NEW k \in 1..N + W
  PROVE  \/ k \in 1..N /\ ~IsWrapper(k)
         \/ /\ k - N \in 1..W /\ k = N + (k - N) /\ k \notin 1..N /\ IsWrapper(k)
<1>1. N \in Nat /\ W \in Nat
  BY SourceFacts, WrappedFacts
<1> QED BY <1>1 DEF IsWrapper, N

LEMMA LinkIsLinked ==
  ASSUME sources \in Inputs, wrapped = FunctionNames, UNCHANGED <<sources, wrapped>>, link
  PROVE  IsLinked'
<1> DEFINE own == [k \in DOMAIN Symbols |->
                     [name |-> Symbols[k].name,
                      global |-> Symbols[k].kind # "static",
                      defined |-> Symbols[k].kind # "import"]]
           other == [k \in DOMAIN Wrappers |-> Wrappers[k].symbol]
<1>1. N \in Nat /\ W \in Nat
  BY SourceFacts, WrappedFacts
<1>2. /\ own \in Seq(Entry) /\ Len(own) = N
      /\ \A k \in 1..N :
           /\ own[k].name = Symbols[k].name
           /\ own[k].global <=> Symbols[k].kind # "static"
           /\ own[k].defined <=> Symbols[k].kind # "import"
  <2>1. own = [k \in 1..N |->
                [name |-> Symbols[k].name,
                 global |-> Symbols[k].kind # "static",
                 defined |-> Symbols[k].kind # "import"]]
    BY SourceFacts
  <2>2. \A k \in 1..N : Symbols[k].name \in AllNames
    BY SourceFacts DEF AllNames
  <2>3. own \in [1..N -> Entry]
    BY <2>1, <2>2 DEF Entry
  <2> QED BY <1>1, <2>1, <2>3, FunctionIsSeq
<1>3. /\ other \in Seq(Entry) /\ Len(other) = W
      /\ \A i \in 1..W : /\ other[i].name = Wrapper[names[i]]
                         /\ other[i].global /\ other[i].defined
  <2>1. other = [i \in 1..W |-> Wrappers[i].symbol]
    BY WrappersFacts
  <2>2. \A i \in 1..W : Wrappers[i].symbol \in Entry
    BY WrappersFacts
  <2>3. other \in [1..W -> Entry]
    BY <2>1, <2>2
  <2>4. \A i \in 1..W : other[i] = Wrappers[i].symbol
    BY <2>1
  <2>5. other \in Seq(Entry) /\ Len(other) = W
    BY <1>1, <2>3, FunctionIsSeq
  <2>6. \A i \in 1..W : /\ Wrappers[i].symbol.name = Wrapper[names[i]]
                       /\ Wrappers[i].symbol.global /\ Wrappers[i].symbol.defined
    BY WrappersFacts
  <2> HIDE DEF other
  <2> QED BY <2>4, <2>5, <2>6
<1>4. linked' = own \o other
  BY DEF link
<1> HIDE DEF own, other
<1>5. /\ own \o other \in Seq(Entry) /\ Len(own \o other) = N + W
      /\ \A k \in 1..N : (own \o other)[k] = own[k]
      /\ \A i \in 1..W : (own \o other)[N + i] = other[i]
  <2>1. /\ own \o other \in Seq(Entry) /\ Len(own \o other) = Len(own) + Len(other)
        /\ \A r \in 1..Len(own) : (own \o other)[r] = own[r]
        /\ \A i \in 1..Len(other) : (own \o other)[i + Len(own)] = other[i]
    <3>1. own \in Seq(Entry) /\ other \in Seq(Entry)
      BY <1>2, <1>3
    <3> QED BY ONLY <3>1, ConcatFacts
  <2>2. \A i \in 1..W : i + N = N + i
    BY <1>1
  <2> QED BY <1>2, <1>3, <2>1, <2>2, Zenon
<1>6. /\ linked' \in Seq(Entry) /\ Len(linked') = N + W
      /\ \A k \in 1..N :
           /\ linked'[k].name = Symbols[k].name
           /\ linked'[k].global <=> Symbols[k].kind # "static"
           /\ linked'[k].defined <=> Symbols[k].kind # "import"
      /\ \A i \in 1..W :
           /\ linked'[N + i].name = Wrapper[names[i]]
           /\ linked'[N + i].global /\ linked'[N + i].defined
  BY <1>2, <1>3, <1>4, <1>5, Zenon
<1>7. N' = N /\ W' = W /\ names' = names /\ Symbols' = Symbols
  BY DEF N, W, names, Symbols
<1> QED BY <1>6, <1>7 DEF IsLinked

\* A call of objcopy gives the symbols of one set of names the names of another...
LEMMA RedefineFacts ==
  ASSUME NEW symbols \in Seq(Entry), NEW from, NEW to,
         \A n \in Names : to[n] \in AllNames,
         \A m, n \in Names : from[m] = from[n] => m = n
  PROVE  LET new == redefine_sym(symbols, from, to)
         IN  /\ new \in Seq(Entry) /\ Len(new) = Len(symbols)
             /\ \A k \in 1..Len(symbols) :
                  /\ new[k].global = symbols[k].global
                  /\ new[k].defined = symbols[k].defined
                  /\ \A n \in Public : symbols[k].name = from[n] => new[k].name = to[n]
                  /\ (\A n \in Public : symbols[k].name # from[n])
                       => new[k].name = symbols[k].name
<1> DEFINE name(k) == IF \E n \in Public : from[n] = symbols[k].name
                      THEN to[CHOOSE n \in Public : from[n] = symbols[k].name]
                      ELSE symbols[k].name
           entry(k) == [symbols[k] EXCEPT !.name = name(k)]
           new == redefine_sym(symbols, from, to)
<1>1. Len(symbols) \in Nat /\ DOMAIN symbols = 1..Len(symbols)
  OBVIOUS
<1>2. \A k \in 1..Len(symbols) : symbols[k] \in Entry
  BY <1>1, ElementOfSeq
<1>3. Public \subseteq Names
  BY DEF Public
<1>4. new = [k \in 1..Len(symbols) |-> entry(k)]
  BY <1>1 DEF redefine_sym
<1>5. ASSUME NEW k \in 1..Len(symbols)
      PROVE  /\ name(k) \in AllNames
             /\ \A n \in Public : symbols[k].name = from[n] => name(k) = to[n]
             /\ (\A n \in Public : symbols[k].name # from[n]) => name(k) = symbols[k].name
  <2>1. symbols[k].name \in AllNames
    BY <1>2 DEF Entry
  <2>2. ASSUME NEW n \in Public, from[n] = symbols[k].name
        PROVE  (CHOOSE m \in Public : from[m] = symbols[k].name) = n
    <3>1. \A m \in Public : from[m] = from[n] => m = n
      BY <1>3
    <3> QED BY <2>2, <3>1
  <2>3. \A n \in Public : to[n] \in AllNames
    BY <1>3
  <2> QED BY <2>1, <2>2, <2>3
<1> HIDE DEF name
<1>6. \A k \in 1..Len(symbols) :
        /\ entry(k) \in Entry /\ entry(k).name = name(k)
        /\ entry(k).global = symbols[k].global /\ entry(k).defined = symbols[k].defined
  BY <1>2, <1>5 DEF Entry
<1> HIDE DEF entry
<1>7. new \in [1..Len(symbols) -> Entry]
  BY <1>4, <1>6
<1>8. new \in Seq(Entry) /\ Len(new) = Len(symbols)
  BY <1>1, <1>7, FunctionIsSeq
<1>9. \A k \in 1..Len(symbols) : new[k] = entry(k)
  BY <1>4
<1> HIDE DEF new
<1>10. \A k \in 1..Len(symbols) :
         /\ new[k].global = symbols[k].global
         /\ new[k].defined = symbols[k].defined
         /\ \A n \in Public : symbols[k].name = from[n] => new[k].name = to[n]
         /\ (\A n \in Public : symbols[k].name # from[n]) => new[k].name = symbols[k].name
  BY <1>5, <1>6, <1>9, Zenon
<1> QED BY <1>8, <1>10, Zenon DEF new

\* ...or makes them local.
LEMMA LocalizeFacts ==
  ASSUME NEW symbols \in Seq(Entry)
  PROVE  LET new == localize_symbol(symbols)
         IN  /\ new \in Seq(Entry) /\ Len(new) = Len(symbols)
             /\ \A k \in 1..Len(symbols) :
                  /\ new[k].name = symbols[k].name /\ new[k].defined = symbols[k].defined
                  /\ new[k].global <=>
                       symbols[k].global /\ \A n \in Public : symbols[k].name # Original[n]
<1> DEFINE entry(k) == [symbols[k] EXCEPT !.global =
                          @ /\ symbols[k].name \notin {Original[n] : n \in Public}]
           new == localize_symbol(symbols)
<1>1. Len(symbols) \in Nat /\ DOMAIN symbols = 1..Len(symbols)
  OBVIOUS
<1>2. \A k \in 1..Len(symbols) : symbols[k] \in Entry
  BY <1>1, ElementOfSeq
<1>3. new = [k \in 1..Len(symbols) |-> entry(k)]
  BY <1>1 DEF localize_symbol
<1>4. ASSUME NEW k \in 1..Len(symbols)
      PROVE  /\ entry(k) \in Entry /\ entry(k).name = symbols[k].name
             /\ entry(k).defined = symbols[k].defined
             /\ entry(k).global <=>
                  symbols[k].global /\ \A n \in Public : symbols[k].name # Original[n]
  <2> DEFINE g == symbols[k].name \notin {Original[n] : n \in Public}
  <2>1. g <=> \A n \in Public : symbols[k].name # Original[n]
    OBVIOUS
  <2>2. g \in BOOLEAN
    OBVIOUS
  <2> HIDE DEF g
  <2>3. ASSUME NEW e \in Entry
        PROVE  LET f == [e EXCEPT !.global = @ /\ g]
               IN  /\ f \in Entry /\ f.name = e.name /\ f.defined = e.defined
                   /\ f.global <=> e.global /\ g
    BY <2>2 DEF Entry
  <2>4. LET f == [symbols[k] EXCEPT !.global = @ /\ g]
        IN  /\ f \in Entry /\ f.name = symbols[k].name /\ f.defined = symbols[k].defined
            /\ f.global <=> symbols[k].global /\ g
    BY <1>2, <2>3
  <2> QED BY <2>1, <2>4 DEF g
<1> HIDE DEF entry
<1>5. new \in [1..Len(symbols) -> Entry]
  BY <1>3, <1>4
<1>6. new \in Seq(Entry) /\ Len(new) = Len(symbols)
  BY <1>1, <1>5, FunctionIsSeq
<1>7. \A k \in 1..Len(symbols) : new[k] = entry(k)
  BY <1>3
<1> HIDE DEF new
<1> QED BY <1>4, <1>6, <1>7, Zenon DEF new

\* The names of wrapped functions, of their wrappers and of the originals are different
\* names; from the names of the wrappers the script knows what was wrapped.
LEMMA NamesDiffer ==
  /\ \A n \in Names : /\ Wrapper[n] \in AllNames /\ Original[n] \in AllNames
                      /\ n \in AllNames /\ n # "main"
                      /\ Wrapper[n] # "main" /\ Original[n] # "main"
  /\ \A m, n \in Names : /\ m # Wrapper[n] /\ m # Original[n]
                         /\ Wrapper[m] # Original[n]
                         /\ Wrapper[m] = Wrapper[n] => m = n
                         /\ Original[m] = Original[n] => m = n
<1>1. /\ DOMAIN Wrapper = Names /\ DOMAIN Original = Names
      /\ IsInjective(Wrapper) /\ IsInjective(Original)
      /\ "main" \notin AllNames
  BY NameAssumption
<1>2. \A n \in Names : Wrapper[n] \in Range(Wrapper) /\ Original[n] \in Range(Original)
  BY <1>1 DEF Range
<1>3. \A n \in Names : Wrapper[n] \in AllNames /\ Original[n] \in AllNames /\ n \in AllNames
  BY <1>2 DEF AllNames
<1>4. \A m, n \in Names : m # Wrapper[n] /\ m # Original[n] /\ Wrapper[m] # Original[n]
  BY <1>2, NameAssumption
<1>5. \A m, n \in Names : /\ Wrapper[m] = Wrapper[n] => m = n
                          /\ Original[m] = Original[n] => m = n
  BY <1>1 DEF IsInjective
<1>6. \A n \in Names : n # "main" /\ Wrapper[n] # "main" /\ Original[n] # "main"
  BY <1>1, <1>3
<1>7. \A m, n \in Names : /\ m # Wrapper[n] /\ m # Original[n]
                          /\ Wrapper[m] # Original[n]
                          /\ Wrapper[m] = Wrapper[n] => m = n
                          /\ Original[m] = Original[n] => m = n
  BY <1>4, <1>5
<1>8. \A n \in Names : /\ Wrapper[n] \in AllNames /\ Original[n] \in AllNames
                       /\ n \in AllNames /\ n # "main"
                       /\ Wrapper[n] # "main" /\ Original[n] # "main"
  BY <1>3, <1>6
<1> QED BY <1>7, <1>8

LEMMA PublicIsWrapped ==
  ASSUME sources \in Inputs, wrapped = FunctionNames, IsLinked
  PROVE  Public = wrapped
<1>1. /\ wrapped \subseteq Names /\ DOMAIN linked = 1..N + W /\ N \in Nat /\ W \in Nat
      /\ \A n \in wrapped : \E i \in 1..W : names[i] = n
      /\ \A i \in 1..W : names[i] \in wrapped
  BY SourceFacts, WrappedFacts, NamesFacts DEF IsLinked
<1>2. ASSUME NEW n \in Names, NEW k \in 1..N + W, linked[k].name = Wrapper[n]
      PROVE  n \in wrapped
  <2>1. k \notin 1..N
    BY <1>2, SourceFacts, NamesDiffer DEF IsLinked
  <2>2. k - N \in 1..W /\ k = N + (k - N)
    BY <2>1, PlaceIsOneOf
  <2>3. linked[k].name = Wrapper[names[k - N]]
    BY <2>2 DEF IsLinked
  <2>4. names[k - N] \in wrapped /\ names[k - N] \in Names
    BY <1>1, <2>2
  <2> QED BY <1>2, <2>3, <2>4, NamesDiffer
<1>3. ASSUME NEW n \in wrapped
      PROVE  n \in Names /\ \E k \in 1..N + W : linked[k].name = Wrapper[n]
  <2>1. PICK i \in 1..W : names[i] = n
    BY <1>1
  <2>2. N + i \in 1..N + W /\ linked[N + i].name = Wrapper[n]
    BY <1>1, <2>1 DEF IsLinked
  <2> QED BY <1>1, <2>2
<1> QED BY <1>1, <1>2, <1>3 DEF Public

\* The three calls together.
LEMMA SwapIsRenaming ==
  ASSUME sources \in Inputs, wrapped = FunctionNames, IsLinked
  PROVE  IsRenamed(swap_names(linked))
<1> DEFINE same == [n \in Names |-> n]
           first == redefine_sym(linked, same, Original)
           second == localize_symbol(first)
           third == redefine_sym(second, Wrapper, same)
<1>1. /\ Public = wrapped /\ wrapped \subseteq Names /\ N \in Nat /\ W \in Nat
      /\ \A i \in 1..W : names[i] \in wrapped /\ names[i] \in Names
      /\ \A i \in 1..W : N + i \in 1..N + W /\ \A k \in 1..N : k \in 1..N + W
      /\ \A k \in 1..N : Symbols[k].name \in Names
  BY SourceFacts, WrappedFacts, NamesFacts, PublicIsWrapped
<1>2. linked \in Seq(Entry) /\ Len(linked) = N + W
  BY DEF IsLinked
<1>3. \A n \in Names : same[n] = n /\ same[n] \in AllNames
  BY NamesDiffer
<1>4. \A n \in Names : Original[n] \in AllNames
  BY NamesDiffer
<1>5. swap_names(linked) = third
  BY DEF swap_names
<1> HIDE DEF same
<1>6. /\ first \in Seq(Entry) /\ Len(first) = Len(linked)
      /\ \A k \in 1..Len(linked) :
           /\ first[k].global = linked[k].global
           /\ first[k].defined = linked[k].defined
           /\ \A n \in Public : linked[k].name = same[n] => first[k].name = Original[n]
           /\ (\A n \in Public : linked[k].name # same[n]) => first[k].name = linked[k].name
  BY <1>2, <1>3, <1>4, RedefineFacts
<1> HIDE DEF first
<1>7. /\ second \in Seq(Entry) /\ Len(second) = Len(first)
      /\ \A k \in 1..Len(first) :
           /\ second[k].name = first[k].name /\ second[k].defined = first[k].defined
           /\ second[k].global <=>
                first[k].global /\ \A n \in Public : first[k].name # Original[n]
  BY <1>6, LocalizeFacts
<1> HIDE DEF second
<1>8. /\ third \in Seq(Entry) /\ Len(third) = Len(second)
      /\ \A k \in 1..Len(second) :
           /\ third[k].global = second[k].global
           /\ third[k].defined = second[k].defined
           /\ \A n \in Public : second[k].name = Wrapper[n] => third[k].name = same[n]
           /\ (\A n \in Public : second[k].name # Wrapper[n])
                => third[k].name = second[k].name
  <2>1. \A m, n \in Names : Wrapper[m] = Wrapper[n] => m = n
    BY NamesDiffer
  <2> QED BY <1>3, <1>7, <2>1, RedefineFacts
<1> HIDE DEF third
<1>9. /\ Len(linked) = N + W /\ Len(first) = N + W /\ Len(second) = N + W
      /\ Len(third) = N + W
  BY <1>2, <1>6, <1>7, <1>8
<1>10. ASSUME NEW k \in 1..N
       PROVE  /\ Symbols[k].name \in wrapped => third[k].name = Original[Symbols[k].name]
              /\ Symbols[k].name \notin wrapped => third[k].name = Symbols[k].name
              /\ third[k].global <=>
                   Symbols[k].kind # "static" /\ Symbols[k].name \notin wrapped
              /\ third[k].defined <=> Symbols[k].kind # "import"
  <2> DEFINE x == Symbols[k].name
  <2>1. k \in 1..N + W /\ x \in Names
    BY <1>1
  <2>2. /\ linked[k].name = x /\ (linked[k].global <=> Symbols[k].kind # "static")
        /\ (linked[k].defined <=> Symbols[k].kind # "import")
    BY DEF IsLinked
  <2> HIDE DEF x
  <2>3. /\ x \in wrapped => first[k].name = Original[x]
        /\ x \notin wrapped => first[k].name = x
    BY <1>1, <1>3, <1>6, <1>9, <2>1, <2>2
  <2>4. (\A n \in Public : first[k].name # Original[n]) <=> x \notin wrapped
    BY <1>1, <2>1, <2>3, NamesDiffer
  <2>5. \A n \in Public : second[k].name # Wrapper[n]
    BY <1>1, <1>7, <1>9, <2>1, <2>3, NamesDiffer
  <2>6. /\ first[k].global = linked[k].global /\ first[k].defined = linked[k].defined
        /\ second[k].name = first[k].name /\ second[k].defined = first[k].defined
        /\ second[k].global <=>
             first[k].global /\ \A n \in Public : first[k].name # Original[n]
        /\ third[k].global = second[k].global /\ third[k].defined = second[k].defined
        /\ third[k].name = second[k].name
    BY <1>6, <1>7, <1>8, <1>9, <2>1, <2>5, Zenon
  <2>7. /\ third[k].global <=> Symbols[k].kind # "static" /\ x \notin wrapped
        /\ third[k].defined <=> Symbols[k].kind # "import"
    BY <2>2, <2>4, <2>6, Zenon
  <2> QED BY <2>3, <2>6, <2>7, Zenon DEF x
<1>11. ASSUME NEW i \in 1..W
       PROVE  third[N + i].name = names[i] /\ third[N + i].global /\ third[N + i].defined
  <2> DEFINE k == N + i
             n == names[i]
  <2>1. k \in 1..N + W /\ n \in Names /\ n \in Public
    BY <1>1
  <2>2. linked[k].name = Wrapper[n] /\ linked[k].global /\ linked[k].defined
    BY DEF IsLinked
  <2> HIDE DEF k, n
  <2>3. first[k].name = Wrapper[n] /\ first[k].global /\ first[k].defined
    <3>1. \A m \in Public : linked[k].name # same[m]
      BY <1>1, <1>3, <2>1, <2>2, NamesDiffer
    <3> QED BY <1>6, <1>9, <2>1, <2>2, <3>1, Zenon
  <2>4. second[k].name = Wrapper[n] /\ second[k].global /\ second[k].defined
    <3>1. \A m \in Public : first[k].name # Original[m]
      BY <1>1, <2>1, <2>3, NamesDiffer
    <3> QED BY <1>7, <1>9, <2>1, <2>3, <3>1, Zenon
  <2>5. third[k].name = same[n] /\ third[k].global /\ third[k].defined
    BY <1>8, <1>9, <2>1, <2>4, Zenon
  <2> QED BY <1>3, <2>1, <2>5 DEF k, n
<1> QED BY <1>5, <1>8, <1>9, <1>10, <1>11 DEF IsRenamed
-----------------------------------------------------------------------------
(***************************************************************************)
(* The order of the symbol table.                                          *)
(***************************************************************************)

\* LotRelocation and its proofs, instantiated side by side, speak of the same things.
LEMMA SameNth == \A S, k : Lot!Nth(S, k) = LotP!Nth(S, k)
BY DEF Lot!Nth, LotP!Nth, Lot!Cardinality, LotP!Cardinality

LEMMA SameSets ==
  \A S : (LotP!IsFiniteSet(S) <=> IsFiniteSet(S)) /\ LotP!Cardinality(S) = Cardinality(S)
BY DEF LotP!IsFiniteSet, IsFiniteSet, LotP!Cardinality, Cardinality

in_order(S) == [i \in 1..Cardinality(S) |-> Lot!Nth(S, i)]

LEMMA InOrderFacts ==
  ASSUME NEW S \in SUBSET Nat, IsFiniteSet(S)
  PROVE  /\ in_order(S) \in Seq(S) /\ Len(in_order(S)) = Cardinality(S)
         /\ Cardinality(S) \in Nat
         /\ \A x \in S : \E i \in 1..Cardinality(S) : in_order(S)[i] = x
         /\ \A i, j \in 1..Cardinality(S) : i < j => in_order(S)[i] < in_order(S)[j]
<1> DEFINE n == Cardinality(S)
           nth(i) == LotP!Nth(S, i)
           rank(x) == LotP!Rank(S, x)
<1>1. in_order(S) = [i \in 1..n |-> nth(i)]
  BY SameNth DEF in_order
<1>2. LotP!IsFiniteSet(S) /\ LotP!Cardinality(S) = n
  BY SameSets
<1>3. /\ n \in Nat
      /\ \A x \in S : rank(x) \in 1..n /\ nth(rank(x)) = x
      /\ \A k \in 1..n : nth(k) \in S
  <2>1. /\ LotP!Cardinality(S) \in Nat
        /\ \A x \in S : /\ LotP!Rank(S, x) \in 1..LotP!Cardinality(S)
                       /\ LotP!Nth(S, LotP!Rank(S, x)) = x
        /\ \A k \in 1..LotP!Cardinality(S) : LotP!Nth(S, k) \in S
    BY <1>2, LotBounds, LotP!Numbering, Zenon
  <2> QED BY <1>2, <2>1
<1>4. \A i, j \in 1..n : i < j => nth(i) < nth(j)
  <2>1. \A i, j \in 1..LotP!Cardinality(S) : i < j => LotP!Nth(S, i) < LotP!Nth(S, j)
    BY <1>2, LotBounds, LotP!NthAscends, Zenon
  <2> QED BY <1>2, <2>1
<1> HIDE DEF n, nth, rank
<1>5. in_order(S) \in [1..n -> S] /\ \A i \in 1..n : in_order(S)[i] = nth(i)
  BY <1>1, <1>3
<1>6. in_order(S) \in Seq(S) /\ Len(in_order(S)) = n
  BY <1>3, <1>5, FunctionIsSeq
<1>7. \A x \in S : \E i \in 1..n : in_order(S)[i] = x
  BY <1>3, <1>5
<1>8. \A i, j \in 1..n : i < j => in_order(S)[i] < in_order(S)[j]
  BY <1>4, <1>5
<1> QED BY <1>3, <1>6, <1>7, <1>8 DEF n

LEMMA LinkIsPlaced ==
  ASSUME sources \in Inputs, wrapped = FunctionNames, UNCHANGED <<sources, wrapped>>, link
  PROVE  IsPlaced'
<1> DEFINE n == N + W
           s == Cardinality({k \in DOMAIN Symbols : Symbols[k].kind = "static"})
<1>1. N \in Nat /\ W \in Nat /\ n \in Nat /\ n - W = N
  BY SourceFacts, WrappedFacts
<1>2. n = Len(Symbols) + Len(Wrappers) /\ DOMAIN Wrappers = 1..W
  BY WrappersFacts DEF N
<1>3. s \in Nat
  <2>1. IsFiniteSet(1..N)
    BY FS_Interval, <1>1
  <2>2. {k \in DOMAIN Symbols : Symbols[k].kind = "static"} \in SUBSET (1..N)
    BY SourceFacts
  <2> QED BY <2>1, <2>2, FS_Subset, FS_CardinalityType
<1>4. PICK at \in Injection(1..W, s + 1..n) :
        order' = [i \in 1..n |->
                    IF i \in Range(at) THEN Len(Symbols) + CHOOSE k \in DOMAIN at : at[k] = i
                    ELSE Cardinality((1..i) \ Range(at))]
  BY <1>2 DEF link, Orders
<1> DEFINE Free == (1..n) \ Range(at)
           pos(i) == CHOOSE k \in DOMAIN at : at[k] = i
           rank(i) == LotP!Rank(Free, i)
<1> HIDE DEF n, s
<1>5. /\ at \in [1..W -> 1..n] /\ DOMAIN at = 1..W
      /\ \A k \in 1..W : at[k] \in 1..n /\ at[k] \in Range(at)
      /\ \A j, k \in 1..W : at[j] = at[k] => j = k
      /\ Range(at) \subseteq 1..n
  <2>1. at \in [1..W -> s + 1..n] /\ \A j, k \in 1..W : at[j] = at[k] => j = k
    BY <1>4 DEF Injection, IsInjective
  <2>2. \A i \in s + 1..n : i \in 1..n
    BY <1>1, <1>3
  <2> QED BY <2>1, <2>2 DEF Range
<1>6. \A i \in Range(at) : pos(i) \in 1..W /\ at[pos(i)] = i
  BY <1>5 DEF Range
<1>7. \A k \in 1..W : pos(at[k]) = k
  BY <1>5
<1>8. IsFiniteSet(Free) /\ Cardinality(Free) = N
  <2>1. IsFiniteSet(1..n) /\ Cardinality(1..n) = n /\ IsFiniteSet(1..W) /\ Cardinality(1..W) = W
    BY <1>1, FS_Interval
  <2>2. at \in Injection(1..W, Range(at)) /\ at \in Surjection(1..W, Range(at))
    BY <1>5 DEF Injection, Surjection, IsInjective, Range
  <2>3. Cardinality(Range(at)) = W
    <3>1. at \in Surjection(1..W, Range(at)) /\ at \in Injection(1..W, Range(at))
      BY <2>2
    <3>2. IsFiniteSet(Range(at)) /\ Cardinality(Range(at)) <= W
          /\ (Cardinality(Range(at)) = W <=> at \in Injection(1..W, Range(at)))
      BY <2>1, <3>1, FS_Surjection
    <3> QED BY <3>1, <3>2
  <2>4. (1..n) \cap Range(at) = Range(at)
    BY <1>5
  <2>5. IsFiniteSet(Free) /\ Cardinality(Free) = n - Cardinality((1..n) \cap Range(at))
    BY <2>1, FS_Difference
  <2> QED BY <1>1, <2>3, <2>4, <2>5
<1>9. \A i \in 1..n : Cardinality((1..i) \ Range(at)) = rank(i)
  <2>1. ASSUME NEW i \in 1..n PROVE (1..i) \ Range(at) = {t \in Free : t <= i}
    BY <1>1
  <2> QED BY <2>1, SameSets DEF LotP!Rank
<1>10. /\ \A i \in Free : rank(i) \in 1..N /\ LotP!Nth(Free, rank(i)) = i
       /\ \A k \in 1..N : LotP!Nth(Free, k) \in Free /\ rank(LotP!Nth(Free, k)) = k
  <2>1. Free \in SUBSET Nat /\ LotP!IsFiniteSet(Free) /\ LotP!Cardinality(Free) = N
    BY <1>1, <1>8, SameSets
  <2>2. /\ \A x \in Free : /\ LotP!Rank(Free, x) \in 1..LotP!Cardinality(Free)
                           /\ LotP!Nth(Free, LotP!Rank(Free, x)) = x
        /\ \A k \in 1..LotP!Cardinality(Free) :
             LotP!Nth(Free, k) \in Free /\ LotP!Rank(Free, LotP!Nth(Free, k)) = k
    BY <2>1, LotBounds, LotP!Numbering, Zenon
  <2> QED BY <2>1, <2>2
<1>11. \A i \in 1..n : i \in Free \/ i \in Range(at)
  OBVIOUS
<1>12. \A i \in Free : i \in 1..n /\ i \notin Range(at)
  OBVIOUS
<1>13. order' = [i \in 1..n |-> IF i \in Range(at) THEN N + pos(i) ELSE rank(i)]
  <2> DEFINE written(i) == IF i \in Range(at) THEN Len(Symbols) + pos(i)
                           ELSE Cardinality((1..i) \ Range(at))
             place(i) == IF i \in Range(at) THEN N + pos(i) ELSE rank(i)
  <2>1. order' = [i \in 1..n |-> written(i)]
    BY <1>4
  <2> HIDE DEF pos, rank, Free
  <2>2. \A i \in 1..n : written(i) = place(i)
    BY <1>9 DEF N
  <2> HIDE DEF written, place
  <2>3. order' = [i \in 1..n |-> place(i)]
    BY <2>1, <2>2
  <2> QED BY <2>3 DEF place
<1> HIDE DEF Free, pos, rank
<1>14. /\ \A i \in Range(at) : order'[i] = N + pos(i)
       /\ \A i \in Free : order'[i] = rank(i)
  BY <1>5, <1>12, <1>13
<1>15. \A i \in 1..n : IF i \in Range(at) THEN N + pos(i) \in N + 1..n ELSE rank(i) \in 1..N
  BY <1>1, <1>6, <1>10, <1>11 DEF n
<1>16. order' \in [1..n -> 1..n]
  <2>1. \A i \in 1..n : (IF i \in Range(at) THEN N + pos(i) ELSE rank(i)) \in 1..n
    BY <1>1, <1>15 DEF n
  <2> QED BY <1>13, <2>1
<1>17. ASSUME NEW k \in 1..n PROVE \E i \in 1..n : order'[i] = k
  <2>1. CASE k \in 1..N
    BY <1>10, <1>12, <1>14, <2>1
  <2>2. CASE k \notin 1..N
    <3>1. k - N \in 1..W /\ N + (k - N) = k
      BY <1>1, <2>2 DEF n
    <3>2. order'[at[k - N]] = k
      BY <1>5, <1>7, <1>14, <3>1
    <3> QED BY <1>5, <3>1, <3>2
  <2> QED BY <2>1, <2>2
<1>18. ASSUME NEW i \in 1..n, NEW j \in 1..n, order'[i] = order'[j] PROVE i = j
  <2>1. CASE i \in Free /\ j \in Free
    BY <1>10, <1>14, <1>18, <2>1
  <2>2. CASE i \in Range(at) /\ j \in Range(at)
    <3>1. N + pos(i) = N + pos(j) /\ pos(i) \in Nat /\ pos(j) \in Nat
      BY <1>6, <1>14, <1>18, <2>2
    <3>2. pos(i) = pos(j)
      BY <1>1, <3>1
    <3> QED BY <1>6, <2>2, <3>2
  <2>3. \A x \in Free, y \in Range(at) : order'[x] # order'[y]
    BY <1>1, <1>6, <1>10, <1>14
  <2> QED BY <1>11, <1>18, <2>1, <2>2, <2>3
<1>19. N' = N /\ W' = W
  BY DEF N, W, Symbols
<1> QED BY <1>16, <1>17, <1>18, <1>19 DEF IsPlaced, IsOrderOf, n

\* objcopy keeps the symbols of some places, each once.
LEMMA KeptFacts ==
  ASSUME NEW n \in Nat, IsOrderOf(n), NEW P \in SUBSET (1..n)
  PROVE  LET c == Cardinality({i \in 1..n : order[i] \in P})
         IN  /\ kept(P) \in Seq(P) /\ Len(kept(P)) = c /\ c \in Nat
             /\ \A x \in P : \E i \in 1..c : kept(P)[i] = x
             /\ \A i, j \in 1..c : kept(P)[i] = kept(P)[j] => i = j
<1> DEFINE at == {i \in 1..n : order[i] \in P}
           c == Cardinality(at)
           f == in_order(at)
           k == kept(P)
<1>1. at \in SUBSET (1..n) /\ at \in SUBSET Nat /\ IsFiniteSet(at)
  <2>1. IsFiniteSet(1..n) /\ at \in SUBSET (1..n)
    BY FS_Interval
  <2> QED BY <2>1, FS_Subset
<1>2. /\ f \in Seq(at) /\ Len(f) = c /\ c \in Nat
      /\ \A x \in at : \E i \in 1..c : f[i] = x
      /\ \A i, j \in 1..c : i < j => f[i] < f[j]
  BY <1>1, InOrderFacts
<1>3. k = [i \in 1..c |-> order[f[i]]]
  <2>1. DOMAIN order = 1..n
    BY DEF IsOrderOf
  <2>2. \A i \in 1..c : f[i] = Lot!Nth(at, i)
    BY DEF in_order
  <2>3. k = [i \in 1..c |-> order[Lot!Nth(at, i)]]
    BY <2>1 DEF kept
  <2> HIDE DEF at, c, f, k
  <2> QED BY <2>2, <2>3
<1>4. \A i \in 1..c : f[i] \in at
  <2>1. DOMAIN f = 1..c
    <3> HIDE DEF f, c, at
    <3> QED BY <1>2
  <2> HIDE DEF f, c, at
  <2> QED BY <1>2, <2>1, ElementOfSeq
<1>5. \A i \in 1..c : f[i] \in 1..n /\ f[i] \in Nat /\ order[f[i]] \in P
  BY <1>4
<1>6. \A x \in P : \E i \in at : order[i] = x
  BY DEF IsOrderOf
<1> HIDE DEF at, c, f, k
<1>7. k \in Seq(P) /\ Len(k) = c
  <2>1. k \in [1..c -> P]
    BY <1>3, <1>5
  <2> QED BY <1>2, <2>1, FunctionIsSeq
<1>8. \A x \in P : \E i \in 1..c : k[i] = x
  BY <1>2, <1>3, <1>6
<1>9. ASSUME NEW i \in 1..c, NEW j \in 1..c, k[i] = k[j] PROVE i = j
  <2>1. f[i] = f[j]
    BY <1>3, <1>5, <1>9 DEF IsOrderOf
  <2>2. ~(i < j) /\ ~(j < i)
    BY <1>2, <1>5, <2>1
  <2> QED BY <1>2, <2>2
<1> QED BY <1>2, <1>7, <1>8, <1>9 DEF c, at, k

\* Places that are not in G, then those that are.
LEMMA OrderFacts ==
  ASSUME NEW n \in Nat, IsOrderOf(n), NEW G \in SUBSET (1..n)
  PROVE  LET o == kept((1..n) \ G) \o kept(G)
         IN  /\ o \in Seq(1..n) /\ Len(o) = n
             /\ \A k \in 1..n : \E i \in 1..n : o[i] = k
             /\ \A i, j \in 1..n : o[i] = o[j] => i = j
             /\ \A i, j \in 1..n : i < j /\ o[i] \in G => o[j] \in G
<1> DEFINE L == (1..n) \ G
           p == Cardinality({i \in 1..n : order[i] \in L})
           q == Cardinality({i \in 1..n : order[i] \in G})
           a == kept(L)
           b == kept(G)
           o == a \o b
<1>1. L \in SUBSET (1..n)
  OBVIOUS
<1>2. /\ a \in Seq(L) /\ Len(a) = p /\ p \in Nat
      /\ \A x \in L : \E i \in 1..p : a[i] = x
      /\ \A i, j \in 1..p : a[i] = a[j] => i = j
  BY <1>1, KeptFacts
<1>3. /\ b \in Seq(G) /\ Len(b) = q /\ q \in Nat
      /\ \A x \in G : \E i \in 1..q : b[i] = x
      /\ \A i, j \in 1..q : b[i] = b[j] => i = j
  BY KeptFacts
<1>4. p + q = n
  <2> DEFINE at == {i \in 1..n : order[i] \in G}
  <2>1. IsFiniteSet(1..n) /\ Cardinality(1..n) = n
    BY FS_Interval
  <2>2. (1..n) \cap at = at /\ {i \in 1..n : order[i] \in L} = (1..n) \ at
    BY DEF IsOrderOf
  <2>3. Cardinality((1..n) \ at) = n - Cardinality((1..n) \cap at)
    BY <2>1, FS_Difference
  <2>4. p = n - q
    BY <2>2, <2>3
  <2> HIDE DEF p, q
  <2> QED BY <1>2, <1>3, <2>4
<1>5. /\ \A i \in 1..p : a[i] \in L /\ a[i] \notin G
      /\ \A i \in 1..q : b[i] \in G
  <2>1. \A i \in DOMAIN a : a[i] \in L
    BY <1>2, ElementOfSeq
  <2>2. \A i \in DOMAIN b : b[i] \in G
    BY <1>3, ElementOfSeq
  <2>3. DOMAIN a = 1..p /\ DOMAIN b = 1..q
    <3> HIDE DEF a, b, L, p, q
    <3> QED BY <1>2, <1>3
  <2>4. \A x \in L : x \notin G
    OBVIOUS
  <2> HIDE DEF a, b, L, p, q
  <2> QED BY <2>1, <2>2, <2>3, <2>4
<1>6. a \in Seq(1..n) /\ b \in Seq(1..n)
  <2>1. L \subseteq 1..n /\ G \subseteq 1..n
    OBVIOUS
  <2> HIDE DEF a, b, L
  <2> QED BY <1>2, <1>3, <2>1, WiderSeq
<1> HIDE DEF a, b, p, q
<1>7. /\ o \in Seq(1..n) /\ Len(o) = p + q
      /\ \A i \in 1..p : o[i] = a[i]
      /\ \A i \in 1..q : o[i + p] = b[i]
  <2>1. /\ o \in Seq(1..n) /\ Len(o) = Len(a) + Len(b)
        /\ \A i \in 1..Len(a) : o[i] = a[i]
        /\ \A i \in 1..Len(b) : o[i + Len(a)] = b[i]
    BY ONLY <1>6, ConcatFacts
  <2> QED BY <1>2, <1>3, <2>1
<1> HIDE DEF o
<1>8. \A i \in 1..n : \/ i \in 1..p /\ o[i] = a[i] /\ o[i] \notin G
                     \/ /\ i > p /\ i - p \in 1..q /\ o[i] = b[i - p] /\ o[i] \in G
  <2>1. \A i \in 1..n : i \in 1..p \/ (i > p /\ i - p \in 1..q /\ i = (i - p) + p)
    BY <1>2, <1>3, <1>4
  <2> QED BY <1>5, <1>7, <2>1
<1>9. ASSUME NEW i \in 1..n, NEW j \in 1..n, i < j, o[i] \in G PROVE o[j] \in G
  <2>1. i > p
    BY <1>8, <1>9
  <2>2. ~(j \in 1..p)
    BY <1>2, <1>9, <2>1
  <2> QED BY <1>8, <2>2
<1>10. ASSUME NEW i \in 1..n, NEW j \in 1..n, o[i] = o[j] PROVE i = j
  <2>1. CASE o[i] \in G
    <3>1. /\ i - p \in 1..q /\ o[i] = b[i - p] /\ j - p \in 1..q /\ o[j] = b[j - p]
      BY <1>8, <1>10, <2>1
    <3>2. i - p = j - p
      BY <1>3, <1>10, <3>1
    <3> QED BY <1>2, <3>2
  <2>2. CASE o[i] \notin G
    <3>1. i \in 1..p /\ o[i] = a[i] /\ j \in 1..p /\ o[j] = a[j]
      BY <1>8, <1>10, <2>2
    <3> QED BY <1>2, <1>10, <3>1
  <2> QED BY <2>1, <2>2
<1>11. \A k \in 1..n : \E i \in 1..n : o[i] = k
  <2>1. ASSUME NEW k \in L PROVE \E i \in 1..n : o[i] = k
    <3>1. PICK i \in 1..p : a[i] = k
      BY <1>2
    <3>2. i \in 1..n
      BY <1>2, <1>3, <1>4
    <3> QED BY <1>7, <3>1, <3>2
  <2>2. ASSUME NEW k \in G PROVE \E i \in 1..n : o[i] = k
    <3>1. PICK i \in 1..q : b[i] = k
      BY <1>3
    <3>2. i + p \in 1..n
      BY <1>2, <1>3, <1>4
    <3> QED BY <1>7, <3>1, <3>2
  <2> QED BY <2>1, <2>2
<1>12. Len(o) = n
  BY <1>4, <1>7
<1> QED BY <1>7, <1>9, <1>10, <1>11, <1>12 DEF o, a, b

\* The symbol table of the ELF file: each place once, locals before globals.
IsOrdered ==
  /\ order \in Seq(1..N + W) /\ Len(order) = N + W
  /\ \A k \in 1..N + W : \E i \in 1..N + W : order[i] = k
  /\ \A i, j \in 1..N + W : order[i] = order[j] => i = j
  /\ \A i, j \in 1..N + W :
       i < j /\ linked[order[i]].global => linked[order[j]].global

\* Its symbols and references are those of the linked library.
IsElf ==
  /\ elf \in [executable : BOOLEAN, main_is_entry : BOOLEAN,
              symbols : Seq(Entry), references : Seq(1..N + W)]
  /\ ~elf.executable /\ ~elf.main_is_entry
  /\ Len(elf.symbols) = N + W /\ Len(elf.references) = R + W
  /\ \A i \in 1..N + W : elf.symbols[i] = linked[order[i]]
  /\ \A r \in 1..R + W :
       elf.references[r] \in 1..N + W /\ order[elf.references[r]] = References[r]

LEMMA StateStays ==
  ASSUME UNCHANGED <<sources, wrapped>>
  PROVE  /\ N' = N /\ W' = W /\ R' = R /\ names' = names /\ Symbols' = Symbols
         /\ FunctionNames' = FunctionNames /\ Wrappers' = Wrappers
         /\ References' = References
         /\ \A k : IsWrapper(k)' <=> IsWrapper(k)
<1>1. /\ N' = N /\ W' = W /\ R' = R /\ names' = names /\ Symbols' = Symbols
  BY DEF N, W, R, names, Symbols
<1>2. FunctionNames' = FunctionNames
  BY <1>1 DEF FunctionNames
<1>3. \A n : wrapper_of(n)' = wrapper_of(n)
  BY <1>1 DEF wrapper_of
<1>4. Wrappers' = Wrappers
  BY <1>3 DEF Wrappers
<1>5. References' = References
  BY <1>4 DEF References
<1> QED BY <1>1, <1>2, <1>4, <1>5 DEF IsWrapper

LEMMA FixMakesElf ==
  ASSUME sources \in Inputs, wrapped = FunctionNames, IsLinked, IsPlaced, fix_names
  PROVE  IsRenamed(linked)' /\ IsOrdered' /\ IsElf'
<1> DEFINE M == N + W
           G == {k \in 1..M : linked'[k].global}
<1>1. /\ M \in Nat /\ N \in Nat /\ W \in Nat /\ R + W \in Nat /\ DOMAIN linked = 1..M
      /\ Len(linked) = M
  BY SourceFacts, WrappedFacts, ReferencesFacts DEF IsLinked
<1>2. linked' = swap_names(linked) /\ IsRenamed(linked')
  BY SwapIsRenaming DEF fix_names
<1>3. linked' \in Seq(Entry) /\ Len(linked') = M
  BY <1>2 DEF IsRenamed
<1>4. order' = kept((1..M) \ G) \o kept(G)
  BY <1>1 DEF fix_names
<1>5. G \in SUBSET (1..M)
  OBVIOUS
<1>6. \A k \in 1..M : k \in G <=> linked'[k].global
  OBVIOUS
<1>0. IsOrderOf(M)
  BY DEF IsPlaced
<1> HIDE DEF M, G
<1>7. /\ order' \in Seq(1..M) /\ Len(order') = M
      /\ \A k \in 1..M : \E i \in 1..M : order'[i] = k
      /\ \A i, j \in 1..M : order'[i] = order'[j] => i = j
      /\ \A i, j \in 1..M : i < j /\ order'[i] \in G => order'[j] \in G
  <2>1. LET o == kept((1..M) \ G) \o kept(G)
        IN  /\ o \in Seq(1..M) /\ Len(o) = M
            /\ \A k \in 1..M : \E i \in 1..M : o[i] = k
            /\ \A i, j \in 1..M : o[i] = o[j] => i = j
            /\ \A i, j \in 1..M : i < j /\ o[i] \in G => o[j] \in G
    BY <1>0, <1>1, <1>5, OrderFacts, Zenon
  <2> QED BY <1>4, <2>1, Zenon
<1>8. DOMAIN order' = 1..M /\ \A i \in 1..M : order'[i] \in 1..M
  <2>1. order' \in Seq(1..M) /\ Len(order') = M
    BY <1>7, Zenon
  <2>2. DOMAIN order' = 1..M
    BY <2>1
  <2> QED BY <2>1, <2>2, ElementOfSeq
<1>9. \A i, j \in 1..M : i < j /\ linked'[order'[i]].global => linked'[order'[j]].global
  BY <1>6, <1>7, <1>8
<1> DEFINE symbols == [i \in DOMAIN order' |-> linked'[order'[i]]]
           reference(r) == CHOOSE i \in DOMAIN order' : order'[i] = References[r]
           references == [r \in DOMAIN References |-> reference(r)]
<1>10. elf' = [executable |-> FALSE, main_is_entry |-> FALSE,
               symbols |-> symbols, references |-> references]
  BY DEF fix_names
<1>11. /\ symbols \in Seq(Entry) /\ Len(symbols) = M
       /\ \A i \in 1..M : symbols[i] = linked'[order'[i]]
  <2>1. \A i \in 1..M : linked'[order'[i]] \in Entry
    BY <1>1, <1>3, <1>8, ElementOfSeq
  <2>2. symbols \in [1..M -> Entry]
    BY <1>8, <2>1
  <2>3. \A i \in 1..M : symbols[i] = linked'[order'[i]]
    BY <1>8
  <2> HIDE DEF symbols
  <2> QED BY <1>1, <2>2, <2>3, FunctionIsSeq
<1>12. \A r \in 1..R + W : reference(r) \in 1..M /\ order'[reference(r)] = References[r]
  <2>1. \A r \in 1..R + W : References[r] \in 1..M
    BY <1>1, ReferencesFacts DEF M
  <2> QED BY <1>7, <1>8, <2>1
<1> HIDE DEF reference
<1>13. /\ references \in Seq(1..M) /\ Len(references) = R + W
       /\ \A r \in 1..R + W : references[r] \in 1..M /\ order'[references[r]] = References[r]
  <2>1. references \in [1..R + W -> 1..M]
    BY <1>12, ReferencesFacts
  <2>2. \A r \in 1..R + W : references[r] = reference(r)
    BY ReferencesFacts
  <2> HIDE DEF references
  <2> QED BY <1>1, <1>12, <2>1, <2>2, FunctionIsSeq
<1> HIDE DEF symbols, references
<1>14. /\ elf' \in [executable : BOOLEAN, main_is_entry : BOOLEAN,
                    symbols : Seq(Entry), references : Seq(1..M)]
       /\ ~elf'.executable /\ ~elf'.main_is_entry
       /\ elf'.symbols = symbols /\ elf'.references = references
  BY <1>10, <1>11, <1>13
<1>15. UNCHANGED <<sources, wrapped>>
  BY DEF fix_names
<1>16. /\ N' = N /\ W' = W /\ R' = R /\ names' = names /\ Symbols' = Symbols
       /\ References' = References
  BY <1>15, StateStays
<1>17. IsRenamed(linked)'
  BY <1>2, <1>15, <1>16 DEF IsRenamed
<1>18. IsOrdered'
  BY <1>7, <1>9, <1>16 DEF IsOrdered, M
<1>19. IsElf'
  BY <1>11, <1>13, <1>14, <1>16 DEF IsElf, M
<1> QED BY <1>17, <1>18, <1>19
-----------------------------------------------------------------------------
(***************************************************************************)
(* The renamed library is a file that LotRelocation takes.                 *)
(***************************************************************************)

\* What the invariants need to know of the library at mkimage.
Built ==
  /\ sources \in Inputs /\ wrapped = FunctionNames
  /\ IsRenamed(linked) /\ IsOrdered /\ IsElf

\* After the renaming each name has at most one global symbol, and local ones are
\* defined.
LEMMA LinkedFacts ==
  ASSUME sources \in Inputs, wrapped = FunctionNames, IsRenamed(linked)
  PROVE  /\ N + W \in Nat /\ DOMAIN linked = 1..N + W
         /\ \A k \in 1..N + W :
              /\ linked[k] \in Entry /\ linked[k].name # "main"
              /\ ~linked[k].global => linked[k].defined
         /\ \A j, k \in 1..N + W :
              linked[j].global /\ linked[k].global /\ linked[j].name = linked[k].name
                => j = k
<1>1. /\ N \in Nat /\ W \in Nat /\ N + W \in Nat /\ DOMAIN linked = 1..N + W
      /\ wrapped \subseteq Names /\ \A k \in 1..N : Symbols[k].name \in Names
      /\ \A i \in 1..W : names[i] \in wrapped /\ names[i] \in Names
  BY SourceFacts, WrappedFacts, NamesFacts DEF IsRenamed
<1>2. \A k \in 1..N + W : linked[k] \in Entry
  BY <1>1, ElementOfSeq DEF IsRenamed
<1>3. \A k \in 1..N + W : linked[k].name # "main"
  <2>1. \A e \in Entry : e.name # "main"
    BY NameAssumption DEF Entry
  <2> QED BY <1>2, <2>1
<1>4. ASSUME NEW k \in 1..N + W, ~linked[k].global PROVE linked[k].defined
  <2>1. k \in 1..N
    BY <1>4, PlaceIsOneOf DEF IsRenamed
  <2>2. Symbols[k].kind = "static" \/ Symbols[k].name \in wrapped
    BY <1>4, <2>1 DEF IsRenamed
  <2>3. Symbols[k].kind # "import"
    BY <2>1, <2>2, WrappedFacts
  <2> QED BY <2>1, <2>3 DEF IsRenamed
<1>5. ASSUME NEW j \in 1..N + W, NEW k \in 1..N + W,
             linked[j].global, linked[k].global, linked[j].name = linked[k].name
      PROVE  j = k
  <2>1. \A p \in 1..N : linked[p].global =>
          /\ Symbols[p].kind # "static" /\ linked[p].name = Symbols[p].name
          /\ linked[p].name \notin wrapped
    BY DEF IsRenamed
  <2>2. \A i \in 1..W : linked[N + i].name = names[i] /\ linked[N + i].name \in wrapped
    BY <1>1 DEF IsRenamed
  <2>3. CASE j \in 1..N /\ k \in 1..N
    BY <1>5, <2>1, <2>3, SourceFacts
  <2>4. CASE j \notin 1..N /\ k \notin 1..N
    <3>1. /\ j - N \in 1..W /\ j = N + (j - N)
          /\ k - N \in 1..W /\ k = N + (k - N)
      BY <2>4, PlaceIsOneOf
    <3>2. names[j - N] = names[k - N]
      BY <1>5, <2>2, <3>1
    <3>3. j - N = k - N
      BY <3>1, <3>2, NamesFacts, WrappedFacts
    <3> QED BY <3>1, <3>3
  <2>5. \A p \in 1..N + W : p \notin 1..N => linked[p].name \in wrapped
    BY <2>2, PlaceIsOneOf
  <2> QED BY <1>5, <2>1, <2>3, <2>4, <2>5
<1> QED BY <1>1, <1>2, <1>3, <1>4, <1>5

LEMMA ElfFacts ==
  ASSUME Built
  PROVE  /\ N + W \in Nat /\ R + W \in Nat
         /\ DOMAIN elf.symbols = 1..N + W /\ DOMAIN elf.references = 1..R + W
         /\ DOMAIN order = 1..N + W /\ DOMAIN linked = 1..N + W
         /\ \A i \in 1..N + W : /\ order[i] \in 1..N + W /\ elf.symbols[i] \in Entry
                               /\ elf.symbols[i] = linked[order[i]]
         /\ \A i, j \in 1..N + W : order[i] = order[j] => i = j
<1>1. /\ N + W \in Nat /\ DOMAIN linked = 1..N + W
      /\ \A k \in 1..N + W : linked[k] \in Entry
  BY LinkedFacts DEF Built
<1>2. R + W \in Nat
  BY ReferencesFacts DEF Built
<1>3. order \in Seq(1..N + W) /\ Len(order) = N + W
  BY DEF Built, IsOrdered
<1>4. DOMAIN order = 1..N + W
  BY <1>3
<1>5. \A i \in 1..N + W : order[i] \in 1..N + W
  BY <1>3, <1>4, ElementOfSeq
<1>6. DOMAIN elf.symbols = 1..N + W /\ DOMAIN elf.references = 1..R + W
  <2>1. elf.symbols \in Seq(Entry) /\ elf.references \in Seq(1..N + W)
    BY DEF Built, IsElf
  <2>2. Len(elf.symbols) = N + W /\ Len(elf.references) = R + W
    BY DEF Built, IsElf
  <2> QED BY <2>1, <2>2
<1>7. \A i \in 1..N + W : elf.symbols[i] = linked[order[i]]
  BY DEF Built, IsElf
<1>8. \A i, j \in 1..N + W : order[i] = order[j] => i = j
  BY DEF Built, IsOrdered
<1> QED BY <1>1, <1>2, <1>4, <1>5, <1>6, <1>7, <1>8

LEMMA ElfIsWellFormed ==
  ASSUME Built
  PROVE  LotP!WellFormed(elf) /\ elf \in LotP!Inputs
<1>1. LotP!WellFormed(elf)
  <2>1. ASSUME NEW s \in 1..N + W
        PROVE  /\ elf.symbols[s].name # "main"
               /\ ~elf.symbols[s].global => elf.symbols[s].defined
    BY ElfFacts, LinkedFacts DEF Built
  <2>2. ASSUME NEW s \in 1..N + W, NEW t \in s..N + W, elf.symbols[s].global
        PROVE  elf.symbols[t].global
    <3>1. t \in 1..N + W /\ (s = t \/ s < t)
      BY ElfFacts
    <3> QED BY <2>2, <3>1, ElfFacts DEF Built, IsOrdered
  <2>3. ASSUME NEW s \in 1..N + W, NEW t \in 1..N + W,
               elf.symbols[s].name = elf.symbols[t].name,
               elf.symbols[s].global, elf.symbols[t].global
        PROVE  s = t
    <3>1. order[s] = order[t]
      BY <2>3, ElfFacts, LinkedFacts DEF Built
    <3> QED BY <3>1, ElfFacts
  <2>4. Len(elf.symbols) = N + W /\ DOMAIN elf.symbols = 1..N + W
    BY ElfFacts DEF Built, IsElf
  <2> QED BY <2>1, <2>2, <2>3, <2>4 DEF LotP!WellFormed
<1>2. elf \in LotP!Inputs
  <2>1. /\ N \in 1..MaxSymbols /\ W \in 0..N /\ R \in 0..MaxReferences
        /\ MaxSymbols \in Nat /\ MaxReferences \in Nat
    BY SourceFacts, WrappedFacts, NameAssumption DEF Built
  <2>2. /\ N + W \in 1..2 * MaxSymbols /\ R + W \in 0..MaxReferences + MaxSymbols
        /\ \A i \in 1..N + W : i \in 1..2 * MaxSymbols
    BY <2>1
  <2>3. elf \in [executable : BOOLEAN, main_is_entry : BOOLEAN,
                symbols : Seq(Entry), references : Seq(1..N + W)]
    BY DEF Built, IsElf
  <2>4. /\ elf.symbols \in Seq(Entry) /\ elf.references \in Seq(1..N + W)
        /\ DOMAIN elf.symbols = 1..N + W /\ DOMAIN elf.references = 1..R + W
    BY <2>3, ElfFacts
  <2>5. \A r \in 1..R + W : elf.references[r] \in 1..N + W
    BY DEF Built, IsElf
  <2>6. elf.symbols \in [1..N + W -> LotP!Symbol]
    BY <2>4, ElfFacts DEF LotP!Symbol, Entry
  <2>7. elf.references \in [1..R + W -> 1..2 * MaxSymbols]
    BY <2>2, <2>4, <2>5
  <2>8. /\ elf.symbols \in UNION {[1..n -> LotP!Symbol] : n \in 1..2 * MaxSymbols}
        /\ elf.references \in UNION {[1..n -> 1..2 * MaxSymbols] :
                                     n \in 0..MaxReferences + MaxSymbols}
    BY <2>2, <2>6, <2>7
  <2>9. elf \in [executable : BOOLEAN, main_is_entry : BOOLEAN,
                symbols : UNION {[1..n -> LotP!Symbol] : n \in 1..2 * MaxSymbols},
                references : UNION {[1..n -> 1..2 * MaxSymbols] :
                                      n \in 0..MaxReferences + MaxSymbols}]
    BY <2>3, <2>8
  <2>10. LotP!Range(elf.references) \subseteq DOMAIN elf.symbols
    BY <2>4, <2>5 DEF LotP!Range
  <2>11. ~elf.main_is_entry
    BY DEF Built, IsElf
  <2> QED BY <1>1, <2>9, <2>10, <2>11 DEF LotP!Inputs
<1> QED BY <1>1, <1>2
-----------------------------------------------------------------------------
(***************************************************************************)
(* The invariant: what each step of the build leaves to the next one.      *)
(***************************************************************************)
NotYet ==
  /\ elf = <<>> /\ done = 0 /\ relocations = <<>> /\ omitted = <<>> /\ index = 0
  /\ code = <<>> /\ image = <<>> /\ lot = <<>>

IInv ==
  /\ sources \in Inputs /\ stage \in {"generate_wrappers", "link", "fix_names", "mkimage"}
  /\ stage = "generate_wrappers" => wrapped = {}
  /\ stage # "generate_wrappers" => wrapped = FunctionNames
  /\ stage \in {"generate_wrappers", "link"} => linked = <<>>
  /\ stage = "fix_names" => IsLinked /\ IsPlaced
  /\ stage # "mkimage" => NotYet
  /\ stage = "mkimage" => Built /\ LotP!Inv /\ LotP!Computed

\* The two instances of LotRelocation have the same operators...
LEMMA SameTables ==
  /\ \A n : Lot!Meaning(n) = LotP!Meaning(n)
  /\ \A n : Lot!localization(n) = LotP!localization(n)
  /\ \A v : Lot!symbol_table(v) = LotP!symbol_table(v)
  /\ Lot!imported_symbol_table = LotP!imported_symbol_table
  /\ Lot!exported_symbol_table = LotP!exported_symbol_table
  /\ Lot!WellFormed(elf) <=> LotP!WellFormed(elf)
  /\ \A r : Lot!Name(r) = LotP!Name(r)
<1>1. \A S : Lot!Max(S) = LotP!Max(S)
  BY DEF Lot!Max, LotP!Max
<1>2. \A S : Lot!Cardinality(S) = LotP!Cardinality(S)
  BY DEF Lot!Cardinality, LotP!Cardinality
<1>3. \A n : Lot!Meaning(n) = LotP!Meaning(n)
  BY <1>1 DEF Lot!Meaning, LotP!Meaning
<1>4. \A n : Lot!localization(n) = LotP!localization(n)
  BY <1>3 DEF Lot!localization, LotP!localization
<1>5. Lot!Places = LotP!Places
  BY DEF Lot!Places, LotP!Places
<1>6. \A v : Lot!symbol_table(v) = LotP!symbol_table(v)
  BY <1>2, <1>4, <1>5, SameNth DEF Lot!symbol_table, LotP!symbol_table
<1>7. /\ Lot!imported_symbol_table = LotP!imported_symbol_table
      /\ Lot!exported_symbol_table = LotP!exported_symbol_table
  BY <1>6 DEF Lot!imported_symbol_table, LotP!imported_symbol_table,
              Lot!exported_symbol_table, LotP!exported_symbol_table
<1>8. Lot!WellFormed(elf) <=> LotP!WellFormed(elf)
  BY DEF Lot!WellFormed, LotP!WellFormed
<1>9. \A r : Lot!Name(r) = LotP!Name(r)
  BY DEF Lot!Name, LotP!Name
<1> QED BY <1>3, <1>4, <1>6, <1>7, <1>8, <1>9

LEMMA SameImage == Lot!tables = LotP!tables /\ Lot!filled_lot = LotP!filled_lot
<1>1. \A S : Lot!Min(S) = LotP!Min(S) /\ Lot!Max(S) = LotP!Max(S)
  BY DEF Lot!Min, LotP!Min, Lot!Max, LotP!Max
<1>2. \A S : Lot!Cardinality(S) = LotP!Cardinality(S)
  BY DEF Lot!Cardinality, LotP!Cardinality
<1>3. \A f : Lot!Range(f) = LotP!Range(f)
  BY DEF Lot!Range, LotP!Range
<1>4. \A t : Lot!get_relocations(t) = LotP!get_relocations(t)
  BY <1>2, SameNth DEF Lot!get_relocations, LotP!get_relocations
<1>5. \A t, n : Lot!place(t, n) = LotP!place(t, n)
  BY <1>1 DEF Lot!place, LotP!place
<1>6. \A n : Lot!symbol_table_index(n) = LotP!symbol_table_index(n)
  BY <1>3, <1>5, SameTables DEF Lot!symbol_table_index, LotP!symbol_table_index
<1>7. Lot!tables = LotP!tables
  BY <1>4, <1>6, SameTables DEF Lot!tables, LotP!tables
<1>8. \A n : Lot!find_symbol(n) = LotP!find_symbol(n)
  BY DEF Lot!find_symbol, LotP!find_symbol
<1>9. Lot!filled_lot = LotP!filled_lot
  BY <1>1, <1>8 DEF Lot!filled_lot, LotP!filled_lot, Lot!Unset, LotP!Unset
<1> QED BY <1>7, <1>9

\* ...and the same steps.
LEMMA SameNext == Lot!Next => LotP!Next
<1>1. \A S : Lot!Min(S) = LotP!Min(S)
  BY DEF Lot!Min, LotP!Min
<1>2. \A f : Lot!Range(f) = LotP!Range(f)
  BY DEF Lot!Range, LotP!Range
<1>3. \A n : Lot!Found(n) = LotP!Found(n)
  BY DEF Lot!Found, LotP!Found
<1>4. \A n : Lot!shared_index(n) = LotP!shared_index(n)
  BY <1>1, <1>3 DEF Lot!shared_index, LotP!shared_index
<1>5. \A r : Lot!add_local_relocation(r) <=> LotP!add_local_relocation(r)
  BY SameTables DEF Lot!add_local_relocation, LotP!add_local_relocation
<1>6. \A r : Lot!add_symbol_table_relocation(r) <=> LotP!add_symbol_table_relocation(r)
  BY <1>3, <1>4, SameTables
  DEF Lot!add_symbol_table_relocation, LotP!add_symbol_table_relocation
<1>7. Lot!process_relocation => LotP!process_relocation
  BY <1>5, <1>6 DEF Lot!process_relocation, LotP!process_relocation
<1>8. Lot!fix_offsets_in_code => LotP!fix_offsets_in_code
  BY <1>2 DEF Lot!fix_offsets_in_code, LotP!fix_offsets_in_code
<1>9. Lot!build_image => LotP!build_image
  BY SameImage DEF Lot!build_image, LotP!build_image
<1>10. Lot!load_module => LotP!load_module
  BY SameImage DEF Lot!load_module, LotP!load_module
<1> QED BY <1>7, <1>8, <1>9, <1>10 DEF Lot!Next, LotP!Next

LEMMA LotStarts == LotP!Init' => LotP!Inv' /\ LotP!Computed'
BY LotBounds, LotP!InitInv, LotP!InitComputed, PTL

LEMMA LotGoesOn ==
  LotP!Inv /\ LotP!Computed /\ [LotP!Next]_lotVars => LotP!Inv' /\ LotP!Computed'
BY LotBounds, LotP!NextInv, LotP!NextComputed DEF lotVars, LotP!vars

\* What was built depends on the build's own state only.
LEMMA BuiltStays ==
  ASSUME Built, UNCHANGED <<sources, wrapped, linked, order, elf>>
  PROVE  Built'
<1>1. /\ N' = N /\ W' = W /\ R' = R /\ names' = names /\ Symbols' = Symbols
      /\ FunctionNames' = FunctionNames /\ References' = References
  BY StateStays
<1>2. IsRenamed(linked)'
  BY <1>1 DEF Built, IsRenamed
<1>3. IsOrdered'
  BY <1>1 DEF Built, IsOrdered
<1>4. IsElf'
  BY <1>1 DEF Built, IsElf
<1> QED BY <1>1, <1>2, <1>3, <1>4 DEF Built

LEMMA StepKeepsIInv == IInv /\ [Next]_vars => IInv'
<1> SUFFICES ASSUME IInv, [Next]_vars PROVE IInv'
  OBVIOUS
<1>1. CASE generate_wrappers
  <2>1. /\ sources' = sources /\ linked' = linked /\ linked = <<>> /\ stage' = "link"
        /\ NotYet /\ UNCHANGED lotVars /\ wrapped' = FunctionNames
    BY <1>1 DEF IInv, generate_wrappers, FunctionNames
  <2>2. FunctionNames' = FunctionNames
    BY <2>1 DEF FunctionNames, Symbols
  <2>3. NotYet'
    BY <2>1 DEF NotYet, lotVars
  <2> QED BY <2>1, <2>2, <2>3 DEF IInv
<1>2. CASE link
  <2>1. /\ UNCHANGED <<sources, wrapped>> /\ UNCHANGED lotVars /\ stage' = "fix_names"
        /\ wrapped = FunctionNames /\ NotYet /\ sources \in Inputs
    BY <1>2 DEF IInv, link
  <2>2. IsLinked' /\ IsPlaced'
    BY <1>2, <2>1, LinkIsLinked, LinkIsPlaced
  <2>3. NotYet'
    BY <2>1 DEF NotYet, lotVars
  <2> QED BY <2>1, <2>2, <2>3, StateStays DEF IInv
<1>3. CASE fix_names
  <2>1. /\ UNCHANGED <<sources, wrapped>> /\ stage' = "mkimage"
        /\ UNCHANGED <<done, relocations, omitted, index, code, image, lot>>
        /\ wrapped = FunctionNames /\ NotYet /\ sources \in Inputs
        /\ IsLinked /\ IsPlaced
    BY <1>3 DEF IInv, fix_names
  <2>2. Built'
    BY <1>3, <2>1, FixMakesElf, StateStays DEF Built
  <2>3. LotP!Init'
    <3>1. Built => elf \in LotP!Inputs
      BY ElfIsWellFormed
    <3>2. (elf \in LotP!Inputs)'
      BY <2>2, ElfIsWellFormed, PTL
    <3> QED BY <2>1, <3>2 DEF LotP!Init, NotYet
  <2>4. (LotP!Inv /\ LotP!Computed)'
    BY <2>3, LotStarts
  <2> QED BY <2>1, <2>2, <2>4, StateStays DEF IInv
<1>4. CASE mkimage
  <2>1. /\ UNCHANGED <<sources, wrapped, linked, order, stage>> /\ stage = "mkimage"
        /\ Built /\ LotP!Inv /\ LotP!Computed /\ LotP!Next
    BY <1>4, SameNext DEF IInv, mkimage
  <2>2. elf' = elf
    BY <2>1 DEF LotP!Next, LotP!process_relocation, LotP!fix_offsets_in_code,
                LotP!build_image, LotP!load_module
  <2>3. Built'
    BY <2>1, <2>2, BuiltStays
  <2>4. LotP!Inv' /\ LotP!Computed'
    BY <2>1, LotGoesOn
  <2> QED BY <2>1, <2>3, <2>4 DEF IInv, Built
<1>5. CASE UNCHANGED vars
  <2>1. UNCHANGED <<sources, wrapped, linked, order, stage>> /\ UNCHANGED lotVars
    BY <1>5 DEF vars
  <2>2. elf' = elf
    BY <2>1 DEF lotVars
  <2>3. Built => Built'
    BY <2>1, <2>2, BuiltStays
  <2>4. LotP!Inv /\ LotP!Computed => LotP!Inv' /\ LotP!Computed'
    BY <2>1, LotGoesOn
  <2>5. NotYet => NotYet'
    BY <2>1 DEF NotYet, lotVars
  <2>6. /\ FunctionNames' = FunctionNames /\ N' = N /\ W' = W /\ names' = names
        /\ Symbols' = Symbols
    BY <2>1, StateStays
  <2>7. (IsLinked => IsLinked') /\ (IsPlaced => IsPlaced')
    BY <2>1, <2>6 DEF IsLinked, IsPlaced, IsOrderOf
  <2> QED BY <2>1, <2>3, <2>4, <2>5, <2>6, <2>7 DEF IInv
<1> QED BY <1>1, <1>2, <1>3, <1>4, <1>5 DEF Next

LEMMA Invariant == Spec => []IInv
<1>1. Init => IInv
  BY DEF Init, IInv, NotYet
<1> QED BY <1>1, StepKeepsIInv, PTL DEF Spec

\* Every variable of the build keeps its type, and mkimage gets a symbol table a linker
\* could have written: whatever the names, no two global symbols share one after the
\* renaming.
THEOREM BuildTypeCorrect == Spec => []TypeOK
<1>1. IInv => TypeOK
  <2> SUFFICES ASSUME IInv PROVE TypeOK
    OBVIOUS
  <2>1. wrapped \subseteq Names
    BY WrappedFacts DEF IInv
  <2>2. linked \in Seq(Entry)
    <3>1. linked = <<>> \/ IsLinked \/ Built
      BY DEF IInv
    <3>2. <<>> \in Seq(Entry)
      OBVIOUS
    <3> QED BY <3>1, <3>2 DEF IsLinked, Built, IsRenamed
  <2>3. ASSUME stage = "mkimage"
        PROVE  Range(order) = DOMAIN linked /\ Lot!WellFormed(elf)
    <3>1. Built
      BY <2>3 DEF IInv
    <3>2. Lot!WellFormed(elf)
      BY <3>1, ElfIsWellFormed, SameTables
    <3>3. DOMAIN order = 1..N + W /\ \A i \in 1..N + W : order[i] \in 1..N + W
      BY <3>1, ElfFacts
    <3>4. \A k \in 1..N + W : \E i \in 1..N + W : order[i] = k
      BY <3>1 DEF Built, IsOrdered
    <3>5. Range(order) = 1..N + W
      BY <3>3, <3>4 DEF Range
    <3> QED BY <3>1, <3>2, <3>5, ElfFacts
  <2> QED BY <2>1, <2>2, <2>3 DEF TypeOK, IInv, Entry
<1> QED BY <1>1, Invariant, PTL
-----------------------------------------------------------------------------
(***************************************************************************)
(* What the names of the renamed library mean.                             *)
(***************************************************************************)

\* The one global symbol of a name is found under it, whoever searches, and is exported
\* if it is defined and imported if it is not.
LEMMA GlobalName ==
  ASSUME Built, NEW k \in 1..N + W, linked[k].global
  PROVE  LET x == linked[k].name
         IN  /\ LotP!Meaning(x) \in 1..N + W /\ order[LotP!Meaning(x)] = k
             /\ LotP!find_symbol(x) \in 1..N + W /\ order[LotP!find_symbol(x)] = k
             /\ LotP!localization(x) = IF linked[k].defined THEN "exported" ELSE "imported"
<1> DEFINE x == linked[k].name
<1>1. PICK s \in 1..N + W : order[s] = k
  BY DEF Built, IsOrdered
<1>2. s \in DOMAIN elf.symbols /\ elf.symbols[s] = linked[k]
  BY <1>1, ElfFacts
<1>3. elf \in LotP!Inputs
  BY ElfIsWellFormed
<1>4. LotP!Meaning(elf.symbols[s].name) = s /\ LotP!find_symbol(elf.symbols[s].name) = s
  <2>1. elf.symbols[s].global
    BY <1>2
  <2> QED BY <1>2, <1>3, <2>1, LotBounds, LotP!GlobalMeans, Zenon
<1>5. LotP!Meaning(x) = s /\ LotP!find_symbol(x) = s
  BY <1>2, <1>4
<1>6. LotP!localization(x) = IF linked[k].defined THEN "exported" ELSE "imported"
  <2>1. ~elf.executable
    BY DEF Built, IsElf
  <2> HIDE DEF x
  <2> QED BY <1>2, <1>5, <2>1 DEF LotP!localization
<1> QED BY <1>1, <1>5, <1>6

\* A name without a global symbol is internal.
LEMMA LocalName ==
  ASSUME Built, NEW k \in 1..N + W,
         \A j \in 1..N + W : linked[j].name = linked[k].name => ~linked[j].global
  PROVE  LotP!localization(linked[k].name) = "internal"
<1>1. PICK s \in 1..N + W : order[s] = k
  BY DEF Built, IsOrdered
<1>2. s \in DOMAIN elf.symbols /\ elf.symbols[s] = linked[k] /\ elf \in LotP!Inputs
  BY <1>1, ElfFacts, ElfIsWellFormed
<1>3. \A t \in DOMAIN elf.symbols :
        elf.symbols[t].name = elf.symbols[s].name => ~elf.symbols[t].global
  <2>1. \A t \in DOMAIN elf.symbols :
          order[t] \in 1..N + W /\ elf.symbols[t] = linked[order[t]]
    BY ElfFacts
  <2> QED BY <1>2, <2>1
<1>4. LotP!localization(elf.symbols[s].name) = "internal"
  BY <1>2, <1>3, LotBounds, LotP!LocalMeans, Zenon
<1> QED BY <1>2, <1>4

\* Only wrappers have the names of wrapped functions.
LEMMA WrapperNames ==
  ASSUME Built, NEW k \in 1..N + W
  PROVE  /\ linked[k].name \in wrapped => k \notin 1..N /\ linked[k].global /\ linked[k].defined
         /\ linked[k].name \notin wrapped => k \in 1..N
<1>1. /\ N \in Nat /\ W \in Nat /\ wrapped \subseteq Names
      /\ \A j \in 1..N : Symbols[j].name \in Names
      /\ \A i \in 1..W : names[i] \in wrapped
  BY SourceFacts, WrappedFacts, NamesFacts DEF Built
<1>2. CASE k \in 1..N
  <2>1. Symbols[k].name \in wrapped => linked[k].name = Original[Symbols[k].name]
    BY <1>2 DEF Built, IsRenamed
  <2>2. Symbols[k].name \in wrapped => linked[k].name \notin Names
    BY <1>1, <1>2, <2>1, NameAssumption DEF Range
  <2>3. Symbols[k].name \notin wrapped => linked[k].name = Symbols[k].name
    BY <1>2 DEF Built, IsRenamed
  <2> QED BY <1>1, <1>2, <2>2, <2>3
<1>3. CASE k \notin 1..N
  <2>1. k - N \in 1..W /\ k = N + (k - N)
    BY <1>3, PlaceIsOneOf DEF Built
  <2>2. \A i \in 1..W : /\ linked[N + i].name = names[i]
                       /\ linked[N + i].global /\ linked[N + i].defined
    BY DEF Built, IsRenamed
  <2> QED BY <1>1, <1>3, <2>1, <2>2
<1> QED BY <1>2, <1>3

\* What the place of a global symbol says of the source.
LEMMA GlobalOwn ==
  ASSUME Built, NEW k \in 1..N
  PROVE  /\ linked[k].global =>
              /\ linked[k].name = Symbols[k].name /\ Symbols[k].name \notin wrapped
              /\ Symbols[k].kind \in {"data", "archive", "import"}
         /\ Symbols[k].kind \in {"data", "archive", "import"} => linked[k].global
         /\ linked[k].defined <=> Symbols[k].kind # "import"
<1>1. /\ Symbols[k].kind \in Kinds
      /\ Symbols[k].kind = "function" => Symbols[k].name \in wrapped
      /\ Symbols[k].name \in wrapped => Symbols[k].kind \in {"function", "static"}
  BY SourceFacts, WrappedFacts DEF Built
<1>2. /\ linked[k].global <=> Symbols[k].kind # "static" /\ Symbols[k].name \notin wrapped
      /\ Symbols[k].name \notin wrapped => linked[k].name = Symbols[k].name
      /\ linked[k].defined <=> Symbols[k].kind # "import"
  BY DEF Built, IsRenamed
<1> QED BY <1>1, <1>2 DEF Kinds

\* The names in a symbol table of the image.
LEMMA TableNames ==
  ASSUME Built, NEW v
  PROVE  LET T == LotP!symbol_table(v)
         IN  /\ T \in Seq(AllNames)
             /\ \A x : x \in Range(T) <=>
                  \E k \in 1..N + W : linked[k].name = x /\ LotP!localization(x) = v
             /\ \A i, j \in DOMAIN T : i < j =>
                  \E s \in 1..N + W :
                    /\ linked[order[s]].name = T[i]
                    /\ \A t \in 1..s : linked[order[t]].name # T[j]
<1> DEFINE T == LotP!symbol_table(v)
<1>1. /\ T \in Seq(AllNames)
      /\ LotP!Range(T) = {elf.symbols[s].name : s \in
            {t \in DOMAIN elf.symbols : LotP!localization(elf.symbols[t].name) = v}}
      /\ \A i, j \in DOMAIN T : i < j =>
           \E s \in DOMAIN elf.symbols :
             /\ elf.symbols[s].name = T[i]
             /\ \A t \in 1..s : elf.symbols[t].name # T[j]
  <2>1. elf \in LotP!Inputs
    BY ElfIsWellFormed
  <2> QED BY <2>1, LotBounds, LotP!TableFacts, Zenon
<1> HIDE DEF T
<1>2. Range(T) = LotP!Range(T)
  BY DEF Range, LotP!Range
<1>3. /\ N + W \in Nat /\ DOMAIN elf.symbols = 1..N + W
      /\ \A s \in 1..N + W : order[s] \in 1..N + W /\ elf.symbols[s] = linked[order[s]]
  BY ElfFacts
<1>4. \A k \in 1..N + W : \E s \in 1..N + W : order[s] = k
  BY DEF Built, IsOrdered
<1>5. ASSUME NEW x
      PROVE  x \in Range(T) <=>
               \E k \in 1..N + W : linked[k].name = x /\ LotP!localization(x) = v
  <2>1. x \in Range(T) <=>
          \E s \in 1..N + W :
            elf.symbols[s].name = x /\ LotP!localization(elf.symbols[s].name) = v
    BY <1>1, <1>2, <1>3
  <2>2. x \in Range(T) <=>
          \E s \in 1..N + W : linked[order[s]].name = x /\ LotP!localization(x) = v
    BY <1>3, <2>1
  <2> QED BY <1>3, <1>4, <2>2
<1>6. ASSUME NEW i \in DOMAIN T, NEW j \in DOMAIN T, i < j
      PROVE  \E s \in 1..N + W :
               /\ linked[order[s]].name = T[i]
               /\ \A t \in 1..s : linked[order[t]].name # T[j]
  <2>1. PICK s \in 1..N + W : /\ elf.symbols[s].name = T[i]
                              /\ \A t \in 1..s : elf.symbols[t].name # T[j]
    BY <1>1, <1>3, <1>6
  <2>2. \A t \in 1..s : t \in 1..N + W
    BY <1>3
  <2> QED BY <1>3, <2>1, <2>2
<1> QED BY <1>1, <1>5, <1>6 DEF T

\* The symbols that the source offers to others.
public == {k \in DOMAIN Symbols : Symbols[k].kind \in {"function", "data", "archive"}}

LEMMA PublicPlaces ==
  ASSUME Built, NEW k \in public
  PROVE  /\ LotP!localization(Symbols[k].name) = "exported"
         /\ \E j \in 1..N + W : linked[j].name = Symbols[k].name
         /\ LET place == order[LotP!Meaning(Symbols[k].name)]
            IN  IF Symbols[k].kind = "function"
                THEN IsWrapper(place) /\ Wrappers[place - Len(Symbols)].original = k
                ELSE place = k
<1> DEFINE x == Symbols[k].name
           place == order[LotP!Meaning(x)]
<1>1. /\ k \in 1..N /\ N \in Nat /\ W \in Nat /\ N + W \in Nat
      /\ Symbols[k].kind \in {"function", "data", "archive"}
  BY SourceFacts, WrappedFacts DEF Built, public
<1>2. CASE Symbols[k].kind = "function"
  <2>1. x \in wrapped
    BY <1>1, <1>2, WrappedFacts DEF Built
  <2>2. PICK i \in 1..W : names[i] = x
    BY <2>1, WrappedFacts, NamesFacts DEF Built
  <2>3. /\ N + i \in 1..N + W /\ linked[N + i].name = x
        /\ linked[N + i].global /\ linked[N + i].defined
    BY <1>1, <2>2 DEF Built, IsRenamed
  <2>4. place = N + i /\ LotP!localization(x) = "exported"
    BY <2>3, GlobalName
  <2>5. /\ Wrappers[i].original \in 1..N
        /\ Symbols[Wrappers[i].original].name = x
        /\ Symbols[Wrappers[i].original].kind = "function"
    BY <2>2, WrappersFacts DEF Built
  <2>6. Wrappers[i].original = k
    BY <1>1, <1>2, <2>5, SourceFacts DEF Built
  <2>7. IsWrapper(N + i) /\ (N + i) - Len(Symbols) = i
    BY <1>1 DEF IsWrapper, N
  <2> QED BY <1>2, <2>3, <2>4, <2>6, <2>7
<1>3. CASE Symbols[k].kind # "function"
  <2>1. linked[k].global /\ linked[k].name = x /\ linked[k].defined /\ k \in 1..N + W
    BY <1>1, <1>3, GlobalOwn
  <2>2. place = k /\ LotP!localization(x) = "exported"
    BY <2>1, GlobalName
  <2> QED BY <1>3, <2>1, <2>2
<1> QED BY <1>2, <1>3

\* An exported name is that of a symbol the source offers.
LEMMA ExportedIsPublic ==
  ASSUME Built, NEW j \in 1..N + W, LotP!localization(linked[j].name) = "exported"
  PROVE  \E k \in public : linked[j].name = Symbols[k].name
<1> DEFINE x == linked[j].name
<1>1. PICK g \in 1..N + W : linked[g].name = x /\ linked[g].global
  BY LocalName
<1>2. linked[g].defined
  BY <1>1, GlobalName
<1>3. CASE g \in 1..N
  <2>1. linked[g].name = Symbols[g].name /\ Symbols[g].kind \in {"data", "archive"}
    BY <1>1, <1>2, <1>3, GlobalOwn
  <2>2. g \in public
    BY <1>3, <2>1, SourceFacts DEF Built, public
  <2> QED BY <1>1, <2>1, <2>2
<1>4. CASE g \notin 1..N
  <2>1. x \in wrapped
    BY <1>1, <1>4, WrapperNames
  <2>2. PICK k \in 1..N : Symbols[k].name = x /\ Symbols[k].kind = "function"
    BY <2>1, WrappedFacts DEF Built
  <2>3. k \in public
    BY <2>2, SourceFacts DEF Built, public
  <2> QED BY <2>2, <2>3
<1> QED BY <1>3, <1>4

\* The library exports every public symbol under its name and nothing else; a function
\* of its own objects is exported as the wrapper made for it, so that a caller from
\* another module never enters it with a wrong LOT.
THEOREM ExportsGuarded == Spec => []ExportsAreGuarded
<1>1. IInv => ExportsAreGuarded
  <2> SUFFICES ASSUME IInv, image # <<>> PROVE ExportsAreGuarded
    BY DEF ExportsAreGuarded
  <2>1. Built
    BY DEF IInv, NotYet
  <2>2. /\ \A x : Lot!Meaning(x) = LotP!Meaning(x)
        /\ Lot!exported_symbol_table = LotP!symbol_table("exported")
    BY SameTables DEF LotP!exported_symbol_table
  <2>3. \A x : x \in Range(Lot!exported_symbol_table) <=>
          \E k \in 1..N + W : linked[k].name = x /\ LotP!localization(x) = "exported"
    BY <2>1, <2>2, TableNames, Zenon
  <2>4. Range(Lot!exported_symbol_table) = {Symbols[k].name : k \in public}
    <3>1. ASSUME NEW x \in Range(Lot!exported_symbol_table)
          PROVE  \E k \in public : x = Symbols[k].name
      <4>1. PICK j \in 1..N + W : linked[j].name = x /\ LotP!localization(x) = "exported"
        BY <2>3, <3>1
      <4> QED BY <2>1, <4>1, ExportedIsPublic
    <3>2. ASSUME NEW k \in public
          PROVE  Symbols[k].name \in Range(Lot!exported_symbol_table)
      BY <2>1, <2>3, PublicPlaces, Zenon
    <3> QED BY <3>1, <3>2
  <2>5. \A k \in public :
          LET place == order[Lot!Meaning(Symbols[k].name)]
          IN  IF Symbols[k].kind = "function"
              THEN IsWrapper(place) /\ Wrappers[place - Len(Symbols)].original = k
              ELSE place = k
    BY <2>1, <2>2, PublicPlaces
  <2> QED BY <2>4, <2>5 DEF ExportsAreGuarded, public
<1> QED BY <1>1, Invariant, PTL
-----------------------------------------------------------------------------
(***************************************************************************)
(* What references read.                                                   *)
(***************************************************************************)

\* A symbol that shares its name with a function is internal after the renaming.  Any
\* other keeps its name, and is internal unless the name has a global symbol.
LEMMA OwnNames ==
  ASSUME Built, NEW k \in 1..N
  PROVE  /\ k \in 1..N + W /\ Symbols[k].kind \in Kinds
         /\ Symbols[k].name \in wrapped => LotP!localization(linked[k].name) = "internal"
         /\ Symbols[k].name \notin wrapped =>
              /\ linked[k].name = Symbols[k].name
              /\ \/ LotP!localization(linked[k].name) = "internal"
                    /\ \A g \in 1..N : Symbols[g].name = Symbols[k].name => ~linked[g].global
                 \/ \E g \in 1..N : linked[g].global /\ Symbols[g].name = Symbols[k].name
<1>1. /\ N \in Nat /\ W \in Nat /\ wrapped \subseteq Names
      /\ Symbols[k].name \in Names /\ Symbols[k].kind \in Kinds
      /\ \A g \in 1..N : Symbols[g].name \in Names
  BY SourceFacts, WrappedFacts DEF Built
<1>2. k \in 1..N + W
  BY <1>1
<1>3. CASE Symbols[k].name \in wrapped
  <2>1. linked[k].name = Original[Symbols[k].name]
    BY <1>3 DEF Built, IsRenamed
  <2>2. linked[k].name \notin Names
    BY <1>1, <2>1, NameAssumption DEF Range
  <2>3. \A j \in 1..N + W : linked[j].name = linked[k].name => ~linked[j].global
    <3>1. \A j \in 1..N : linked[j].global => linked[j].name \in Names
      BY <1>1, GlobalOwn
    <3>2. \A j \in 1..N + W : linked[j].name \in wrapped \/ j \in 1..N
      BY WrapperNames
    <3> QED BY <1>1, <2>2, <3>1, <3>2
  <2> QED BY <1>1, <1>2, <1>3, <2>3, LocalName
<1>4. CASE Symbols[k].name \notin wrapped
  <2>1. linked[k].name = Symbols[k].name
    BY <1>4 DEF Built, IsRenamed
  <2>2. ASSUME \A g \in 1..N : Symbols[g].name = Symbols[k].name => ~linked[g].global
        PROVE  LotP!localization(linked[k].name) = "internal"
    <3>1. \A j \in 1..N : linked[j].global => linked[j].name = Symbols[j].name
      BY GlobalOwn
    <3>2. \A j \in 1..N + W : linked[j].name \in wrapped \/ j \in 1..N
      BY WrapperNames
    <3>3. \A j \in 1..N + W : linked[j].name = linked[k].name => ~linked[j].global
      BY <1>4, <2>1, <2>2, <3>1, <3>2
    <3> QED BY <1>2, <3>3, LocalName
  <2> QED BY <1>1, <1>2, <1>4, <2>1, <2>2
<1> QED BY <1>3, <1>4

\* The entry of the LOT holds the symbol itself if that is internal, and otherwise the one
\* with the name that the loader reads in the tables.
LEMMA WhatReads ==
  ASSUME IInv, lot # <<>>, NEW r \in 1..R + W
  PROVE  LET x == linked[References[r]].name
             imported == LotP!symbol_table("imported")
             exported == LotP!symbol_table("exported")
         IN  /\ LotP!localization(x) = "internal" => Reads(r) = References[r]
             /\ LotP!localization(x) # "internal" =>
                  \E y : /\ Reads(r) = order[LotP!find_symbol(y)]
                         /\ \/ y = x /\ (LotP!localization(x) = "imported" \/ imported = <<>>)
                            \/ /\ LotP!localization(x) # "imported" /\ imported # <<>>
                               /\ \/ y \in Range(imported)
                                  \/ \E q, p \in DOMAIN exported :
                                       q < p /\ exported[q] = y /\ exported[p] = x
<1> DEFINE x == linked[References[r]].name
           y == LotP!tables.symbols[LotP!symbol_table_index(x) + 1]
           imported == LotP!symbol_table("imported")
           exported == LotP!symbol_table("exported")
<1>1. Built /\ LotP!Inv /\ LotP!Computed
  BY DEF IInv, NotYet
<1>2. elf \in LotP!Inputs /\ r \in DOMAIN elf.references
  BY <1>1, ElfIsWellFormed, ElfFacts
<1>3. /\ elf.references[r] \in 1..N + W /\ order[elf.references[r]] = References[r]
      /\ elf.symbols[elf.references[r]] = linked[References[r]]
  BY <1>1, ElfFacts DEF Built, IsElf
<1>4. LotP!Name(r) = x
  BY <1>3 DEF LotP!Name
<1>5. lot[code[r] \div 4] =
        IF LotP!localization(LotP!Name(r)) = "internal" THEN elf.references[r]
        ELSE LotP!find_symbol(LotP!tables.symbols[LotP!symbol_table_index(LotP!Name(r)) + 1])
  BY <1>1, <1>2, LotBounds, LotP!WhatIsRead, Zenon
<1>6. Reads(r) = order[IF LotP!localization(x) = "internal" THEN elf.references[r]
                       ELSE LotP!find_symbol(y)]
  BY <1>4, <1>5 DEF Reads
<1>7. /\ imported = LotP!imported_symbol_table
      /\ exported = LotP!exported_symbol_table
  BY DEF LotP!imported_symbol_table, LotP!exported_symbol_table
<1> HIDE DEF imported, exported
<1>8. ASSUME LotP!localization(x) # "internal"
      PROVE  \/ y = x /\ (LotP!localization(x) = "imported" \/ imported = <<>>)
             \/ /\ LotP!localization(x) # "imported" /\ imported # <<>>
                /\ \/ y \in Range(imported)
                   \/ \E q, p \in DOMAIN exported :
                        q < p /\ exported[q] = y /\ exported[p] = x
  <2>1. LET i == LotP!imported_symbol_table
            e == LotP!exported_symbol_table
            name == LotP!tables.symbols[LotP!symbol_table_index(LotP!Name(r)) + 1]
        IN  \/ /\ name = LotP!Name(r)
               /\ LotP!localization(LotP!Name(r)) = "imported" \/ i = <<>>
            \/ /\ LotP!localization(LotP!Name(r)) # "imported" /\ i # <<>>
               /\ \/ name \in LotP!Range(i)
                  \/ \E q, p \in DOMAIN e : q < p /\ e[q] = name /\ e[p] = LotP!Name(r)
    <3>1. LotP!localization(LotP!Name(r)) # "internal"
      BY <1>4, <1>8
    <3> QED BY <1>2, <3>1, LotBounds, LotP!NameInTables, Zenon
  <2>2. \A f : LotP!Range(f) = Range(f)
    BY DEF LotP!Range, Range
  <2> HIDE DEF x
  <2> QED BY <1>4, <1>7, <2>1, <2>2
<1> HIDE DEF x, y
<1> QED BY <1>3, <1>6, <1>8 DEF x, imported, exported

\* A reference to a symbol that shares its name with a function reads that very symbol.
LEMMA FunctionsAreRead ==
  ASSUME IInv, lot # <<>>, NEW r \in 1..R + W,
         References[r] \in 1..N, Symbols[References[r]].name \in wrapped
  PROVE  Reads(r) = References[r] /\ ~IsWrapper(Reads(r))
<1>1. Built
  BY DEF IInv, NotYet
<1>2. Reads(r) = References[r]
  BY <1>1, OwnNames, WhatReads
<1>3. ~IsWrapper(References[r])
  BY <1>1, SourceFacts DEF IsWrapper, N, Built
<1> QED BY <1>2, <1>3

\* In the loaded library each wrapper calls the function it was made for, whatever else
\* has its name, is imported or is exported.
THEOREM WrappersCall == Spec => []WrappersCallOriginals
<1>1. IInv => WrappersCallOriginals
  <2> SUFFICES ASSUME IInv, lot # <<>> PROVE WrappersCallOriginals
    BY DEF WrappersCallOriginals
  <2>1. Built
    BY DEF IInv, NotYet
  <2>2. ASSUME NEW k \in 1..W
        PROVE  Reads(R + k) = References[R + k] /\ ~IsWrapper(Reads(R + k))
    <3>1. /\ Wrappers[k].original \in 1..N
          /\ Symbols[Wrappers[k].original].kind = "function"
      BY <2>1, WrappersFacts DEF Built
    <3>2. Symbols[Wrappers[k].original].name \in wrapped
      BY <2>1, <3>1, WrappedFacts DEF Built
    <3>3. References[R + k] = Wrappers[k].original /\ R + k \in 1..R + W
      <4>1. R \in Nat /\ W \in Nat
        BY <2>1, SourceFacts, WrappedFacts DEF Built
      <4> QED BY <2>1, <4>1, ReferencesFacts DEF Built
    <3> QED BY <3>1, <3>2, <3>3, FunctionsAreRead
  <2>3. DOMAIN Wrappers = 1..W
    BY <2>1, WrappersFacts DEF Built
  <2> QED BY <2>2, <2>3 DEF WrappersCallOriginals, R
<1> QED BY <1>1, Invariant, PTL

\* A name is in the table of exported symbols once.
LEMMA ExportedOnce ==
  ASSUME Built, NEW q \in DOMAIN LotP!symbol_table("exported"),
         NEW p \in DOMAIN LotP!symbol_table("exported"), q < p
  PROVE  LotP!symbol_table("exported")[q] # LotP!symbol_table("exported")[p]
<1> DEFINE T == LotP!symbol_table("exported")
<1>1. PICK s \in 1..N + W : /\ linked[order[s]].name = T[q]
                            /\ \A t \in 1..s : linked[order[t]].name # T[p]
  <2>1. LET U == LotP!symbol_table("exported")
        IN  /\ U \in Seq(AllNames)
            /\ \A z : z \in Range(U) <=>
                 \E k \in 1..N + W : linked[k].name = z /\ LotP!localization(z) = "exported"
            /\ \A i, j \in DOMAIN U : i < j =>
                 \E s \in 1..N + W :
                   /\ linked[order[s]].name = U[i]
                   /\ \A t \in 1..s : linked[order[t]].name # U[j]
    BY TableNames, Zenon
  <2>2. \A i, j \in DOMAIN T : i < j =>
          \E s \in 1..N + W : /\ linked[order[s]].name = T[i]
                              /\ \A t \in 1..s : linked[order[t]].name # T[j]
    BY <2>1
  <2> QED BY <2>2, Zenon
<1>2. s \in 1..s
  BY SourceFacts, WrappedFacts DEF Built
<1> HIDE DEF T
<1>3. T[q] # T[p]
  BY <1>1, <1>2
<1> QED BY <1>3 DEF T

\* What the library's own code reads, by the global symbol g that has the name of the
\* wanted one.
LEMMA NamedAreRead ==
  ASSUME IInv, lot # <<>>, NEW r \in 1..R + W,
         NEW g \in 1..N, linked[g].global, linked[References[r]].name = linked[g].name
  PROVE  LET found == \/ Symbols[g].kind = "import"
                      \/ \A k \in 1..N : Symbols[k].kind # "import"
         IN  /\ found => Reads(r) = g
             /\ ~found => linked[Reads(r)].name # linked[g].name
<1> DEFINE x == linked[g].name
           imported == LotP!symbol_table("imported")
           exported == LotP!symbol_table("exported")
<1>1. Built
  BY DEF IInv, NotYet
<1>2. /\ N \in Nat /\ W \in Nat /\ g \in 1..N + W /\ \A k \in 1..N : k \in 1..N + W
  BY <1>1, SourceFacts, WrappedFacts DEF Built
<1>3. /\ LotP!localization(x) = IF Symbols[g].kind = "import" THEN "imported" ELSE "exported"
      /\ order[LotP!find_symbol(x)] = g
  BY <1>1, <1>2, GlobalName, GlobalOwn
<1>4. \A z : z \in Range(imported) <=>
        \E k \in 1..N + W : linked[k].name = z /\ LotP!localization(z) = "imported"
  BY <1>1, TableNames, Zenon
<1>5. \A z : z \in Range(exported) <=>
        \E k \in 1..N + W : linked[k].name = z /\ LotP!localization(z) = "exported"
  BY <1>1, TableNames, Zenon
<1>6. ASSUME NEW z \in Range(imported)
      PROVE  \E k \in 1..N : linked[k].global /\ linked[k].name = z /\ Symbols[k].kind = "import"
  <2>1. PICK j \in 1..N + W : linked[j].name = z /\ LotP!localization(z) = "imported"
    BY <1>4, <1>6
  <2>2. PICK k \in 1..N + W : linked[k].global /\ linked[k].name = z
    BY <1>1, <2>1, LocalName
  <2>3. ~linked[k].defined
    BY <1>1, <2>1, <2>2, GlobalName
  <2>4. k \in 1..N
    BY <1>1, <2>3, WrapperNames
  <2> QED BY <1>1, <2>2, <2>3, <2>4, GlobalOwn
<1>7. imported = <<>> <=> \A k \in 1..N : Symbols[k].kind # "import"
  <2>1. ASSUME imported = <<>>, NEW k \in 1..N, Symbols[k].kind = "import" PROVE FALSE
    <3>1. linked[k].global /\ ~linked[k].defined /\ k \in 1..N + W
      BY <1>1, <1>2, <2>1, GlobalOwn
    <3>2. LotP!localization(linked[k].name) = "imported"
      BY <1>1, <3>1, GlobalName
    <3>3. linked[k].name \in Range(imported)
      BY <1>4, <3>1, <3>2
    <3> HIDE DEF imported
    <3> QED BY <2>1, <3>3 DEF Range
  <2>2. ASSUME imported # <<>> PROVE \E k \in 1..N : Symbols[k].kind = "import"
    <3>1. imported \in Seq(AllNames)
      BY <1>1, TableNames, Zenon
    <3> HIDE DEF imported
    <3>2. 1 \in DOMAIN imported
      BY <2>2, <3>1
    <3>3. imported[1] \in Range(imported)
      BY <3>2 DEF Range
    <3> QED BY <1>6, <3>3
  <2> QED BY <2>1, <2>2
<1>8. PICK y : /\ Reads(r) = order[LotP!find_symbol(y)]
               /\ \/ y = x /\ (LotP!localization(x) = "imported" \/ imported = <<>>)
                  \/ /\ LotP!localization(x) # "imported" /\ imported # <<>>
                     /\ \/ y \in Range(imported)
                        \/ \E q, p \in DOMAIN exported :
                             q < p /\ exported[q] = y /\ exported[p] = x
  <2>1. LotP!localization(x) # "internal"
    BY <1>3
  <2>2. LET z == linked[References[r]].name
            i == LotP!symbol_table("imported")
            e == LotP!symbol_table("exported")
        IN  /\ LotP!localization(z) = "internal" => Reads(r) = References[r]
            /\ LotP!localization(z) # "internal" =>
                 \E y : /\ Reads(r) = order[LotP!find_symbol(y)]
                        /\ \/ y = z /\ (LotP!localization(z) = "imported" \/ i = <<>>)
                           \/ /\ LotP!localization(z) # "imported" /\ i # <<>>
                              /\ \/ y \in Range(i)
                                 \/ \E q, p \in DOMAIN e : q < p /\ e[q] = y /\ e[p] = z
    BY WhatReads, Zenon
  <2>3. linked[References[r]].name = x
    OBVIOUS
  <2> HIDE DEF x
  <2> QED BY <2>1, <2>2, <2>3
<1> HIDE DEF imported, exported
<1>9. CASE y = x /\ (LotP!localization(x) = "imported" \/ imported = <<>>)
  <2>1. Reads(r) = g
    BY <1>3, <1>8, <1>9
  <2>2. Symbols[g].kind = "import" \/ \A k \in 1..N : Symbols[k].kind # "import"
    BY <1>3, <1>7, <1>9
  <2> QED BY <1>2, <2>1, <2>2
<1>10. CASE y \in Range(imported) /\ LotP!localization(x) # "imported" /\ imported # <<>>
  <2>1. PICK k \in 1..N : linked[k].global /\ linked[k].name = y
    BY <1>6, <1>10
  <2>2. Reads(r) = k
    BY <1>1, <1>2, <1>8, <2>1, GlobalName
  <2>3. y # x
    BY <1>4, <1>10
  <2> QED BY <1>2, <1>3, <1>7, <1>10, <2>1, <2>2, <2>3
<1>11. ASSUME NEW q \in DOMAIN exported, NEW p \in DOMAIN exported,
              q < p, exported[q] = y, exported[p] = x,
              LotP!localization(x) # "imported", imported # <<>>
       PROVE  /\ linked[Reads(r)].name # x
              /\ Symbols[g].kind # "import"
              /\ \E k \in 1..N : Symbols[k].kind = "import"
  <2>1. y # x
    BY <1>1, <1>11, ExportedOnce DEF exported
  <2>2. y \in Range(exported)
    BY <1>11 DEF Range
  <2>3. PICK j \in 1..N + W : linked[j].name = y /\ LotP!localization(y) = "exported"
    BY <1>5, <2>2
  <2>4. PICK k \in 1..N + W : linked[k].global /\ linked[k].name = y
    BY <1>1, <2>3, LocalName
  <2>5. Reads(r) = k
    BY <1>1, <1>8, <2>4, GlobalName
  <2> QED BY <1>2, <1>3, <1>7, <1>11, <2>1, <2>4, <2>5
<1> QED BY <1>8, <1>9, <1>10, <1>11

\* The library's own code reads the symbol it was compiled for in exactly the cases that
\* OwnCodeReads lists: functions of its objects and imported symbols always, others only
\* without imports or without namesakes.  Without imports it never reads a wrapper.
THEOREM OwnCode == Spec => []OwnCodeReads
<1>1. IInv => OwnCodeReads
  <2> SUFFICES ASSUME IInv, lot # <<>>, NEW r \in DOMAIN sources.references
      PROVE  LET wanted == sources.references[r]
                 kind == Symbols[wanted].kind
                 others == {Symbols[k].kind :
                              k \in {j \in DOMAIN Symbols : Symbols[j].name = Symbols[wanted].name}}
                 imports == {k \in DOMAIN Symbols : Symbols[k].kind = "import"}
             IN  /\ IsWrapper(Reads(r)) => imports # {}
                 /\ Reads(r) = wanted <=>
                      \/ kind \in {"function", "import"}
                      \/ kind \in {"data", "archive"} /\ imports = {}
                      \/ kind = "static" /\ others \cap {"data", "archive", "import"} = {}
    BY DEF OwnCodeReads
  <2> DEFINE wanted == sources.references[r]
             x == Symbols[wanted].name
             kind == Symbols[wanted].kind
             others == {Symbols[k].kind : k \in {j \in DOMAIN Symbols : Symbols[j].name = x}}
             imports == {k \in DOMAIN Symbols : Symbols[k].kind = "import"}
             Shared == {"data", "archive", "import"}
  <2>1. Built /\ sources \in Inputs /\ wrapped = FunctionNames
    BY DEF IInv, NotYet, Built
  <2>2. /\ r \in 1..R /\ r \in 1..R + W /\ References[r] = wanted /\ wanted \in 1..N
        /\ DOMAIN Symbols = 1..N /\ \A k \in 1..N : k \in 1..N + W
        /\ N \in Nat /\ W \in Nat
    <3>1. R \in Nat /\ W \in Nat /\ r \in 1..R
      BY <2>1, SourceFacts, WrappedFacts
    <3> QED BY <2>1, <3>1, SourceFacts, ReferencesFacts
  <2>3. others \cap Shared = {} <=> \A k \in 1..N : Symbols[k].name = x =>
                                     Symbols[k].kind \notin Shared
    BY <2>2
  <2>4. imports = {} <=> \A k \in 1..N : Symbols[k].kind # "import"
    BY <2>2
  <2>5. kind \in Kinds /\ ~IsWrapper(wanted)
    BY <2>1, <2>2, SourceFacts DEF IsWrapper, N
  <2>6. \A k \in 1..N : Symbols[k].name = x /\ Symbols[k].kind # "static" /\ kind # "static"
                          => k = wanted
    BY <2>1, <2>2, SourceFacts
  <2> HIDE DEF wanted, others, imports
  <2>7. CASE x \in wrapped
    <3>1. Reads(r) = wanted
      BY <2>2, <2>7, FunctionsAreRead
    <3>2. \A k \in 1..N : Symbols[k].name = x => Symbols[k].kind \in {"function", "static"}
      BY <2>1, <2>7, WrappedFacts
    <3>3. kind \in {"function", "static"} /\ others \cap Shared = {}
      BY <2>2, <2>3, <3>2
    <3> QED BY <2>5, <3>1, <3>3 DEF wanted, others, imports
  <2>8. CASE x \notin wrapped
    <3>1. linked[wanted].name = x /\ kind # "function"
      BY <2>1, <2>2, <2>8, OwnNames, WrappedFacts
    <3>2. CASE /\ LotP!localization(linked[wanted].name) = "internal"
               /\ \A g \in 1..N : Symbols[g].name = x => ~linked[g].global
      <4>1. Reads(r) = wanted
        BY <2>2, <3>2, WhatReads
      <4>2. \A k \in 1..N : Symbols[k].name = x => Symbols[k].kind \notin Shared
        BY <2>1, <3>2, GlobalOwn
      <4>3. kind = "static"
        BY <2>2, <2>5, <3>1, <4>2 DEF Kinds
      <4> QED BY <2>3, <2>5, <4>1, <4>2, <4>3 DEF wanted, others, imports
    <3>3. ASSUME NEW g \in 1..N, linked[g].global, Symbols[g].name = x
          PROVE  /\ IsWrapper(Reads(r)) => imports # {}
                 /\ Reads(r) = wanted <=>
                      \/ kind \in {"function", "import"}
                      \/ kind \in {"data", "archive"} /\ imports = {}
                      \/ kind = "static" /\ others \cap Shared = {}
      <4>1. Symbols[g].kind \in Shared /\ linked[g].name = x
        BY <2>1, <3>3, GlobalOwn
      <4>2. ~(others \cap Shared = {})
        BY <2>3, <3>3, <4>1
      <4>3. kind # "static" => g = wanted
        BY <2>6, <3>3, <4>1
      <4>4. linked[References[r]].name = linked[g].name
        BY <2>2, <3>1, <4>1
      <4> DEFINE found == Symbols[g].kind = "import" \/ imports = {}
      <4>5. /\ found => Reads(r) = g
            /\ ~found => linked[Reads(r)].name # linked[g].name
        BY <2>2, <2>4, <3>3, <4>4, NamedAreRead
      <4>8. IsWrapper(Reads(r)) => imports # {}
        <5>1. ~IsWrapper(g)
          BY <2>1, SourceFacts DEF IsWrapper, N
        <5> QED BY <4>5, <5>1
      <4>6. CASE g = wanted
        <5>1. Reads(r) = wanted <=> found
          BY <3>1, <4>1, <4>5, <4>6
        <5>2. kind \in Shared
          BY <4>1, <4>6
        <5> QED BY <4>6, <4>8, <5>1, <5>2
      <4>7. CASE g # wanted
        <5>1. kind = "static"
          BY <4>3, <4>7
        <5>2. Reads(r) # wanted
          BY <3>1, <4>1, <4>5, <4>7
        <5> QED BY <4>2, <4>8, <5>1, <5>2
      <4> QED BY <4>6, <4>7
    <3> QED BY <2>1, <2>2, <2>8, <3>1, <3>2, <3>3, OwnNames DEF wanted, others, imports
  <2> QED BY <2>7, <2>8
<1> QED BY <1>1, Invariant, PTL
=============================================================================
