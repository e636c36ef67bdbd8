------------------------------ MODULE LibraryBuild ------------------------------
(***************************************************************************)
(* How a shared library is built: generate_wrappers.py makes a wrapper for *)
(* each public function, the linker joins objects, archives and wrappers,  *)
(* and fix_names.py swaps the names of functions and wrappers, so that     *)
(* others get the wrapper under the function's name.  The result is the    *)
(* ELF file that LotRelocation takes through mkimage.py and the loader.    *)
(*                                                                         *)
(* Abstractions.  What the compiler and the linker read is a sequence of   *)
(* symbols of one of the Kinds, and the GOT references in the library's    *)
(* own code, each by the place of its symbol.  The order of the symbol     *)
(* table is the linker's choice, but for statics, which come first: the    *)
(* sequence may be any, and the wrappers anywhere in it.                   *)
(***************************************************************************)
EXTENDS Naturals, FiniteSetsExt, SequencesExt

CONSTANTS
  Names,                      \* names of symbols in the source
  Wrapper, Original,          \* the name with "_yasld_wrapper", "_yasld_original"
  MaxSymbols, MaxReferences

AllNames == Names \cup Range(Wrapper) \cup Range(Original)

ASSUME NameAssumption ==
  /\ MaxSymbols \in Nat /\ MaxReferences \in Nat
  /\ DOMAIN Wrapper = Names /\ DOMAIN Original = Names
  /\ IsInjective(Wrapper) /\ IsInjective(Original)
  /\ Range(Wrapper) \cap Range(Original) = {}
  /\ Names \cap (Range(Wrapper) \cup Range(Original)) = {}
  /\ "main" \notin AllNames    \* a library has no entry

\* A public function and public data of the target's own objects, a public function
\* from an archive it is linked with, a symbol nobody defines, and a symbol that no
\* other file sees.
Kinds == {"function", "data", "archive", "import", "static"}
Source == [name : Names, kind : Kinds]

VARIABLES
  sources,    \* symbols and references that are compiled
  wrapped,    \* the names that were given to the template; {} before
  linked,     \* the linker's output, in which fix_names changes names and bindings
  order,      \* the symbol table of the ELF file, by places in linked
  stage,      \* the step of the build that comes next
  elf, done, relocations, omitted, index, code, image, lot  \* see LotRelocation

lotVars == <<elf, done, relocations, omitted, index, code, image, lot>>
vars == <<sources, wrapped, linked, order, stage, lotVars>>

Lot == INSTANCE LotRelocation
         WITH Names <- AllNames, MaxSymbols <- 2 * MaxSymbols,
              MaxReferences <- MaxReferences + MaxSymbols,
              SameNames <- TRUE, OwnReferences <- TRUE

Symbols == sources.symbols

\* A name is that of one symbol, but for those of symbols only one file sees.  The
\* symbols are numbered as the linker writes them.
Inputs ==
  {s \in [symbols : UNION {[1..n -> Source] : n \in 1..MaxSymbols},
          references : UNION {[1..n -> 1..MaxSymbols] : n \in 0..MaxReferences}] :
     /\ Range(s.references) \subseteq DOMAIN s.symbols
     /\ \A j, k \in DOMAIN s.symbols :
          /\ j # k /\ s.symbols[j].name = s.symbols[k].name =>
               "static" \in {s.symbols[j].kind, s.symbols[k].kind}
          /\ j < k /\ s.symbols[k].kind = "static" => s.symbols[j].kind = "static"}

Init ==
  /\ sources \in Inputs
  /\ wrapped = {} /\ linked = <<>> /\ order = <<>> /\ stage = "generate_wrappers"
  /\ elf = <<>> /\ done = 0 /\ relocations = <<>> /\ omitted = <<>> /\ index = 0
  /\ code = <<>> /\ image = <<>> /\ lot = <<>>
-----------------------------------------------------------------------------
\* generate_wrappers.py reads the objects of the target only.  The mutant takes
\* data for functions.
takes_data(symbol) == symbol.kind \in {"function", "data"}
is_wrapped(symbol) == symbol.kind = "function"

generate_wrappers ==
  /\ stage = "generate_wrappers"
  /\ wrapped' = {Symbols[k].name : k \in {j \in DOMAIN Symbols : is_wrapped(Symbols[j])}}
  /\ stage' = "link"
  /\ UNCHANGED <<sources, linked, order, lotVars>>

\* The wrapper of a name is a global function and refers through the GOT to the
\* global symbol of that name.
wrapper_of(name) ==
  [symbol |-> [name |-> Wrapper[name], global |-> TRUE, defined |-> TRUE],
   original |-> CHOOSE k \in DOMAIN Symbols :
                  Symbols[k].name = name /\ Symbols[k].kind # "static"]

Wrappers == LET names == SetToSeq(wrapped)
            IN  [k \in DOMAIN names |-> wrapper_of(names[k])]

References == sources.references \o [k \in DOMAIN Wrappers |-> Wrappers[k].original]

IsWrapper(k) == k > Len(Symbols)

\* The orders in which the linker may write n symbols: those of the source as they are
\* numbered, the wrappers, which are global, at any places after the statics.
Orders(n) ==
  LET statics == {k \in DOMAIN Symbols : Symbols[k].kind = "static"}
  IN  {[i \in 1..n |->
          IF i \in Range(at) THEN Len(Symbols) + CHOOSE k \in DOMAIN at : at[k] = i
          ELSE Cardinality((1..i) \ Range(at))] :
         at \in Injection(DOMAIN Wrappers, Cardinality(statics) + 1..n)}

link ==
  /\ stage = "link"
  /\ linked' = [k \in DOMAIN Symbols |->
                  [name |-> Symbols[k].name,
                   global |-> Symbols[k].kind # "static",
                   defined |-> Symbols[k].kind # "import"]]
                 \o [k \in DOMAIN Wrappers |-> Wrappers[k].symbol]
  /\ order' \in Orders(Len(Symbols) + Len(Wrappers))
  /\ stage' = "fix_names"
  /\ UNCHANGED <<sources, wrapped, lotVars>>
-----------------------------------------------------------------------------
(***************************************************************************)
(* fix_names.py, three calls of objcopy.  A call changes all symbols of a  *)
(* name, statics included; references are to symbols, not to names.        *)
(***************************************************************************)
Public == {n \in Names : \E k \in DOMAIN linked : linked[k].name = Wrapper[n]}

redefine_sym(symbols, from, to) ==
  [k \in DOMAIN symbols |->
     [symbols[k] EXCEPT !.name =
        IF \E n \in Public : from[n] = @ THEN to[CHOOSE n \in Public : from[n] = @] ELSE @]]

\* The mutant does without this call.
leave_global(symbols) == symbols
localize_symbol(symbols) ==
  [k \in DOMAIN symbols |->
     [symbols[k] EXCEPT !.global = @ /\ symbols[k].name \notin {Original[n] : n \in Public}]]

\* The script does not look at the result of objcopy: in the mutant the first call
\* failed.
first_call_fails(symbols) ==
  redefine_sym(localize_symbol(symbols), Wrapper, [n \in Names |-> n])
swap_names(symbols) ==
  redefine_sym(localize_symbol(redefine_sym(symbols, [n \in Names |-> n], Original)),
               Wrapper, [n \in Names |-> n])

\* objcopy writes local symbols before global ones, and leaves each kind in its order.
kept(places) ==
  LET at == {i \in DOMAIN order : order[i] \in places}
  IN  [i \in 1..Cardinality(at) |-> order[Lot!Nth(at, i)]]

fix_names ==
  /\ stage = "fix_names"
  /\ linked' = swap_names(linked)
  /\ LET globals == {k \in DOMAIN linked : linked'[k].global}
     IN  order' = kept(DOMAIN linked \ globals) \o kept(globals)
  /\ elf' = [executable |-> FALSE, main_is_entry |-> FALSE,
             symbols |-> [i \in DOMAIN order' |-> linked'[order'[i]]],
             references |->
               [r \in DOMAIN References |->
                  CHOOSE i \in DOMAIN order' : order'[i] = References[r]]]
  /\ stage' = "mkimage"
  /\ UNCHANGED <<sources, wrapped, done, relocations, omitted, index, code, image, lot>>

\* mkimage.py and the loader.
mkimage ==
  /\ stage = "mkimage"
  /\ Lot!Next
  /\ UNCHANGED <<sources, wrapped, linked, order, stage>>

Next == generate_wrappers \/ link \/ fix_names \/ mkimage

Spec == Init /\ [][Next]_vars
-----------------------------------------------------------------------------
\* Every variable keeps its type, and mkimage gets an ELF file a linker could have
\* written: no two global symbols share a name.
TypeOK ==
  /\ sources \in Inputs /\ wrapped \subseteq Names
  /\ linked \in Seq([name : AllNames, global : BOOLEAN, defined : BOOLEAN])
  /\ stage = "mkimage" => Range(order) = DOMAIN linked /\ Lot!WellFormed(elf)

\* What the library exports under a name: for a function of its own objects its
\* wrapper and nothing else, so that no other module enters the function with its
\* own LOT in r9; public data and public functions of archives are exported as they
\* are, the latter without a wrapper.  Every public symbol keeps its name.
ExportsAreGuarded ==
  image # <<>> =>
    LET public == {k \in DOMAIN Symbols : Symbols[k].kind \in {"function", "data", "archive"}}
        exported == Lot!exported_symbol_table
    IN  /\ Range(exported) = {Symbols[k].name : k \in public}
        /\ \A k \in public :
             LET place == order[Lot!Meaning(Symbols[k].name)]
             IN  IF Symbols[k].kind = "function"
                 THEN IsWrapper(place)
                      /\ Wrappers[place - Len(Symbols)].original = k
                 ELSE place = k

\* The symbol, by its place in linked, whose address the r-th reference reads.
Reads(r) == order[lot[code[r] \div 4]]

\* A wrapper of the loaded library calls the function it was made for, whatever
\* else has its name, is imported or is exported.
WrappersCallOriginals ==
  lot # <<>> =>
    \A k \in DOMAIN Wrappers :
      LET r == Len(sources.references) + k
      IN  Reads(r) = References[r] /\ ~IsWrapper(Reads(r))

\* The library's own code reads the symbol it was compiled for if that is a function of
\* its objects, whatever shares the name; if it is imported; if it is exported without
\* a wrapper, from a library that imports nothing; or if it is static and does not
\* share its name with a symbol that is imported or exported without a wrapper.  In all
\* other cases it reads another, which may be a wrapper only in a library with imports.
OwnCodeReads ==
  lot # <<>> =>
    \A r \in DOMAIN sources.references :
      LET wanted == sources.references[r]
          kind == Symbols[wanted].kind
          others == {Symbols[k].kind :
                       k \in {j \in DOMAIN Symbols : Symbols[j].name = Symbols[wanted].name}}
          imports == {k \in DOMAIN Symbols : Symbols[k].kind = "import"}
      IN  /\ IsWrapper(Reads(r)) => imports # {}
          /\ Reads(r) = wanted <=>
               \/ kind \in {"function", "import"}
               \/ kind \in {"data", "archive"} /\ imports = {}
               \/ kind = "static" /\ others \cap {"data", "archive", "import"} = {}
=============================================================================
