----------------------------- MODULE LotRelocation -----------------------------
(***************************************************************************)
(* Access to symbols through the offset table (LOT), from the ELF file to  *)
(* the running module: elf_parser.py and mkimage.py read the symbols,      *)
(* RelocationSet gives every GOT reference an entry of the LOT, the code   *)
(* is patched with the offset of that entry, the image lists what goes     *)
(* into each entry, and the loader fills the table.                        *)
(*                                                                         *)
(* Abstractions.  A symbol is an index into the ELF symbol table, which    *)
(* also stands for its address at run time (for an undefined symbol, the   *)
(* address the loader finds under its name).  A reference is a place in    *)
(* the code and the symbol it wants.  Only references of type              *)
(* R_ARM_GOT_BREL reach the LOT; the types mkimage skips are left out.     *)
(* Bounds: MaxSymbols symbols, MaxReferences references.                   *)
(***************************************************************************)
EXTENDS Naturals, FiniteSetsExt, SequencesExt

CONSTANTS
  Names,          \* names of symbols; "main" is special
  MaxSymbols,
  MaxReferences,
  SameNames,      \* whether a static symbol may have the name of another one
  OwnReferences   \* whether code that imports symbols may refer to symbols it
                  \* exports

ASSUME BoundAssumption ==
  /\ MaxSymbols \in Nat /\ MaxReferences \in Nat
  /\ SameNames \in BOOLEAN /\ OwnReferences \in BOOLEAN

VARIABLES
  elf,          \* the input: symbols, references, and the kind of module
  done,         \* references that process_relocations has gone through
  relocations,  \* RelocationSet.relocations of type "local" and "symbol_table"
  omitted,      \* RelocationSet.omitted_relocations
  index,        \* RelocationSet.index
  code,         \* the word at each reference, once patched
  image,        \* the relocation tables of the image; <<>> before it is built
  lot           \* Module::lot_; <<>> before the module is loaded

vars == <<elf, done, relocations, omitted, index, code, image, lot>>

\* global: of global binding and not hidden, or called main.
Symbol == [name : Names, global : BOOLEAN, defined : BOOLEAN]
Unset == 0
-----------------------------------------------------------------------------
\* The k-th member of a set of places, in their order.
Nth(S, k) == CHOOSE s \in S : Cardinality({t \in S : t <= s}) = k

(***************************************************************************)
(* Symbols.  The parser keeps them in a dictionary: a name has one place,  *)
(* that of the first symbol so called, and one meaning, that of the last.  *)
(***************************************************************************)
Meaning(name) ==
  Max({s \in DOMAIN elf.symbols : elf.symbols[s].name = name})

Places ==
  {s \in DOMAIN elf.symbols :
     \A t \in 1..s - 1 : elf.symbols[t].name # elf.symbols[s].name}

\* Application.__process_symbols
localization(name) ==
  LET symbol == elf.symbols[Meaning(name)]
  IN  IF ~symbol.global THEN "internal"
      ELSE IF ~symbol.defined THEN "imported"
      ELSE IF elf.executable /\ ~(name = "main" /\ elf.main_is_entry) THEN "internal"
      ELSE "exported"

\* Application.__build_symbol_tables: the names, in the order of the dictionary.
symbol_table(visibility) ==
  LET places == {s \in Places : localization(elf.symbols[s].name) = visibility}
  IN  [k \in 1..Cardinality(places) |-> elf.symbols[Nth(places, k)].name]

imported_symbol_table == symbol_table("imported")
exported_symbol_table == symbol_table("exported")

\* Statics come first in an ELF symbol table and are defined; the linker refuses
\* two global symbols with one name.
WellFormed(e) ==
  /\ \A s \in DOMAIN e.symbols :
       /\ ~e.symbols[s].global => e.symbols[s].defined /\ e.symbols[s].name # "main"
       /\ e.symbols[s].global => \A t \in s..Len(e.symbols) : e.symbols[t].global
  /\ \A s, t \in DOMAIN e.symbols :
       /\ s # t /\ e.symbols[s].name = e.symbols[t].name
       => SameNames /\ ~(e.symbols[s].global /\ e.symbols[t].global)

Inputs ==
  {e \in [executable : BOOLEAN,
          main_is_entry : BOOLEAN,
          symbols : UNION {[1..n -> Symbol] : n \in 1..MaxSymbols},
          references : UNION {[1..n -> 1..MaxSymbols] : n \in 0..MaxReferences}] :
     /\ e.main_is_entry =>
          e.executable /\ \E s \in DOMAIN e.symbols : e.symbols[s].name = "main"
     /\ Range(e.references) \subseteq DOMAIN e.symbols
     /\ WellFormed(e)}

Name(r) == elf.symbols[elf.references[r]].name
-----------------------------------------------------------------------------
Init ==
  /\ elf \in Inputs
  /\ \/ OwnReferences
     \/ imported_symbol_table = <<>>
     \/ \A r \in DOMAIN elf.references : localization(Name(r)) # "exported"
  /\ done = 0
  /\ relocations = <<>>
  /\ omitted = <<>>
  /\ index = 0
  /\ code = <<>>
  /\ image = <<>>
  /\ lot = <<>>

\* RelocationSet.__get_relocation
Found(name) == {k \in DOMAIN relocations : relocations[k].name = name}

\* Every reference to a symbol that is neither exported nor imported gets an
\* entry of its own.
add_local_relocation(r) ==
  /\ localization(Name(r)) = "internal"
  /\ relocations' = Append(relocations,
       [name |-> Name(r), value |-> elf.references[r], offset |-> r,
        index |-> index, type |-> "local"])
  /\ index' = index + 1
  /\ UNCHANGED omitted

\* The first reference to any other symbol gets an entry, the rest share it.
\* The mutants take the next free index, the last one given, one less.
next_index(name) == index
last_index(name) == index - 1
one_less(name) == relocations[Min(Found(name))].index - 1
shared_index(name) == relocations[Min(Found(name))].index
add_symbol_table_relocation(r) ==
  /\ localization(Name(r)) # "internal"
  /\ \/ /\ Found(Name(r)) # {}
        /\ omitted' = Append(omitted, [offset |-> r, index |-> shared_index(Name(r))])
        /\ UNCHANGED <<relocations, index>>
     \/ /\ Found(Name(r)) = {}
        /\ relocations' = Append(relocations,
             [name |-> Name(r), value |-> elf.references[r], offset |-> r,
              index |-> index, type |-> "symbol_table"])
        /\ index' = index + 1
        /\ UNCHANGED omitted

\* Application.__process_relocations, one reference at a time.
process_relocation ==
  /\ code = <<>> /\ done < Len(elf.references)
  /\ add_local_relocation(done + 1) \/ add_symbol_table_relocation(done + 1)
  /\ done' = done + 1
  /\ UNCHANGED <<elf, code, image, lot>>

\* Application.__fix_offsets_in_code
fix_offsets_in_code ==
  /\ code = <<>> /\ done = Len(elf.references)
  /\ code' = [r \in DOMAIN elf.references |->
                4 * (CHOOSE x \in Range(relocations) \cup Range(omitted) :
                       x.offset = r).index]
  /\ UNCHANGED <<elf, done, relocations, omitted, index, image, lot>>

get_relocations(type) ==
  LET places == {k \in DOMAIN relocations : relocations[k].type = type}
  IN  [k \in 1..Cardinality(places) |-> relocations[Nth(places, k)]]

\* The place of a name in a symbol table, counted from 0.
place(table, name) == Min({k \in DOMAIN table : table[k] = name}) - 1

\* The imported symbols are searched, then the exported ones; the index does not
\* tell which of the tables it is of.
symbol_table_index(name) ==
  IF name \in Range(imported_symbol_table) THEN place(imported_symbol_table, name)
  ELSE place(exported_symbol_table, name)

\* Application.__build_binary_relocation_table; in the image the imported symbol
\* table is followed by the exported one.
tables ==
  LET symbolic == get_relocations("symbol_table")
      local == get_relocations("local")
  IN  [symbol_table |->
         [k \in DOMAIN symbolic |->
            [index |-> symbolic[k].index,
             symbol |-> symbol_table_index(symbolic[k].name)]],
       local |->
         [k \in DOMAIN local |-> [index |-> local[k].index, value |-> local[k].value]],
       symbols |-> imported_symbol_table \o exported_symbol_table]

\* Application.__build_image
build_image ==
  /\ Len(code) = Len(elf.references) /\ image = <<>>
  /\ image' = tables
  /\ UNCHANGED <<elf, done, relocations, omitted, index, code, lot>>

\* Loader::find_symbol: only global symbols have a name outside the module.
find_symbol(name) ==
  CHOOSE s \in DOMAIN elf.symbols : elf.symbols[s].name = name /\ elf.symbols[s].global

\* The LOT has the size that the header announces; process_symbol_table_relocations
\* and then process_local_relocations fill it.
filled_lot ==
  LET symbolic ==
        [k \in DOMAIN image.symbol_table |->
           [index |-> image.symbol_table[k].index,
            value |-> find_symbol(image.symbols[image.symbol_table[k].symbol + 1])]]
      writes == symbolic \o image.local
      at(i) == {k \in DOMAIN writes : writes[k].index = i}
  IN  [i \in 0..Len(writes) - 1 |->
         IF at(i) = {} THEN Unset ELSE writes[Max(at(i))].value]

\* Loader::load_module
load_module ==
  /\ image # <<>> /\ lot = <<>>
  /\ lot' = filled_lot
  /\ UNCHANGED <<elf, done, relocations, omitted, index, code, image>>

Next == process_relocation \/ fix_offsets_in_code \/ build_image \/ load_module

Spec == Init /\ [][Next]_vars
-----------------------------------------------------------------------------
TypeOK ==
  /\ elf \in Inputs /\ done \in 0..Len(elf.references) /\ index \in Nat
  /\ relocations \in Seq([name : Names, value : Nat, offset : Nat, index : Nat,
                          type : {"local", "symbol_table"}])
  /\ omitted \in Seq([offset : Nat, index : Nat])

\* The n entries that the header announces (symbol table and local relocations)
\* have the indices 0..n-1, each once, and patched code uses no others: the
\* loader, which checks no index, fills the whole LOT and nothing else.
IndicesAreDense ==
  /\ index = Len(relocations)
  /\ \A k \in DOMAIN relocations : relocations[k].index = k - 1
  /\ \A k \in DOMAIN omitted : omitted[k].index < index

\* The word patched into the code at a reference is the offset of an entry that
\* was made for a symbol of that name, and for a symbol of the module itself, for
\* that very symbol: references that share an entry want the same symbol.
CodeUsesItsEntry ==
  \A r \in DOMAIN code :
    LET entry == code[r] \div 4
    IN  /\ entry < index
        /\ relocations[entry + 1].name = Name(r)
        /\ relocations[entry + 1].type = "local" =>
             relocations[entry + 1].value = elf.references[r]

\* In the loaded module every reference in the code reads the address of the
\* symbol that it was compiled to refer to.
CodeReadsItsSymbol ==
  lot # <<>> =>
    \A r \in DOMAIN elf.references : lot[code[r] \div 4] = elf.references[r]

\* Readme.md, of a symbol table relocation: "symtab index [...] index in symbol
\* table".  The symbol with the index in the table the loader reads is the one
\* that the reference is to.
IndexIsInSymbolTable ==
  image # <<>> =>
    \A k \in DOMAIN image.symbol_table :
      image.symbols[image.symbol_table[k].symbol + 1] =
        get_relocations("symbol_table")[k].name

\* mkimage.py: "Found duplicated symbol" [...] "Symbols processing failed".
DuplicatesRefused ==
  image # <<>> =>
    \A s, t \in DOMAIN elf.symbols :
      elf.symbols[s].name = elf.symbols[t].name => s = t
=============================================================================
