------------------------------ MODULE YaffLayout ------------------------------
(***************************************************************************)
(* The layout of a YAFF image: mkimage.py (build_image) writes the header, *)
(* the name, the names of the libraries, the relocation tables, the symbol *)
(* tables and the sections one after the other; Parser (parser.cpp,        *)
(* item_table.hpp, dependency.cpp, symbol.cpp) finds each of them again    *)
(* from the end of the one before, by reading the lengths of the names.    *)
(*                                                                         *)
(* Abstractions.  An image is a sequence of 4-byte words up to the text,   *)
(* and a word is the number of bytes in it before its first zero byte,     *)
(* which is all that decides where a string ends.  A name is its length.   *)
(* The words of relocations and symbol values are 0.  A section is its     *)
(* length.                                                                 *)
(***************************************************************************)
EXTENDS Naturals, SequencesExt

CONSTANTS
  NameLengths,    \* lengths of the name of a module
  ItemLengths,    \* lengths of the names of libraries and symbols
  MaxItems,       \* bound on the length of each table
  Sections,       \* lengths of .text, .init_arrays and .data
  Bases           \* addresses an image may be at, those of its first byte

ASSUME LayoutAssumption ==
  /\ NameLengths \subseteq Nat /\ ItemLengths \subseteq Nat /\ MaxItems \in Nat
  /\ Sections \subseteq [text : Nat, init : Nat, data : Nat]
  /\ \A b \in Bases : b \in Nat /\ b % 4 = 0

VARIABLES
  module,   \* what mkimage puts into the image
  base,     \* the address of the image
  image,    \* its words; <<>> until it is written
  written,  \* the place of each part, by mkimage
  parsed    \* the place of each part, by Parser; <<>> until it is constructed

vars == <<module, base, image, written, parsed>>

HeaderSize == 48    \* sizeof(Header), packed
alignment == 4      \* written to the header by mkimage

Names == UNION {[1..n -> ItemLengths] : n \in 0..MaxItems}

Modules ==
  [name : NameLengths, libraries : Names, relocations : [1..3 -> 0..MaxItems],
   imported : Names, exported : Names, sections : Sections]

Init ==
  /\ module \in Modules /\ base \in Bases
  /\ image = <<>> /\ written = <<>> /\ parsed = <<>>
-----------------------------------------------------------------------------
\* Application.__align_bytes, and align() of align.hpp.  The mutant pads nothing.
unpadded(n, a) == n
align(n, a) == IF n % a = 0 THEN n ELSE n + (a - (n % a))

\* A name with its trailing zero, padded to words.
String(length) ==
  [k \in 1..align(length + 1, 4) \div 4 |->
     IF 4 * k <= length THEN 4 ELSE IF 4 * (k - 1) < length THEN length % 4 ELSE 0]

Zeros(n) == [k \in 1..n |-> 0]

Strings(names) == FlattenSeq([k \in DOMAIN names |-> String(names[k])])
Symbols(names) == FlattenSeq([k \in DOMAIN names |-> <<0>> \o String(names[k])])

\* The parts in the order of the file; a relocation is two words.
Parts ==
  <<Zeros(HeaderSize \div 4), String(module.name), Strings(module.libraries)>>
    \o [k \in 1..3 |-> Zeros(2 * module.relocations[k])]
    \o <<Symbols(module.imported), Symbols(module.exported)>>

\* Where the k-th part starts, as an offset in the file.
Offset(k) == 4 * Len(FlattenSeq(SubSeq(Parts, 1, k - 1)))

Layout ==
  [libraries |-> Offset(3), symbol_table |-> Offset(4), local |-> Offset(5),
   data |-> Offset(6), imported |-> Offset(7), exported |-> Offset(8),
   text |-> align(Offset(9), 16),
   init |-> align(Offset(9), 16) + module.sections.text,
   data_section |-> align(Offset(9), 16) + module.sections.text + module.sections.init]

build_image ==
  /\ image = <<>>
  /\ image' = FlattenSeq(Parts)
  /\ written' = Layout
  /\ UNCHANGED <<module, base, parsed>>
-----------------------------------------------------------------------------
\* The word at an address; what follows the tables is padding.
Word(address) ==
  LET k == (address - base) \div 4 + 1
  IN  IF k \in DOMAIN image THEN image[k] ELSE 0

\* The length of the string at an address.
strlen(address) ==
  LET full == {k \in 0..Len(image) : \A j \in 0..k - 1 : Word(address + 4 * j) = 4}
      k == CHOOSE k \in full : k + 1 \notin full
  IN  4 * k + Word(address + 4 * k)

\* Dependency::size and Symbol::size.  The mutants forget the trailing zero.
unterminated_size(address) == align(strlen(address), alignment)
dependency_size(address) == align(strlen(address) + 1, alignment)
bare_symbol_size(address) == 4 + align(strlen(address + 4), alignment)
symbol_size(address) == 4 + align(strlen(address + 4) + 1, alignment)

\* ItemTable: the address of each item, and one past the last one.
Dependencies(address, n) ==
  LET at[k \in 0..n] == IF k = 0 THEN address ELSE at[k - 1] + dependency_size(at[k - 1])
  IN  at
SymbolTable(address, n) ==
  LET at[k \in 0..n] == IF k = 0 THEN address ELSE at[k - 1] + symbol_size(at[k - 1])
  IN  at

\* RelocationTable::address and size: one past the last relocation.
RelocationsEnd(address, amount) == address + 8 * amount

\* The initialisers of Parser's constructor, in order, with the amounts of the
\* header.  The name's end is found without its trailing zero.
Parse ==
  LET libraries == align(base + HeaderSize + strlen(base + HeaderSize), alignment)
      symbol_table == Dependencies(libraries, Len(module.libraries))[Len(module.libraries)]
      local == RelocationsEnd(symbol_table, module.relocations[1])
      data == RelocationsEnd(local, module.relocations[2])
      imported == RelocationsEnd(data, module.relocations[3])
      exported == SymbolTable(imported, Len(module.imported))[Len(module.imported)]
      end == SymbolTable(exported, Len(module.exported))[Len(module.exported)]
      text == align(end, 16)
      init == text + module.sections.text
  IN  [libraries |-> libraries, symbol_table |-> symbol_table, local |-> local,
       data |-> data, imported |-> imported, exported |-> exported,
       text |-> text, init |-> init, data_section |-> init + module.sections.init]

parse ==
  /\ image # <<>> /\ parsed = <<>>
  /\ parsed' = Parse
  /\ UNCHANGED <<module, base, image, written>>

Next == build_image \/ parse

Spec == Init /\ [][Next]_vars
-----------------------------------------------------------------------------
Tables == {"libraries", "symbol_table", "local", "data", "imported", "exported"}
SectionPlaces == {"text", "init", "data_section"}
Places == Tables \cup SectionPlaces

\* Every variable keeps its type; mkimage always leaves a string terminated.
TypeOK ==
  /\ module \in Modules /\ base \in Bases
  /\ image \in Seq(0..4)
  /\ written # <<>> => written \in [Places -> Nat] /\ written.text % 16 = 0
  /\ parsed # <<>> => parsed \in [Places -> Nat]

\* The parser finds every table where mkimage put it, whatever the lengths of the
\* tables and of the names in them; and the sections too, exactly when the image
\* is at an address that is a multiple of 16 (mkimage aligns the text in the file,
\* Parser in memory).  Readme.md of the name: "N bytes - name in ASCII with
\* trailing \0 aligned to alignment".
ParserFindsParts ==
  parsed # <<>> =>
    \A p \in Places :
      parsed[p] = base + written[p] <=> p \in Tables \/ base % 16 = 0

\* SymbolTable::operator[] and the iteration over the libraries read each name as
\* it was written, in the order it was written.
NamesAreRead ==
  parsed # <<>> =>
    LET symbols == SymbolTable(parsed.imported, Len(module.imported))
        names == Dependencies(parsed.libraries, Len(module.libraries))
    IN  /\ \A k \in DOMAIN module.imported :
             strlen(symbols[k - 1] + 4) = module.imported[k]
        /\ \A k \in DOMAIN module.libraries :
             strlen(names[k - 1]) = module.libraries[k]
=============================================================================
