------------------------------- MODULE Addresses -------------------------------
(***************************************************************************)
(* Addresses in the running module, from the ELF file to RAM.  In the ELF  *)
(* file .text, .init_arrays, .data and .bss lie one after the other from   *)
(* address 0.  At run time each is somewhere else: the text stays in the   *)
(* image, .init_arrays is copied to one vector and .data with .bss to      *)
(* another.  mkimage.py turns every address that must be adjusted into a   *)
(* section and an offset, packed into one word; the loader unpacks it and  *)
(* turns it into an address again.                                         *)
(*                                                                         *)
(* Abstractions.  The unit is the word: every section is a number of       *)
(* words, and so is an address.  A word is what is stored in it; Plain     *)
(* stands for what holds no address.                                       *)
(***************************************************************************)
EXTENDS Integers, FiniteSetsExt, SequencesExt

CONSTANTS
  TextSize, InitSize, DataSize, BssSize,  \* the sections
  TextBase, InitBase, DataBase,           \* where they are at run time
  InitTypes,    \* types of relocation in .init_arrays
  LotIndex      \* the entry of the offset table (LOT) for the symbol

\* The image holds .init_arrays right after .text, and no vector can be there.
ASSUME SectionAssumption ==
  /\ {TextSize, InitSize, DataSize, BssSize, TextBase, InitBase, DataBase, LotIndex}
       \subseteq Nat
  /\ TextSize > 0 /\ TextBase > 0
  /\ InitSize > 0 => InitBase # TextBase + TextSize /\ InitBase # DataBase
  /\ InitTypes \subseteq {"R_ARM_TARGET1", "R_ARM_ABS32"}

Plain == -1

InitStart == TextSize
DataStart == TextSize + InitSize
BssStart == TextSize + InitSize + DataSize
End == TextSize + InitSize + DataSize + BssSize

section_of(v) ==
  IF v < InitStart THEN "code" ELSE IF v < DataStart THEN "init" ELSE "data"

\* Where what is at an address in the ELF file is at run time: what the
\* compiler and the linker mean by the address.
Meant(v) ==
  CASE section_of(v) = "code" -> TextBase + v
    [] section_of(v) = "init" -> InitBase + v - InitStart
    [] section_of(v) = "data" -> DataBase + v - DataStart

VARIABLES
  elf,       \* pointers in initialised memory, a symbol, the entry point
  image,     \* what mkimage writes; <<>> before
  init,      \* Module::init_; <<>> before relocate_init
  data,      \* Module::data_ and bss_; <<>> before process_data
  refs,      \* the LOT entry of the symbol, its address there, its address as an
             \* exported symbol; <<>> before
  entry,     \* Executable::entry_; Plain before set_entry
  stage      \* what load_module does next

vars == <<elf, image, init, data, refs, entry, stage>>

Places == InitStart..BssStart - 1

\* A pointer is a word of .init_arrays or .data, and the address it holds.  Tables
\* of constructors hold functions and nothing else: relocate_init looks at every
\* word.
Inputs ==
  {e \in [pointers : [Places -> {Plain} \cup 0..End - 1],
          symbol : 0..End - 1, entry : 0..End - 1, init_type : InitTypes] :
     \A p \in Places : section_of(p) = "init" => e.pointers[p] \in 0..InitStart - 1}

Init ==
  /\ elf \in Inputs
  /\ image = <<>> /\ init = <<>> /\ data = <<>> /\ refs = <<>> /\ entry = Plain
  /\ stage = "build_image"
-----------------------------------------------------------------------------
(***************************************************************************)
(* mkimage.py                                                              *)
(***************************************************************************)
\* The place in its section of a symbol; .bss counts as "data".  The mutant takes
\* .init_arrays to be part of the data.
offset_after_text(v) == IF section_of(v) = "code" THEN v ELSE v - InitStart
offset_of(v) ==
  CASE section_of(v) = "code" -> v
    [] section_of(v) = "init" -> v - InitStart
    [] section_of(v) = "data" -> v - DataStart

\* The section goes into the two lowest bits; the mutant is a shift by one.
SectionCode == [code |-> 0, data |-> 1, init |-> 2]
pack_in_one_bit(n, section) == 2 * n + SectionCode[section]
pack(n, section) == 4 * n + SectionCode[section]

relocation_type(p) == IF section_of(p) = "init" THEN elf.init_type ELSE "R_ARM_ABS32"

\* __process_data_relocations, of a word at p: which section the word is in tells
\* what it is relative to and how the target is given, but is not written down.
\* The value of the symbol and the word before relocation are both the target.
data_relocation(p) ==
  LET start == IF p >= DataStart THEN DataStart ELSE InitStart
      target == elf.pointers[p]
  IN  [to |-> p - start,
       from |-> IF target < start THEN pack(target, "code")
                ELSE pack(target - start, section_of(p))]

Relocated ==
  {p \in Places : elf.pointers[p] # Plain /\ relocation_type(p) = "R_ARM_ABS32"}

\* The symbol is exported, and a LOT entry is relocated to it.  The relocations of
\* data are in the order of the words in the ELF file.
Image ==
  [init_arrays |-> [k \in 0..InitSize - 1 |-> elf.pointers[InitStart + k]],
   data |-> [k \in 0..DataSize - 1 |-> elf.pointers[DataStart + k]],
   symbol |-> pack(offset_of(elf.symbol), section_of(elf.symbol)),
   local |-> [index |-> pack(LotIndex, section_of(elf.symbol)),
              target_offset |-> offset_of(elf.symbol)],
   entry |-> elf.entry,
   data_relocations |-> [p \in Relocated |-> data_relocation(p)]]

build_image ==
  /\ stage = "build_image"
  /\ image' = Image
  /\ stage' = "relocate_init"
  /\ UNCHANGED <<elf, init, data, refs, entry>>
-----------------------------------------------------------------------------
(***************************************************************************)
(* The loader, in the order of load_module.                                *)
(***************************************************************************)
section(word) == word % 4
unpack(word) == word \div 4

\* Module::relocate_init runs before data_ and bss_ are there, and with init_end
\* equal to text_end: only words below text_end change.
relocate_init ==
  /\ stage = "relocate_init"
  /\ init' = [k \in 0..InitSize - 1 |->
                LET word == image.init_arrays[k]
                IN  IF word < TextSize THEN word + TextBase ELSE word]
  /\ stage' = "process_data"
  /\ UNCHANGED <<elf, image, data, refs, entry>>

\* .data is copied, .bss follows it in the same memory and is cleared.
process_data ==
  /\ stage = "process_data"
  /\ data' = [k \in 0..DataSize + BssSize - 1 |->
                IF k < DataSize THEN image.data[k] ELSE 0]
  /\ stage' = "process_local_relocations"
  /\ UNCHANGED <<elf, image, init, refs, entry>>

get_base_address(code) ==
  CASE code = SectionCode.code -> TextBase
    [] code = SectionCode.data -> DataBase
    [] code = SectionCode.init -> InitBase

\* Module::find_symbol knows text and, for all other sections, data.
find_symbol(symbol) ==
  (IF section(symbol) = SectionCode.code THEN TextBase ELSE DataBase) + unpack(symbol)

\* find_symbol is what other modules get.
process_local_relocations ==
  /\ stage = "process_local_relocations"
  /\ refs' = [lot_index |-> unpack(image.local.index),
              local |-> get_base_address(section(image.local.index))
                          + image.local.target_offset,
              exported |-> find_symbol(image.symbol)]
  /\ stage' = "process_data_relocations"
  /\ UNCHANGED <<elf, image, init, data, entry>>

\* A data relocation is written to data_, whatever the word was in; of two to the
\* same word the later one stays.  The mutant adds the base to the word that is there.
keep_word(r) == data[r.to] + get_base_address(section(r.from))
relocated(r) == get_base_address(section(r.from)) + unpack(r.from)

process_data_relocations ==
  /\ stage = "process_data_relocations"
  /\ data' = [k \in DOMAIN data |->
                LET at == {p \in DOMAIN image.data_relocations :
                             image.data_relocations[p].to = k}
                IN  IF at = {} THEN data[k]
                    ELSE relocated(image.data_relocations[Max(at)])]
  /\ stage' = "set_entry"
  /\ UNCHANGED <<elf, image, init, refs, entry>>

\* The section is found by the place in the file, which is then added to its base.
entry_base(e) ==
  IF e < TextSize THEN TextBase
  ELSE IF e < TextSize + InitSize THEN InitBase
  ELSE IF e < TextSize + InitSize + DataSize THEN DataBase
  ELSE DataBase + DataSize

set_entry ==
  /\ stage = "set_entry"
  /\ entry' = entry_base(image.entry) + image.entry
  /\ stage' = "loaded"
  /\ UNCHANGED <<elf, image, init, data, refs>>

Next ==
  \/ build_image \/ relocate_init \/ process_data
  \/ process_local_relocations \/ process_data_relocations \/ set_entry

Spec == Init /\ [][Next]_vars
-----------------------------------------------------------------------------
\* Every variable keeps its type; a symbol lies inside its section.
TypeOK ==
  /\ elf \in Inputs
  /\ image # <<>> =>
       /\ section(image.symbol) \in {0, 1, 2} /\ section(image.local.index) \in {0, 1, 2}
       /\ get_base_address(section(image.symbol)) + unpack(image.symbol)
            \in {Meant(v) : v \in 0..End - 1}
  /\ init # <<>> => init \in [0..InitSize - 1 -> Int]
  /\ data # <<>> => data \in [0..DataSize + BssSize - 1 -> Int]
  /\ entry \in Int

Value(p) == IF elf.pointers[p] = Plain THEN Plain ELSE Meant(elf.pointers[p])

\* A word of .data or .bss as far from its start as a relocated word of
\* .init_arrays is from its own.
Clobbered(k) == elf.init_type = "R_ARM_ABS32" /\ k < InitSize

\* Once the module is loaded a word of .data or of a table of constructors holds the
\* run-time address it was meant to hold, and a word without a relocation is as it
\* was, but for two cases: a pointer in .data to .init_arrays is taken for one to
\* .text, and a relocation of type R_ARM_ABS32 of a word in .init_arrays is applied
\* to the word of .data or .bss at the same offset, if that has none of its own.  So
\* no other relocation is lost, applied twice or applied to another word.
PointersAreMeant ==
  stage = "loaded" =>
    /\ \A k \in 0..InitSize - 1 : init[k] = Value(InitStart + k)
    /\ \A k \in 0..DataSize - 1 :
         LET pointer == elf.pointers[DataStart + k]
         IN  (data[k] = Value(DataStart + k)) <=>
               IF pointer = Plain THEN ~Clobbered(k) ELSE section_of(pointer) # "init"
    /\ \A k \in DataSize..DataSize + BssSize - 1 : (data[k] = 0) <=> ~Clobbered(k)

\* The symbol has one address: the module's own code finds it through its entry of
\* the LOT where it was put, and other modules find it there by name unless it is in
\* .init_arrays.  The entry point is where it was meant to be if it is in .text, and
\* nowhere else.
ReferencesAgree ==
  /\ refs # <<>> =>
       /\ refs.lot_index = LotIndex /\ refs.local = Meant(elf.symbol)
       /\ refs.exported = refs.local <=> section_of(elf.symbol) # "init"
  /\ stage = "loaded" =>
       (entry = Meant(elf.entry) <=> section_of(elf.entry) = "code")
=============================================================================
