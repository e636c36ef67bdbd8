---------------------------- MODULE AddressesProofs ----------------------------
(***************************************************************************)
(* Proofs about Addresses, for sections of every size at every address:    *)
(* what the module's words and tables hold once it is loaded.              *)
(***************************************************************************)
EXTENDS Addresses, TLAPS

Stages == {"build_image", "relocate_init", "process_data", "process_local_relocations",
           "process_data_relocations", "set_entry", "loaded"}

Pointer(k) == elf.pointers[DataStart + k]
Constructor(k) == elf.pointers[InitStart + k]

\* What .data and .bss hold before they are relocated and afterwards.
Copied(k) == IF k < DataSize THEN Pointer(k) ELSE 0
Final(k) ==
  IF k < DataSize /\ Pointer(k) # Plain
  THEN IF section_of(Pointer(k)) = "init" THEN TextBase + Pointer(k) ELSE Meant(Pointer(k))
  ELSE IF Clobbered(k) THEN TextBase + Constructor(k) ELSE Copied(k)

\* What each step leaves for the steps after it.
Inv ==
  /\ elf \in Inputs
  /\ stage \in Stages
  /\ stage = "build_image" => image = <<>>
  /\ stage # "build_image" => image = Image
  /\ IF stage \in {"build_image", "relocate_init"} THEN init = <<>>
     ELSE init = [k \in 0..InitSize - 1 |-> Meant(Constructor(k))]
  /\ CASE stage \in {"build_image", "relocate_init", "process_data"} -> data = <<>>
       [] stage \in {"process_local_relocations", "process_data_relocations"} ->
            data = [k \in 0..DataSize + BssSize - 1 |-> Copied(k)]
       [] stage \in {"set_entry", "loaded"} ->
            data = [k \in 0..DataSize + BssSize - 1 |-> Final(k)]
  /\ refs # <<>> =>
       /\ refs.lot_index = LotIndex /\ refs.local = Meant(elf.symbol)
       /\ refs.exported = refs.local <=> section_of(elf.symbol) # "init"
  /\ entry = IF stage = "loaded" THEN entry_base(elf.entry) + elf.entry ELSE Plain

\* The sections are where their sizes put them.
LEMMA Arithmetic ==
  /\ TextSize \in Nat /\ InitSize \in Nat /\ DataSize \in Nat /\ BssSize \in Nat
  /\ TextBase \in Nat /\ InitBase \in Nat /\ DataBase \in Nat /\ LotIndex \in Nat
  /\ TextSize > 0 /\ TextBase > 0
  /\ InitStart \in Nat /\ DataStart \in Nat /\ BssStart \in Nat /\ End \in Nat
  /\ InitStart = TextSize /\ DataStart = InitStart + InitSize
  /\ BssStart = DataStart + DataSize /\ End = BssStart + BssSize
BY SectionAssumption DEF InitStart, DataStart, BssStart, End

\* What is packed into a word is unpacked from it.
LEMMA Packing ==
  ASSUME NEW n \in Nat, NEW s \in {"code", "data", "init"}
  PROVE  /\ unpack(pack(n, s)) = n
         /\ section(pack(n, s)) = SectionCode[s]
         /\ pack(n, s) \in Nat
<1>1. CASE s = "code"
  BY <1>1 DEF pack, unpack, section, SectionCode
<1>2. CASE s = "data"
  BY <1>2 DEF pack, unpack, section, SectionCode
<1>3. CASE s = "init"
  BY <1>3 DEF pack, unpack, section, SectionCode
<1> QED BY <1>1, <1>2, <1>3

\* The codes of the sections are told apart.
LEMMA Bases ==
  /\ get_base_address(SectionCode["code"]) = TextBase
  /\ get_base_address(SectionCode["data"]) = DataBase
  /\ get_base_address(SectionCode["init"]) = InitBase
BY DEF get_base_address, SectionCode

\* The section of an address and the place in it.
LEMMA Sections ==
  ASSUME NEW v \in 0..End - 1
  PROVE  /\ section_of(v) \in {"code", "data", "init"}
         /\ offset_of(v) \in Nat
         /\ section_of(v) = "code" => v < InitStart
         /\ section_of(v) = "init" => v >= InitStart /\ v < DataStart
         /\ section_of(v) = "data" => v >= DataStart
         /\ Meant(v) = get_base_address(SectionCode[section_of(v)]) + offset_of(v)
         /\ Meant(v) \in Nat
<1>1. CASE v < InitStart
  BY <1>1, Arithmetic, Bases DEF section_of, offset_of, Meant
<1>2. CASE v >= InitStart /\ v < DataStart
  BY <1>2, Arithmetic, Bases DEF section_of, offset_of, Meant
<1>3. CASE v >= DataStart
  BY <1>3, Arithmetic, Bases DEF section_of, offset_of, Meant
<1> QED BY <1>1, <1>2, <1>3, Arithmetic

\* Other modules find a symbol where it is, unless it is in .init_arrays.
LEMMA Exporting ==
  ASSUME NEW v \in 0..End - 1
  PROVE  (find_symbol(pack(offset_of(v), section_of(v))) = Meant(v))
           <=> section_of(v) # "init"
<1> DEFINE word == pack(offset_of(v), section_of(v))
<1>1. /\ section(word) = SectionCode[section_of(v)] /\ unpack(word) = offset_of(v)
      /\ Meant(v) = get_base_address(SectionCode[section_of(v)]) + offset_of(v)
      /\ offset_of(v) \in Nat
  BY Sections, Packing
<1>2. find_symbol(word) =
        (IF SectionCode[section_of(v)] = SectionCode.code THEN TextBase ELSE DataBase)
          + offset_of(v)
  BY <1>1 DEF find_symbol
<1> HIDE DEF word
<1>3. CASE section_of(v) = "code"
  BY <1>1, <1>2, <1>3, Bases DEF word
<1>4. CASE section_of(v) = "data"
  <2>1. SectionCode["data"] # SectionCode.code
    BY DEF SectionCode
  <2> QED BY <1>1, <1>2, <1>4, <2>1, Bases DEF word
<1>5. CASE section_of(v) = "init"
  <2>1. SectionCode["init"] # SectionCode.code
    BY DEF SectionCode
  <2>2. v >= InitStart /\ v < DataStart
    BY <1>5, Sections
  <2>3. InitBase # DataBase
    BY <2>2, Arithmetic, SectionAssumption
  <2>4. find_symbol(word) = DataBase + offset_of(v) /\ Meant(v) = InitBase + offset_of(v)
    BY <1>1, <1>2, <1>5, <2>1, Bases
  <2> QED BY <1>1, <1>5, <2>3, <2>4, Arithmetic DEF word
<1> QED BY <1>3, <1>4, <1>5, Sections DEF word

\* The entry point is found in .text, and nowhere else.
LEMMA EntryPoint ==
  ASSUME NEW v \in 0..End - 1
  PROVE  /\ entry_base(v) + v \in Nat
         /\ (entry_base(v) + v = Meant(v)) <=> section_of(v) = "code"
BY Arithmetic DEF entry_base, Meant, section_of

\* A word of a table of constructors is below the end of the text.
LEMMA Constructors ==
  ASSUME elf \in Inputs, NEW k \in 0..InitSize - 1
  PROVE  /\ InitStart + k \in Places /\ section_of(InitStart + k) = "init"
         /\ Constructor(k) \in 0..TextSize - 1
         /\ Meant(Constructor(k)) = Constructor(k) + TextBase
<1> DEFINE p == InitStart + k
<1>1. p \in Places /\ section_of(p) = "init"
  BY Arithmetic DEF Places, section_of
<1>2. elf.pointers[p] \in 0..InitStart - 1
  BY <1>1 DEF Inputs
<1> QED BY <1>1, <1>2, Arithmetic DEF Meant, section_of, Constructor

\* A word of .data is plain or an address.
LEMMA DataWord ==
  ASSUME elf \in Inputs, NEW k \in 0..DataSize - 1
  PROVE  /\ DataStart + k \in Places /\ section_of(DataStart + k) = "data"
         /\ Pointer(k) \in {Plain} \cup 0..End - 1
<1>1. DataStart + k \in Places /\ section_of(DataStart + k) = "data"
  BY Arithmetic DEF Places, section_of
<1> QED BY <1>1 DEF Inputs, Pointer
-----------------------------------------------------------------------------
\* The relocation of a word of .data writes the address that was meant into it,
\* unless that is in .init_arrays.
LEMMA DataRelocation ==
  ASSUME elf \in Inputs, NEW k \in 0..DataSize - 1, Pointer(k) # Plain
  PROVE  /\ data_relocation(DataStart + k).to = k
         /\ relocated(data_relocation(DataStart + k)) = Final(k)
<1> DEFINE p == DataStart + k
           v == Pointer(k)
<1>1. v \in 0..End - 1 /\ section_of(p) = "data" /\ elf.pointers[p] = v
  BY DataWord DEF Pointer
<1>2. p >= DataStart /\ p - DataStart = k
  BY Arithmetic
<1>3. data_relocation(p) =
        [to |-> k, from |-> IF v < DataStart THEN pack(v, "code")
                            ELSE pack(v - DataStart, "data")]
  BY <1>1, <1>2 DEF data_relocation
<1>4. Final(k) = IF section_of(v) = "init" THEN TextBase + v ELSE Meant(v)
  BY Arithmetic DEF Final
<1>5. CASE v < DataStart
  <2>1. unpack(pack(v, "code")) = v /\ section(pack(v, "code")) = SectionCode["code"]
    BY <1>1, Arithmetic, Packing
  <2>2. relocated(data_relocation(p)) = TextBase + v
    BY <1>3, <1>5, <2>1, Bases DEF relocated
  <2>3. section_of(v) # "init" => Meant(v) = TextBase + v
    BY <1>1, <1>5, Arithmetic DEF section_of, Meant
  <2> QED BY <1>3, <1>4, <2>2, <2>3
<1>6. CASE v >= DataStart
  <2>1. v - DataStart \in Nat
    BY <1>1, <1>6, Arithmetic
  <2>2. /\ unpack(pack(v - DataStart, "data")) = v - DataStart
        /\ section(pack(v - DataStart, "data")) = SectionCode["data"]
    BY <2>1, Packing
  <2>3. data_relocation(p).from = pack(v - DataStart, "data")
    BY <1>1, <1>3, <1>6, Arithmetic
  <2>4. relocated(data_relocation(p)) = DataBase + (v - DataStart)
    BY <2>2, <2>3, Bases DEF relocated
  <2>5. section_of(v) = "data" /\ Meant(v) = DataBase + v - DataStart
    BY <1>1, <1>6, Arithmetic DEF section_of, Meant
  <2> QED BY <1>1, <1>3, <1>4, <2>1, <2>4, <2>5, Arithmetic
<1> QED BY <1>1, <1>5, <1>6, Arithmetic

\* The relocation of a word of .init_arrays is an address in .text for the word of
\* .data or .bss at its offset.
LEMMA InitRelocation ==
  ASSUME elf \in Inputs, NEW k \in 0..InitSize - 1
  PROVE  /\ data_relocation(InitStart + k).to = k
         /\ relocated(data_relocation(InitStart + k)) = TextBase + Constructor(k)
<1> DEFINE p == InitStart + k
           v == Constructor(k)
<1>1. v \in 0..InitStart - 1 /\ elf.pointers[p] = v
  BY Constructors, Arithmetic DEF Constructor
<1>2. ~(p >= DataStart) /\ p - InitStart = k /\ v < InitStart
  BY <1>1, Arithmetic
<1>3. data_relocation(p) = [to |-> k, from |-> pack(v, "code")]
  BY <1>1, <1>2 DEF data_relocation
<1>4. unpack(pack(v, "code")) = v /\ section(pack(v, "code")) = SectionCode["code"]
  BY <1>1, Arithmetic, Packing
<1> QED BY <1>3, <1>4, Bases DEF relocated

\* The relocations of a word of .data or .bss: its own, and before it that of the
\* word at its offset in .init_arrays.
LEMMA RelocationsOfWord ==
  ASSUME elf \in Inputs, NEW k \in 0..DataSize + BssSize - 1
  PROVE  LET at == {p \in Relocated : data_relocation(p).to = k}
         IN  /\ DataStart + k \in at <=> k < DataSize /\ Pointer(k) # Plain
             /\ InitStart + k \in at /\ InitStart + k < DataStart <=> Clobbered(k)
             /\ \A p \in at : p = DataStart + k \/ (p = InitStart + k /\ p < DataStart)
<1> DEFINE at == {p \in Relocated : data_relocation(p).to = k}
<1>1. DataStart + k \in at <=> k < DataSize /\ Pointer(k) # Plain
  <2>1. CASE k < DataSize
    <3>1. DataStart + k \in Relocated <=> Pointer(k) # Plain
      BY <2>1, Arithmetic, DataWord DEF Relocated, relocation_type, Pointer
    <3>2. Pointer(k) # Plain => data_relocation(DataStart + k).to = k
      BY <2>1, Arithmetic, DataRelocation
    <3> QED BY <2>1, <3>1, <3>2
  <2>2. CASE ~(k < DataSize)
    <3>1. DataStart + k \notin Places
      BY <2>2, Arithmetic DEF Places
    <3> QED BY <2>2, <3>1 DEF Relocated
  <2> QED BY <2>1, <2>2
<1>2. InitStart + k \in at /\ InitStart + k < DataStart <=> Clobbered(k)
  <2>1. CASE k < InitSize
    <3>1. k \in 0..InitSize - 1 /\ InitStart + k < DataStart
      BY <2>1, Arithmetic
    <3>2. Constructor(k) # Plain
      BY <3>1, Constructors, Arithmetic DEF Plain
    <3>3. InitStart + k \in Relocated <=> elf.init_type = "R_ARM_ABS32"
      BY <3>1, <3>2, Constructors DEF Relocated, relocation_type, Constructor
    <3>4. data_relocation(InitStart + k).to = k
      BY <3>1, InitRelocation
    <3> QED BY <2>1, <3>1, <3>3, <3>4 DEF Clobbered
  <2>2. CASE ~(k < InitSize)
    <3>1. ~(InitStart + k < DataStart)
      BY <2>2, Arithmetic
    <3> QED BY <2>2, <3>1 DEF Clobbered
  <2> QED BY <2>1, <2>2
<1>3. ASSUME NEW p \in at
      PROVE  p = DataStart + k \/ (p = InitStart + k /\ p < DataStart)
  <2>1. p \in Places /\ p \in Int /\ data_relocation(p).to = k
    BY Arithmetic DEF Relocated, Places
  <2>2. data_relocation(p).to = p - (IF p >= DataStart THEN DataStart ELSE InitStart)
    BY DEF data_relocation
  <2> QED BY <2>1, <2>2, Arithmetic
<1> QED BY <1>1, <1>2, <1>3

\* The last element of a pair or a singleton, as Max picks it.
LEMMA MaxIsLast ==
  ASSUME NEW S, NEW m \in S, m \in Int, \A x \in S : x \in Int /\ x <= m
  PROVE  Max(S) = m
<1>1. \E x \in S : \A y \in S : x >= y
  OBVIOUS
<1>2. Max(S) \in S /\ \A y \in S : Max(S) >= y
  BY <1>1 DEF Max
<1>3. Max(S) \in Int /\ Max(S) <= m
  BY <1>2
<1>4. Max(S) >= m
  BY <1>2
<1> QED BY <1>3, <1>4

\* Data relocations make of each word what Final says.
LEMMA Relocating ==
  ASSUME elf \in Inputs, NEW k \in 0..DataSize + BssSize - 1
  PROVE  LET at == {p \in Relocated : data_relocation(p).to = k}
         IN  (IF at = {} THEN Copied(k) ELSE relocated(data_relocation(Max(at)))) = Final(k)
<1> DEFINE at == {p \in Relocated : data_relocation(p).to = k}
<1>1. /\ DataStart + k \in at <=> k < DataSize /\ Pointer(k) # Plain
      /\ InitStart + k \in at /\ InitStart + k < DataStart <=> Clobbered(k)
      /\ \A p \in at : p = DataStart + k \/ (p = InitStart + k /\ p < DataStart)
  BY RelocationsOfWord
<1> HIDE DEF at
<1>2. CASE k < DataSize /\ Pointer(k) # Plain
  <2>1. Max(at) = DataStart + k
    BY <1>1, <1>2, Arithmetic, MaxIsLast
  <2>2. relocated(data_relocation(DataStart + k)) = Final(k)
    BY <1>2, Arithmetic, DataRelocation
  <2>3. at # {}
    BY <1>1, <1>2
  <2> QED BY <2>1, <2>2, <2>3 DEF at
<1>3. CASE ~(k < DataSize /\ Pointer(k) # Plain) /\ Clobbered(k)
  <2>1. Max(at) = InitStart + k
    BY <1>1, <1>3, Arithmetic, MaxIsLast
  <2>2. relocated(data_relocation(InitStart + k)) = TextBase + Constructor(k)
    BY <1>3, Arithmetic, InitRelocation DEF Clobbered
  <2>3. at # {}
    BY <1>1, <1>3
  <2> QED BY <1>3, <2>1, <2>2, <2>3 DEF Final, at
<1>4. CASE ~(k < DataSize /\ Pointer(k) # Plain) /\ ~Clobbered(k)
  <2>1. at = {}
    BY <1>1, <1>4
  <2> QED BY <1>4, <2>1 DEF Final, at
<1> QED BY <1>2, <1>3, <1>4
-----------------------------------------------------------------------------
LEMMA Initially == Init => Inv
BY DEF Init, Inv, Stages

LEMMA Building == Inv /\ build_image => Inv'
<1> SUFFICES ASSUME Inv, build_image PROVE Inv'
  OBVIOUS
<1>1. elf' = elf /\ refs' = refs /\ stage' = "relocate_init"
      /\ init' = <<>> /\ data' = <<>> /\ entry' = Plain
  BY DEF Inv, build_image
<1>2. image' = Image'
  BY <1>1 DEF build_image, Image, Relocated, relocation_type, data_relocation
<1> QED BY <1>1, <1>2 DEF Inv, Stages

LEMMA InitRelocated == Inv /\ relocate_init => Inv'
<1> SUFFICES ASSUME Inv, relocate_init PROVE Inv'
  OBVIOUS
<1>1. elf' = elf /\ image' = image /\ refs' = refs /\ stage' = "process_data"
      /\ data' = <<>> /\ entry' = Plain
  BY DEF Inv, relocate_init
<1>2. image = Image /\ image' = Image'
  BY <1>1 DEF Inv, Image, Relocated, relocation_type, data_relocation, relocate_init
<1>3. ASSUME NEW k \in 0..InitSize - 1
      PROVE  LET word == image.init_arrays[k]
             IN  (IF word < TextSize THEN word + TextBase ELSE word) = Meant(Constructor(k))
  <2>1. image.init_arrays[k] = Constructor(k)
    BY <1>2 DEF Image, Constructor
  <2>2. Constructor(k) < TextSize /\ Meant(Constructor(k)) = Constructor(k) + TextBase
    BY Constructors, Arithmetic DEF Inv
  <2> QED BY <2>1, <2>2
<1>4. init' = [k \in 0..InitSize - 1 |-> Meant(Constructor(k))]
  BY <1>3 DEF relocate_init
<1> QED BY <1>1, <1>2, <1>4 DEF Inv, Stages, Constructor

LEMMA DataProcessed == Inv /\ process_data => Inv'
<1> SUFFICES ASSUME Inv, process_data PROVE Inv'
  OBVIOUS
<1>1. elf' = elf /\ image' = image /\ init' = init /\ refs' = refs /\ entry' = entry
      /\ stage' = "process_local_relocations" /\ stage = "process_data"
  BY DEF process_data
<1>2. image = Image /\ image' = Image'
  BY <1>1 DEF Inv, Image, Relocated, relocation_type, data_relocation
<1>3. \A k \in 0..DataSize - 1 : image.data[k] = Pointer(k)
  BY <1>2 DEF Image, Pointer
<1>4. data' = [k \in 0..DataSize + BssSize - 1 |-> Copied(k)]
  BY <1>3, Arithmetic DEF process_data, Copied
<1> QED BY <1>1, <1>2, <1>4 DEF Inv, Stages, Constructor, Copied, Pointer

LEMMA ReferencesRelocated == Inv /\ process_local_relocations => Inv'
<1> SUFFICES ASSUME Inv, process_local_relocations PROVE Inv'
  OBVIOUS
<1> DEFINE v == elf.symbol
<1>1. elf' = elf /\ image' = image /\ init' = init /\ data' = data /\ entry' = entry
      /\ stage = "process_local_relocations" /\ stage' = "process_data_relocations"
  BY DEF process_local_relocations
<1>2. image = Image /\ image' = Image'
  BY <1>1 DEF Inv, Image, Relocated, relocation_type, data_relocation
<1>3. v \in 0..End - 1
  BY DEF Inv, Inputs
<1>4. image.symbol = pack(offset_of(v), section_of(v))
      /\ image.local.index = pack(LotIndex, section_of(v))
      /\ image.local.target_offset = offset_of(v)
  BY <1>2 DEF Image
<1>5. unpack(image.local.index) = LotIndex
      /\ section(image.local.index) = SectionCode[section_of(v)]
  BY <1>3, <1>4, Arithmetic, Sections, Packing
<1>6. refs'.lot_index = LotIndex /\ refs'.local = Meant(v)
      /\ refs'.exported = find_symbol(image.symbol)
  BY <1>3, <1>4, <1>5, Sections DEF process_local_relocations
<1>7. refs'.exported = refs'.local <=> section_of(v) # "init"
  BY <1>3, <1>4, <1>6, Exporting
<1>8. Inv!7'
  BY <1>1, <1>6, <1>7
<1> QED BY <1>1, <1>2, <1>8 DEF Inv, Stages, Constructor, Copied, Pointer

LEMMA DataRelocated == Inv /\ process_data_relocations => Inv'
<1> SUFFICES ASSUME Inv, process_data_relocations PROVE Inv'
  OBVIOUS
<1>1. elf' = elf /\ image' = image /\ init' = init /\ refs' = refs /\ entry' = entry
      /\ stage = "process_data_relocations" /\ stage' = "set_entry"
  BY DEF process_data_relocations
<1>2. image = Image /\ image' = Image'
  BY <1>1 DEF Inv, Image, Relocated, relocation_type, data_relocation
<1>3. /\ DOMAIN image.data_relocations = Relocated
      /\ \A p \in Relocated : image.data_relocations[p] = data_relocation(p)
  BY <1>2 DEF Image
<1>4. data = [k \in 0..DataSize + BssSize - 1 |-> Copied(k)] /\ elf \in Inputs
  BY <1>1 DEF Inv
<1>5. ASSUME NEW k \in 0..DataSize + BssSize - 1
      PROVE  LET at == {p \in DOMAIN image.data_relocations :
                          image.data_relocations[p].to = k}
             IN  (IF at = {} THEN data[k]
                  ELSE relocated(image.data_relocations[Max(at)])) = Final(k)
  <2> DEFINE at == {p \in Relocated : data_relocation(p).to = k}
  <2>1. at = {p \in DOMAIN image.data_relocations : image.data_relocations[p].to = k}
    BY <1>3
  <2>2. (IF at = {} THEN Copied(k) ELSE relocated(data_relocation(Max(at)))) = Final(k)
    BY <1>4, Relocating
  <2>3. at # {} => Max(at) \in Relocated
    <3>1. \A p \in at : p = DataStart + k \/ (p = InitStart + k /\ p < DataStart)
      BY <1>4, RelocationsOfWord
    <3>2. CASE DataStart + k \in at
      BY <3>1, <3>2, Arithmetic, MaxIsLast
    <3>3. CASE DataStart + k \notin at
      BY <3>1, <3>3, Arithmetic, MaxIsLast
    <3> QED BY <3>2, <3>3
  <2>4. data[k] = Copied(k)
    BY <1>4
  <2> HIDE DEF at
  <2> QED BY <1>3, <2>1, <2>2, <2>3, <2>4
<1>6. data' = [k \in 0..DataSize + BssSize - 1 |-> Final(k)]
  BY <1>4, <1>5 DEF process_data_relocations
<1> QED BY <1>1, <1>2, <1>6
        DEF Inv, Stages, Constructor, Copied, Pointer, Final, Clobbered

LEMMA EntrySet == Inv /\ set_entry => Inv'
<1> SUFFICES ASSUME Inv, set_entry PROVE Inv'
  OBVIOUS
<1>1. elf' = elf /\ image' = image /\ init' = init /\ data' = data /\ refs' = refs
      /\ stage = "set_entry" /\ stage' = "loaded"
  BY DEF set_entry
<1>2. image = Image /\ image' = Image'
  BY <1>1 DEF Inv, Image, Relocated, relocation_type, data_relocation
<1>3. entry' = entry_base(elf.entry) + elf.entry
  BY <1>2 DEF set_entry, Image
<1> QED BY <1>1, <1>2, <1>3
        DEF Inv, Stages, Constructor, Copied, Pointer, Final, Clobbered

LEMMA Stuttering == Inv /\ UNCHANGED vars => Inv'
BY DEF Inv, vars, Image, Relocated, relocation_type, data_relocation, Pointer,
       Constructor, Copied, Final, Clobbered

\* Inv is an invariant of the pipeline from the ELF file to the loaded module.
THEOREM AddressInvariance == Spec => []Inv
<1>1. Inv /\ [Next]_vars => Inv'
  BY Building, InitRelocated, DataProcessed, ReferencesRelocated, DataRelocated,
     EntrySet, Stuttering DEF Next
<1> QED BY Initially, <1>1, PTL DEF Spec
-----------------------------------------------------------------------------
\* TypeOK: in particular the loader takes every symbol for a place in a section.
THEOREM AddressTypes == Spec => []TypeOK
<1>1. Inv => TypeOK
  <2> SUFFICES ASSUME Inv PROVE TypeOK
    OBVIOUS
  <2> DEFINE v == elf.symbol
  <2>1. v \in 0..End - 1 /\ elf.entry \in 0..End - 1
    BY DEF Inv, Inputs
  <2>2. image # <<>> => TypeOK!2!2
    <3> SUFFICES ASSUME image # <<>> PROVE TypeOK!2!2
      OBVIOUS
    <3>1. image.symbol = pack(offset_of(v), section_of(v))
          /\ image.local.index = pack(LotIndex, section_of(v))
      BY DEF Inv, Image
    <3>2. section(image.symbol) = SectionCode[section_of(v)]
          /\ unpack(image.symbol) = offset_of(v)
          /\ section(image.local.index) = SectionCode[section_of(v)]
      <4>1. section_of(v) \in {"code", "data", "init"} /\ offset_of(v) \in Nat
        BY <2>1, Sections
      <4>2. LotIndex \in Nat
        BY Arithmetic
      <4> HIDE DEF v
      <4> QED BY <3>1, <4>1, <4>2, Packing
    <3>3. SectionCode[section_of(v)] \in {0, 1, 2}
      BY <2>1, Sections DEF SectionCode
    <3>4. Meant(v) = get_base_address(section(image.symbol)) + unpack(image.symbol)
      BY <2>1, <3>2, Sections
    <3> QED BY <2>1, <3>2, <3>3, <3>4
  <2>3. \A k \in 0..InitSize - 1 : Meant(Constructor(k)) \in Int
    BY Constructors, Arithmetic DEF Inv
  <2>4. init # <<>> => init \in [0..InitSize - 1 -> Int]
    BY <2>3 DEF Inv
  <2>5. ASSUME NEW k \in 0..DataSize + BssSize - 1 PROVE Copied(k) \in Int /\ Final(k) \in Int
    <3>1. k < DataSize => Pointer(k) \in Int /\ (Pointer(k) # Plain => Meant(Pointer(k)) \in Int)
      <4>1. SUFFICES ASSUME k < DataSize
                     PROVE  Pointer(k) \in Int
                            /\ (Pointer(k) # Plain => Meant(Pointer(k)) \in Int)
        OBVIOUS
      <4>2. Pointer(k) \in {Plain} \cup 0..End - 1
        BY <4>1, DataWord, Arithmetic DEF Inv
      <4>3. Pointer(k) # Plain => Meant(Pointer(k)) \in Nat
        BY <4>2, Sections
      <4> QED BY <4>2, <4>3, Arithmetic DEF Plain
    <3>2. Clobbered(k) => Constructor(k) \in Int
      <4>1. SUFFICES ASSUME Clobbered(k) PROVE Constructor(k) \in Int
        OBVIOUS
      <4>2. k \in 0..InitSize - 1
        BY <4>1, Arithmetic DEF Clobbered
      <4> QED BY <4>2, Constructors, Arithmetic DEF Inv
    <3> QED BY <3>1, <3>2, Arithmetic DEF Copied, Final
  <2>6. data # <<>> => data \in [0..DataSize + BssSize - 1 -> Int]
    BY <2>5 DEF Inv, Stages
  <2>7. entry \in Int
    BY <2>1, EntryPoint DEF Inv, Plain
  <2>8. elf \in Inputs
    BY DEF Inv
  <2> QED BY <2>2, <2>4, <2>6, <2>7, <2>8 DEF TypeOK
<1> QED BY <1>1, AddressInvariance, PTL

\* ReferencesAgree, for sections of every size at every address: the offset table,
\* the exported symbol and the entry point, and the exceptions.
THEOREM References == Spec => []ReferencesAgree
<1>1. Inv => ReferencesAgree
  <2> SUFFICES ASSUME Inv PROVE ReferencesAgree
    OBVIOUS
  <2>1. elf.entry \in 0..End - 1
    BY DEF Inv, Inputs
  <2> QED BY <2>1, EntryPoint DEF Inv, ReferencesAgree
<1> QED BY <1>1, AddressInvariance, PTL

\* PointersAreMeant, for sections of every size at every address: which words hold
\* what they were meant to hold, and which two kinds do not.
THEOREM Pointers == Spec => []PointersAreMeant
<1>1. Inv => PointersAreMeant
  <2> SUFFICES ASSUME Inv, stage = "loaded" PROVE PointersAreMeant
    BY DEF PointersAreMeant
  <2>1. ASSUME NEW k \in 0..InitSize - 1 PROVE init[k] = Value(InitStart + k)
    <3>1. Constructor(k) # Plain
      BY Constructors, Arithmetic DEF Inv, Plain
    <3> QED BY <3>1 DEF Inv, Value, Constructor
  <2>2. \A k \in 0..DataSize + BssSize - 1 : data[k] = Final(k)
    BY DEF Inv
  <2>3. ASSUME NEW k \in 0..DataSize + BssSize - 1, Clobbered(k)
        PROVE  TextBase + Constructor(k) \in Nat \ {0}
    <3>1. k \in 0..InitSize - 1
      BY <2>3, Arithmetic DEF Clobbered
    <3>2. Constructor(k) \in 0..TextSize - 1
      BY <3>1, Constructors DEF Inv
    <3> QED BY <3>2, Arithmetic
  <2>4. ASSUME NEW k \in 0..DataSize - 1
        PROVE  (data[k] = Value(DataStart + k)) <=>
                 IF Pointer(k) = Plain THEN ~Clobbered(k)
                 ELSE section_of(Pointer(k)) # "init"
    <3>1. data[k] = Final(k) /\ k < DataSize /\ k \in 0..DataSize + BssSize - 1
      BY <2>2, Arithmetic
    <3>2. Value(DataStart + k) = IF Pointer(k) = Plain THEN Plain ELSE Meant(Pointer(k))
      BY DEF Value, Pointer
    <3>3. CASE Pointer(k) = Plain
      <4>1. Final(k) = IF Clobbered(k) THEN TextBase + Constructor(k) ELSE Plain
        BY <3>1, <3>3 DEF Final, Copied
      <4>2. Clobbered(k) => TextBase + Constructor(k) # Plain
        BY <2>3, <3>1 DEF Plain
      <4> QED BY <3>1, <3>2, <3>3, <4>1, <4>2
    <3>4. CASE Pointer(k) # Plain
      <4> DEFINE w == Pointer(k)
      <4>1. w \in 0..End - 1
        BY <3>4, DataWord DEF Inv
      <4>2. Final(k) = IF section_of(w) = "init" THEN TextBase + w ELSE Meant(w)
        BY <3>1, <3>4 DEF Final
      <4>3. section_of(w) = "init" => Meant(w) # TextBase + w
        <5>1. SUFFICES ASSUME section_of(w) = "init" PROVE Meant(w) # TextBase + w
          OBVIOUS
        <5>2. InitSize > 0
          BY <4>1, <5>1, Sections, Arithmetic
        <5>3. Meant(w) = InitBase + w - InitStart
          BY <5>1 DEF Meant
        <5> HIDE DEF w
        <5> QED BY <4>1, <5>2, <5>3, Arithmetic, SectionAssumption
      <4> QED BY <3>1, <3>2, <3>4, <4>2, <4>3
    <3> QED BY <3>3, <3>4
  <2>5. ASSUME NEW k \in DataSize..DataSize + BssSize - 1
        PROVE  (data[k] = 0) <=> ~Clobbered(k)
    <3>1. k \in 0..DataSize + BssSize - 1 /\ ~(k < DataSize)
      BY Arithmetic
    <3>2. data[k] = IF Clobbered(k) THEN TextBase + Constructor(k) ELSE 0
      BY <2>2, <3>1 DEF Final, Copied
    <3> QED BY <2>3, <3>1, <3>2
  <2> QED BY <2>1, <2>4, <2>5 DEF PointersAreMeant, Pointer
<1> QED BY <1>1, AddressInvariance, PTL
=============================================================================
