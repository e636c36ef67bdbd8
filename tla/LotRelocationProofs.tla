-------------------------- MODULE LotRelocationProofs --------------------------
(***************************************************************************)
(* Theorems about LotRelocation, for ELF files of every size: the entries  *)
(* of the LOT are numbered without gaps, patched code uses the entry made  *)
(* for the symbol it refers to, and in the loaded module the code reads    *)
(* the symbol it was compiled to refer to.  The last takes the two         *)
(* conditions that the runs on exports and statics drop: symbols have      *)
(* different names, and code that imports symbols refers to none that it   *)
(* exports.                                                                *)
(***************************************************************************)
EXTENDS LotRelocation, SequenceLemmas, FiniteSetTheorems, TLAPS

Relocation == [name : Names, value : Nat, offset : Nat, index : Nat,
               type : {"local", "symbol_table"}]
Omitted == [offset : Nat, index : Nat]

\* x, of relocations or omitted, says where the reference r finds its symbol.
Serves(x, r) ==
  /\ x.index \in 0..index - 1
  /\ relocations[x.index + 1].name = Name(r)
  /\ relocations[x.index + 1].type = "local" =>
       relocations[x.index + 1].value = elf.references[r]

Entries == Range(relocations) \cup Range(omitted)

\* Each reference gone through has an entry, and only such have one.
EachServed ==
  /\ \A x \in Entries : x.offset \in 1..done /\ Serves(x, x.offset)
  /\ \A r \in 1..done : \E x \in Entries : x.offset = r

\* Only references to internal symbols make entries of type "local".
LocalAreInternal ==
  \A k \in DOMAIN relocations :
    relocations[k].type = "local" => localization(relocations[k].name) = "internal"

Inv ==
  /\ TypeOK /\ IndicesAreDense /\ EachServed /\ LocalAreInternal /\ CodeUsesItsEntry

\* The references of an input are symbols, which have names.
LEMMA NameOfReference ==
  ASSUME elf \in Inputs, NEW r \in 1..Len(elf.references)
  PROVE  /\ elf.references \in Seq(Nat)
         /\ DOMAIN elf.references = 1..Len(elf.references)
         /\ Len(elf.references) \in Nat
         /\ elf.references[r] \in Nat /\ Name(r) \in Names
<1>1. PICK n \in 0..MaxReferences : elf.references \in [1..n -> 1..MaxSymbols]
  BY BoundAssumption DEF Inputs
<1>2. PICK m \in 1..MaxSymbols : elf.symbols \in [1..m -> Symbol]
  BY BoundAssumption DEF Inputs
<1>3. /\ elf.references \in Seq(Nat) /\ Len(elf.references) = n
      /\ DOMAIN elf.references = 1..n /\ n \in Nat
  BY <1>1, BoundAssumption
<1>4. elf.references[r] \in 1..m
  <2>1. Range(elf.references) \subseteq DOMAIN elf.symbols
    BY DEF Inputs
  <2> QED BY <1>2, <1>3, <2>1 DEF Range
<1>5. Name(r) \in Names
  BY <1>2, <1>4 DEF Name, Symbol
<1> QED BY <1>2, <1>3, <1>4, <1>5

LEMMA InitInv == Init => Inv
<1> SUFFICES ASSUME Init PROVE Inv
  OBVIOUS
<1>1. Len(elf.references) \in Nat
  <2>1. PICK n \in 0..MaxReferences : elf.references \in [1..n -> 1..MaxSymbols]
    BY BoundAssumption DEF Init, Inputs
  <2> QED BY <2>1, BoundAssumption
<1>2. TypeOK
  BY <1>1 DEF Init, TypeOK
<1>3. Entries = {}
  BY DEF Init, Entries, Range
<1>4. EachServed /\ LocalAreInternal
  BY <1>3 DEF Init, EachServed, LocalAreInternal
<1>5. IndicesAreDense /\ CodeUsesItsEntry
  BY DEF Init, IndicesAreDense, CodeUsesItsEntry
<1> QED BY <1>2, <1>4, <1>5 DEF Inv

LEMMA RangeOfAppend ==
  ASSUME NEW T, NEW seq \in Seq(T), NEW e \in T
  PROVE  Range(Append(seq, e)) = Range(seq) \cup {e}
<1>1. /\ Len(seq) \in Nat /\ DOMAIN seq = 1..Len(seq)
      /\ DOMAIN Append(seq, e) = 1..Len(seq) + 1
      /\ \A k \in 1..Len(seq) : Append(seq, e)[k] = seq[k]
      /\ Append(seq, e)[Len(seq) + 1] = e
  OBVIOUS
<1> QED BY <1>1 DEF Range

\* A new entry: relocations grows, and the entries there were stay.
LEMMA NewEntryInv ==
  ASSUME Inv, code = <<>>, done < Len(elf.references),
         UNCHANGED <<elf, code, omitted>>, done' = done + 1, index' = index + 1,
         NEW type \in {"local", "symbol_table"},
         type = "local" => localization(Name(done + 1)) = "internal",
         relocations' = Append(relocations,
           [name |-> Name(done + 1), value |-> elf.references[done + 1],
            offset |-> done + 1, index |-> index, type |-> type])
  PROVE  Inv'
<1> DEFINE r == done + 1
           e == [name |-> Name(r), value |-> elf.references[r],
                 offset |-> r, index |-> index, type |-> type]
<1>1. /\ relocations \in Seq(Relocation) /\ omitted \in Seq(Omitted)
      /\ elf \in Inputs /\ done \in 0..Len(elf.references) /\ index \in Nat
  BY DEF Inv, TypeOK, Relocation, Omitted
<1>2. Len(elf.references) \in Nat
  <2>1. PICK n \in 0..MaxReferences : elf.references \in [1..n -> 1..MaxSymbols]
    BY <1>1, BoundAssumption DEF Inputs
  <2> QED BY <2>1, BoundAssumption
<1>3. r \in 1..Len(elf.references) /\ r \in Nat
  BY <1>1, <1>2
<1>4. elf.references[r] \in Nat /\ Name(r) \in Names
  BY <1>1, <1>3, NameOfReference
<1>5. e \in Relocation
  BY <1>1, <1>3, <1>4 DEF Relocation
<1>6. /\ e.name = Name(r) /\ e.value = elf.references[r] /\ e.offset = r
      /\ e.index = index /\ e.type = type
  OBVIOUS
<1>7. relocations' = Append(relocations, e)
  OBVIOUS
<1> HIDE DEF e
<1>8. /\ relocations' \in Seq(Relocation)
      /\ Len(relocations) = index /\ Len(relocations') = index + 1
      /\ DOMAIN relocations = 1..index /\ DOMAIN relocations' = 1..index + 1
      /\ \A k \in 1..index : relocations'[k] = relocations[k]
      /\ relocations'[index + 1] = e
  BY <1>1, <1>5, <1>7, PushIsAppend DEF Inv, IndicesAreDense
<1>9. TypeOK'
  BY <1>1, <1>2, <1>3, <1>8 DEF TypeOK, Relocation, Omitted
<1>10. IndicesAreDense'
  <2>1. \A k \in 1..index : relocations'[k].index = k - 1
    BY <1>8 DEF Inv, IndicesAreDense
  <2>2. relocations'[index + 1].index = index
    BY <1>6, <1>8
  <2>3. \A k \in 1..index + 1 : k \in 1..index \/ k = index + 1
    BY <1>1
  <2>4. \A k \in DOMAIN relocations' : relocations'[k].index = k - 1
    <3>1. (index + 1) - 1 = index
      BY <1>1
    <3> QED BY <1>8, <2>1, <2>2, <2>3, <3>1
  <2>5. \A k \in DOMAIN omitted' : omitted'[k].index < index'
    <3>1. \A k \in DOMAIN omitted : omitted[k].index \in Nat
      <4>1. \A k \in DOMAIN omitted : omitted[k] \in Omitted
        BY <1>1
      <4> QED BY <4>1 DEF Omitted
    <3> QED BY <1>1, <3>1 DEF Inv, IndicesAreDense
  <2> QED BY <1>8, <2>4, <2>5 DEF IndicesAreDense
<1>11. CodeUsesItsEntry'
  BY DEF CodeUsesItsEntry
<1>12. \A n : localization(n)' = localization(n)
  BY DEF localization, Meaning
<1>13. LocalAreInternal'
  <2>1. SUFFICES ASSUME NEW k \in 1..index + 1, relocations'[k].type = "local"
                 PROVE  localization(relocations'[k].name) = "internal"
    BY <1>8, <1>12 DEF LocalAreInternal
  <2>2. CASE k \in 1..index
    BY <1>8, <2>1, <2>2 DEF Inv, LocalAreInternal
  <2>3. CASE k = index + 1
    BY <1>6, <1>8, <2>1, <2>3
  <2>4. k \in 1..index \/ k = index + 1
    BY <1>1
  <2> QED BY <2>2, <2>3, <2>4
<1>14. \A n : Name(n)' = Name(n)
  BY DEF Name
<1>15. Entries' = Entries \cup {e}
  <2>1. Range(relocations)' = Range(relocations) \cup {e}
    BY <1>1, <1>5, <1>7, RangeOfAppend
  <2> QED BY <2>1 DEF Entries
<1>16. \A x \in Entries : Serves(x, x.offset) => Serves(x, x.offset)'
  <2>1. SUFFICES ASSUME NEW x \in Entries, Serves(x, x.offset) PROVE Serves(x, x.offset)'
    OBVIOUS
  <2>2. x.index \in 0..index - 1
    BY <2>1 DEF Serves
  <2>3. x.index + 1 \in 1..index /\ x.index \in 0..index' - 1
    BY <1>1, <2>2
  <2>4. relocations'[x.index + 1] = relocations[x.index + 1]
    BY <1>8, <2>3
  <2> QED BY <1>14, <2>1, <2>3, <2>4 DEF Serves
<1>17. \A x, q : x = e /\ q = r => Serves(x, q)'
  <2>1. index \in 0..index' - 1
    BY <1>1
  <2> QED BY <1>6, <1>8, <1>14, <2>1 DEF Serves
<1>18. EachServed'
  <2>1. \A x \in Entries : x.offset \in 1..done'
    BY <1>1, <1>2 DEF Inv, EachServed
  <2>2. e.offset \in 1..done'
    BY <1>1, <1>2, <1>6
  <2>3. \A x \in Entries' : x.offset \in 1..done' /\ Serves(x, x.offset)'
    BY <1>6, <1>15, <1>16, <1>17, <2>1, <2>2 DEF Inv, EachServed
  <2>4. ASSUME NEW q \in 1..done' PROVE \E x \in Entries' : x.offset = q
    <3>1. CASE q \in 1..done
      BY <1>15, <3>1 DEF Inv, EachServed
    <3>2. CASE q = r
      BY <1>6, <1>15, <3>2
    <3> QED BY <1>1, <1>2, <3>1, <3>2
  <2> QED BY <2>3, <2>4 DEF EachServed
<1> QED BY <1>9, <1>10, <1>11, <1>13, <1>18 DEF Inv

\* A shared entry: the reference joins the first entry made for its name.
LEMMA SharedEntryInv ==
  ASSUME Inv, code = <<>>, done < Len(elf.references),
         UNCHANGED <<elf, code, relocations, index>>, done' = done + 1,
         localization(Name(done + 1)) # "internal",
         Found(Name(done + 1)) # {},
         omitted' = Append(omitted,
           [offset |-> done + 1, index |-> shared_index(Name(done + 1))])
  PROVE  Inv'
<1> DEFINE r == done + 1
           k == Min(Found(Name(r)))
           e == [offset |-> r, index |-> shared_index(Name(r))]
<1>1. /\ relocations \in Seq(Relocation) /\ omitted \in Seq(Omitted)
      /\ elf \in Inputs /\ done \in 0..Len(elf.references) /\ index \in Nat
  BY DEF Inv, TypeOK, Relocation, Omitted
<1>2. Len(elf.references) \in Nat
  <2>1. PICK n \in 0..MaxReferences : elf.references \in [1..n -> 1..MaxSymbols]
    BY <1>1, BoundAssumption DEF Inputs
  <2> QED BY <2>1, BoundAssumption
<1>3. r \in 1..Len(elf.references) /\ r \in Nat
  BY <1>1, <1>2
<1>4. DOMAIN relocations = 1..index
  BY <1>1 DEF Inv, IndicesAreDense
<1>5. k \in Found(Name(r))
  <2>1. Found(Name(r)) \in SUBSET Nat
    BY <1>1, <1>4 DEF Found
  <2> QED BY <2>1, MinIsLeast
<1>6. k \in 1..index /\ relocations[k].name = Name(r)
  BY <1>4, <1>5 DEF Found
<1>7. relocations[k].index = k - 1 /\ relocations[k].type # "local"
  BY <1>4, <1>6 DEF Inv, IndicesAreDense, LocalAreInternal
<1>8. e.offset = r /\ e.index = k - 1
  BY <1>7 DEF shared_index
<1>9. e \in Omitted
  BY <1>3, <1>6, <1>7 DEF Omitted, shared_index
<1>10. omitted' = Append(omitted, e)
  OBVIOUS
<1> HIDE DEF e, k
<1>11. /\ omitted' \in Seq(Omitted) /\ DOMAIN omitted' = 1..Len(omitted) + 1
       /\ Len(omitted) \in Nat /\ DOMAIN omitted = 1..Len(omitted)
       /\ \A i \in 1..Len(omitted) : omitted'[i] = omitted[i]
       /\ omitted'[Len(omitted) + 1] = e
  BY <1>1, <1>9, <1>10, PushIsAppend
<1>12. TypeOK'
  BY <1>1, <1>2, <1>3, <1>11 DEF TypeOK, Relocation, Omitted
<1>13. IndicesAreDense'
  <2>1. \A i \in DOMAIN omitted' : omitted'[i].index < index
    BY <1>1, <1>6, <1>8, <1>11 DEF Inv, IndicesAreDense
  <2> QED BY <2>1 DEF Inv, IndicesAreDense
<1>14. CodeUsesItsEntry'
  BY DEF CodeUsesItsEntry
<1>15. LocalAreInternal'
  <2>1. \A n : localization(n)' = localization(n)
    BY DEF localization, Meaning
  <2> QED BY <2>1 DEF Inv, LocalAreInternal
<1>16. Entries' = Entries \cup {e}
  <2>1. Range(omitted)' = Range(omitted) \cup {e}
    BY <1>1, <1>9, <1>10, RangeOfAppend
  <2> QED BY <2>1 DEF Entries
<1>17. \A x, q : Serves(x, q)' <=> Serves(x, q)
  BY DEF Serves, Name
<1>18. Serves(e, r)
  <2>1. e.index \in 0..index - 1 /\ e.index + 1 = k
    BY <1>1, <1>6, <1>8
  <2> QED BY <1>6, <1>7, <2>1 DEF Serves
<1>19. EachServed'
  <2>1. \A x \in Entries' : x.offset \in 1..done' /\ Serves(x, x.offset)'
    BY <1>1, <1>2, <1>8, <1>16, <1>17, <1>18 DEF Inv, EachServed
  <2>2. ASSUME NEW q \in 1..done' PROVE \E x \in Entries' : x.offset = q
    <3>1. CASE q \in 1..done
      BY <1>16, <3>1 DEF Inv, EachServed
    <3>2. CASE q = r
      BY <1>8, <1>16, <3>2
    <3> QED BY <1>1, <1>2, <3>1, <3>2
  <2> QED BY <2>1, <2>2 DEF EachServed
<1> QED BY <1>12, <1>13, <1>14, <1>15, <1>19 DEF Inv

\* The code is patched once every reference has its entry.
LEMMA FixInv == Inv /\ fix_offsets_in_code => Inv'
<1> SUFFICES ASSUME Inv, fix_offsets_in_code PROVE Inv'
  OBVIOUS
<1>1. /\ elf \in Inputs /\ done = Len(elf.references)
      /\ UNCHANGED <<elf, done, relocations, omitted, index>>
      /\ code' = [r \in DOMAIN elf.references |->
                    4 * (CHOOSE x \in Entries : x.offset = r).index]
  BY DEF fix_offsets_in_code, Inv, TypeOK, Entries
<1>2. TypeOK' /\ IndicesAreDense'
  BY <1>1 DEF Inv, TypeOK, IndicesAreDense
<1>3. LocalAreInternal'
  <2>1. \A n : localization(n)' = localization(n)
    BY <1>1 DEF localization, Meaning
  <2> QED BY <1>1, <2>1 DEF Inv, LocalAreInternal
<1>4. EachServed'
  <2>1. \A x, q : Serves(x, q)' <=> Serves(x, q)
    BY <1>1 DEF Serves, Name
  <2>2. Entries' = Entries
    BY <1>1 DEF Entries
  <2> QED BY <1>1, <2>1, <2>2 DEF Inv, EachServed
<1>5. CodeUsesItsEntry'
  <2>1. SUFFICES ASSUME NEW r \in DOMAIN elf.references
                 PROVE  /\ code'[r] \div 4 < index
                        /\ relocations[code'[r] \div 4 + 1].name = Name(r)
                        /\ relocations[code'[r] \div 4 + 1].type = "local" =>
                             relocations[code'[r] \div 4 + 1].value = elf.references[r]
    BY <1>1 DEF CodeUsesItsEntry, Name
  <2>2. r \in 1..done
    <3>1. PICK n \in 0..MaxReferences : elf.references \in [1..n -> 1..MaxSymbols]
      BY <1>1, BoundAssumption DEF Inputs
    <3> QED BY <1>1, <3>1, BoundAssumption
  <2> DEFINE x == CHOOSE y \in Entries : y.offset = r
  <2>3. x \in Entries /\ x.offset = r
    BY <2>2 DEF Inv, EachServed
  <2>4. code'[r] = 4 * x.index
    BY <1>1
  <2> HIDE DEF x
  <2>5. Serves(x, r)
    BY <2>3 DEF Inv, EachServed
  <2>6. x.index \in Nat /\ x.index < index
    BY <2>5 DEF Serves, Inv, TypeOK
  <2>7. code'[r] \div 4 = x.index
    BY <2>4, <2>6
  <2> QED BY <2>5, <2>6, <2>7 DEF Serves
<1> QED BY <1>2, <1>3, <1>4, <1>5 DEF Inv

LEMMA NextInv == Inv /\ [Next]_vars => Inv'
<1> SUFFICES ASSUME Inv, [Next]_vars PROVE Inv'
  OBVIOUS
<1>1. CASE process_relocation
  <2>1. /\ code = <<>> /\ done < Len(elf.references) /\ done' = done + 1
        /\ UNCHANGED <<elf, code>>
    BY <1>1 DEF process_relocation
  <2>2. CASE add_local_relocation(done + 1)
    BY <2>1, <2>2, NewEntryInv DEF add_local_relocation
  <2>3. CASE add_symbol_table_relocation(done + 1)
    <3>1. CASE Found(Name(done + 1)) # {}
      BY <2>1, <2>3, <3>1, SharedEntryInv DEF add_symbol_table_relocation
    <3>2. CASE Found(Name(done + 1)) = {}
      BY <2>1, <2>3, <3>2, NewEntryInv DEF add_symbol_table_relocation
    <3> QED BY <3>1, <3>2
  <2> QED BY <1>1, <2>2, <2>3 DEF process_relocation
<1>2. CASE fix_offsets_in_code
  BY <1>2, FixInv
<1>3. ASSUME UNCHANGED <<elf, done, relocations, omitted, index, code>> PROVE Inv'
  <2>1. TypeOK' /\ IndicesAreDense'
    BY <1>3 DEF Inv, TypeOK, IndicesAreDense
  <2>2. \A n : localization(n)' = localization(n)
    BY <1>3 DEF localization, Meaning
  <2>3. LocalAreInternal'
    BY <1>3, <2>2 DEF Inv, LocalAreInternal
  <2>4. \A x, q : Serves(x, q)' <=> Serves(x, q)
    BY <1>3 DEF Serves, Name
  <2>5. EachServed'
    BY <1>3, <2>4 DEF Inv, EachServed, Entries
  <2>6. CodeUsesItsEntry'
    BY <1>3 DEF Inv, CodeUsesItsEntry, Name
  <2> QED BY <2>1, <2>3, <2>5, <2>6 DEF Inv
<1>4. CASE build_image \/ load_module \/ UNCHANGED vars
  BY <1>3, <1>4 DEF build_image, load_module, vars
<1> QED BY <1>1, <1>2, <1>4 DEF Next
-----------------------------------------------------------------------------
\* Inv is an invariant of the whole way from the ELF file to the loaded module.
LEMMA Invariance == Spec => []Inv
BY InitInv, NextInv, PTL DEF Spec

\* The entries of the LOT are numbered 0..n-1, whatever the ELF file, so the
\* indices that the loader does not check stay inside the table it allocates.
THEOREM DenseIndices == Spec => []IndicesAreDense
BY Invariance, PTL DEF Inv

\* Patched code uses the entry of the symbol it refers to, whatever the ELF file;
\* what can go wrong is only what the loader puts into that entry.
THEOREM CodeUsesEntry == Spec => []CodeUsesItsEntry
BY Invariance, PTL DEF Inv

\* Type correctness.
THEOREM LotTypeCorrect == Spec => []TypeOK
BY Invariance, PTL DEF Inv
-----------------------------------------------------------------------------
Rank(S, s) == Cardinality({t \in S : t <= s})

\* Nth and Rank are inverse to each other: the places of a set are numbered
\* 1..Cardinality(S), each once.
LEMMA Numbering ==
  ASSUME NEW S \in SUBSET Nat, IsFiniteSet(S)
  PROVE  /\ Cardinality(S) \in Nat
         /\ \A s \in S : Rank(S, s) \in 1..Cardinality(S) /\ Nth(S, Rank(S, s)) = s
         /\ \A k \in 1..Cardinality(S) : Nth(S, k) \in S /\ Rank(S, Nth(S, k)) = k
<1> DEFINE Upto(s) == {t \in S : t <= s}
           rank == [s \in S |-> Rank(S, s)]
           n == Cardinality(S)
<1>1. n \in Nat
  BY FS_CardinalityType
<1>2. \A s \in S : /\ IsFiniteSet(Upto(s)) /\ Rank(S, s) \in 1..n
                   /\ Rank(S, s) = Cardinality(Upto(s))
  <2>1. SUFFICES ASSUME NEW s \in S
                 PROVE  IsFiniteSet(Upto(s)) /\ Cardinality(Upto(s)) \in 1..n
    BY DEF Rank
  <2>2. Upto(s) \in SUBSET S /\ s \in Upto(s)
    OBVIOUS
  <2>3. IsFiniteSet(Upto(s)) /\ Cardinality(Upto(s)) <= n
    BY <2>2, FS_Subset
  <2>4. Cardinality(Upto(s)) \in Nat /\ Cardinality(Upto(s)) # 0
    BY <2>2, <2>3, FS_CardinalityType, FS_EmptySet
  <2> QED BY <1>1, <2>3, <2>4
<1>3. \A s, t \in S : Rank(S, s) = Rank(S, t) => s = t
  <2>1. SUFFICES ASSUME NEW s \in S, NEW t \in S, s < t
                 PROVE  Rank(S, s) # Rank(S, t)
    <3>1. \A s, t \in S : s \in Nat /\ t \in Nat
      OBVIOUS
    <3>2. \A s, t \in S : s < t \/ t < s \/ s = t
      BY <3>1
    <3> QED BY <3>2
  <2>2. s \in Nat /\ t \in Nat /\ \A u \in S : u \in Nat
    OBVIOUS
  <2>3. Upto(s) \in SUBSET Upto(t)
    <3>1. ASSUME NEW u \in S, u <= s PROVE u <= t
      BY <2>1, <2>2, <3>1
    <3> QED BY <3>1
  <2>4. t \in Upto(t) /\ t \notin Upto(s)
    BY <2>1, <2>2
  <2>5. Upto(s) # Upto(t)
    BY <2>4
  <2>6. Cardinality(Upto(t)) # Cardinality(Upto(s))
    <3> HIDE DEF Upto
    <3> QED BY <1>2, <2>3, <2>5, FS_Subset
  <2> QED BY <1>2, <2>6
<1>4. \A s \in S : Nth(S, Rank(S, s)) = s
  BY <1>3 DEF Nth, Rank
<1>5. \A k \in 1..n : \E s \in S : Rank(S, s) = k
  <2>1. rank \in Injection(S, 1..n)
    BY <1>2, <1>3 DEF Injection, IsInjective
  <2>2. IsFiniteSet(1..n) /\ Cardinality(1..n) = n
    BY <1>1, FS_Interval
  <2>3. rank \in Surjection(S, 1..n)
    BY <2>1, <2>2, FS_Injection
  <2> QED BY <2>3 DEF Surjection
<1>6. \A k \in 1..n : Nth(S, k) \in S /\ Rank(S, Nth(S, k)) = k
  BY <1>5 DEF Nth, Rank
<1> QED BY <1>1, <1>2, <1>4, <1>6

\* The members of a set are numbered in their order.
LEMMA NthAscends ==
  ASSUME NEW S \in SUBSET Nat, IsFiniteSet(S),
         NEW i \in 1..Cardinality(S), NEW j \in 1..Cardinality(S), i < j
  PROVE  Nth(S, i) < Nth(S, j)
<1> DEFINE Upto(s) == {t \in S : t <= s}
           a == Nth(S, i)
           b == Nth(S, j)
<1>1. /\ a \in S /\ Rank(S, a) = i /\ b \in S /\ Rank(S, b) = j
      /\ Cardinality(S) \in Nat
  BY Numbering
<1> HIDE DEF a, b
<1>2. a \in Nat /\ b \in Nat /\ i \in Nat /\ j \in Nat
  BY <1>1
<1>3. ASSUME b <= a PROVE FALSE
  <2>1. \A t \in S : t \in Nat /\ (t <= b => t <= a)
    BY <1>2, <1>3
  <2>2. Upto(b) \in SUBSET Upto(a) /\ Upto(a) \in SUBSET S
    BY <2>1
  <2>3. IsFiniteSet(Upto(a)) /\ Cardinality(Upto(b)) <= Cardinality(Upto(a))
    <3> HIDE DEF Upto
    <3> QED BY <2>2, FS_Subset
  <2>4. j <= i
    BY <1>1, <2>3 DEF Rank
  <2> QED BY <1>2, <2>4
<1> QED BY <1>2, <1>3 DEF a, b
-----------------------------------------------------------------------------
(***************************************************************************)
(* The later steps compute image and lot from what the earlier ones left.  *)
(***************************************************************************)
Separate ==
  \/ OwnReferences
  \/ imported_symbol_table = <<>>
  \/ \A r \in DOMAIN elf.references : localization(Name(r)) # "exported"

SymbolicAreShared ==
  \A k \in DOMAIN relocations :
    relocations[k].type = "symbol_table" => localization(relocations[k].name) # "internal"

CodeIsPatched ==
  code # <<>> =>
    /\ DOMAIN code = DOMAIN elf.references
    /\ \A r \in DOMAIN code : code[r] \div 4 \in 0..index - 1

ImageIsBuilt == image # <<>> => DOMAIN code = DOMAIN elf.references /\ image = tables
LotIsFilled == lot # <<>> => image # <<>> /\ lot = filled_lot

Computed == Separate /\ SymbolicAreShared /\ CodeIsPatched /\ ImageIsBuilt /\ LotIsFilled

\* The tables of symbols depend on the input alone.
LEMMA SymbolsStay ==
  ASSUME elf' = elf
  PROVE  /\ \A n : localization(n)' = localization(n)
         /\ imported_symbol_table' = imported_symbol_table
         /\ exported_symbol_table' = exported_symbol_table
         /\ \A r : Name(r)' = Name(r)
<1>1. \A n : localization(n)' = localization(n)
  BY DEF localization, Meaning
<1>2. Places' = Places
  BY DEF Places
<1>3. \A v : symbol_table(v)' = symbol_table(v)
  BY <1>1, <1>2 DEF symbol_table
<1> QED BY <1>1, <1>3 DEF imported_symbol_table, exported_symbol_table, Name

LEMMA TablesStay ==
  ASSUME UNCHANGED <<elf, relocations>>
  PROVE  tables' = tables
<1>1. \A t : get_relocations(t)' = get_relocations(t)
  BY DEF get_relocations
<1>2. \A n : symbol_table_index(n)' = symbol_table_index(n)
  BY SymbolsStay DEF symbol_table_index
<1> QED BY <1>1, <1>2, SymbolsStay DEF tables

LEMMA LotStays ==
  ASSUME UNCHANGED <<elf, image>>
  PROVE  filled_lot' = filled_lot
<1>1. \A n : find_symbol(n)' = find_symbol(n)
  BY DEF find_symbol
<1> QED BY <1>1 DEF filled_lot

\* Every word of the patched code is the offset of an entry.
LEMMA EachPatched ==
  ASSUME Inv, fix_offsets_in_code
  PROVE  /\ DOMAIN code' = DOMAIN elf.references
         /\ \A r \in DOMAIN code' : code'[r] \div 4 \in 0..index - 1
         /\ UNCHANGED <<elf, index>>
<1>1. /\ elf \in Inputs /\ done = Len(elf.references) /\ UNCHANGED <<elf, index>>
      /\ code' = [r \in DOMAIN elf.references |->
                    4 * (CHOOSE x \in Entries : x.offset = r).index]
  BY DEF fix_offsets_in_code, Inv, TypeOK, Entries
<1>2. DOMAIN elf.references = 1..done
  <2>1. PICK n \in 0..MaxReferences : elf.references \in [1..n -> 1..MaxSymbols]
    BY <1>1, BoundAssumption DEF Inputs
  <2> QED BY <1>1, <2>1, BoundAssumption
<1>3. ASSUME NEW r \in 1..done
      PROVE  (4 * (CHOOSE x \in Entries : x.offset = r).index) \div 4 \in 0..index - 1
  <2> DEFINE x == CHOOSE y \in Entries : y.offset = r
  <2>1. x \in Entries /\ x.offset = r
    BY DEF Inv, EachServed
  <2> HIDE DEF x
  <2>2. x.index \in 0..index - 1 /\ index \in Nat
    BY <2>1 DEF Inv, EachServed, Serves, TypeOK
  <2>3. (4 * x.index) \div 4 = x.index
    BY <2>2
  <2>4. (4 * x.index) \div 4 \in 0..index - 1
    BY <2>2, <2>3
  <2> QED BY <2>4 DEF x
<1> QED BY <1>1, <1>2, <1>3

LEMMA InitComputed == Init => Computed
BY DEF Init, Computed, Separate, SymbolicAreShared, CodeIsPatched, ImageIsBuilt, LotIsFilled

LEMMA NextComputed == Inv /\ Computed /\ [Next]_vars => Computed'
<1> SUFFICES ASSUME Inv, Computed, [Next]_vars PROVE Computed'
  OBVIOUS
<1>1. elf' = elf
  BY DEF Next, vars, process_relocation, fix_offsets_in_code, build_image, load_module
<1>2. Separate'
  BY <1>1, SymbolsStay DEF Computed, Separate
<1>3. CASE process_relocation
  <2>1. code = <<>> /\ UNCHANGED <<code, image, lot>>
    BY <1>3 DEF process_relocation
  <2>2. image = <<>> /\ lot = <<>>
    <3>1. DOMAIN elf.references # {}
      <4>1. PICK n \in 0..MaxReferences : elf.references \in [1..n -> 1..MaxSymbols]
        BY BoundAssumption DEF Inv, TypeOK, Inputs
      <4>2. Len(elf.references) = n /\ DOMAIN elf.references = 1..n /\ n \in Nat
        BY <4>1, BoundAssumption
      <4>3. n # 0
        BY <1>3, <4>2 DEF process_relocation, Inv, TypeOK
      <4> QED BY <4>2, <4>3
    <3> QED BY <2>1, <3>1 DEF Computed, ImageIsBuilt, LotIsFilled
  <2>3. CodeIsPatched' /\ ImageIsBuilt' /\ LotIsFilled'
    BY <2>1, <2>2 DEF CodeIsPatched, ImageIsBuilt, LotIsFilled
  <2>4. SymbolicAreShared'
    <3>1. CASE relocations' = relocations
      BY <1>1, <3>1, SymbolsStay DEF Computed, SymbolicAreShared
    <3>2. ASSUME NEW e, e.type = "symbol_table" => localization(e.name) # "internal",
                 relocations' = Append(relocations, e)
          PROVE  SymbolicAreShared'
      <4>1. /\ DOMAIN relocations' = 1..Len(relocations) + 1 /\ Len(relocations) \in Nat
            /\ DOMAIN relocations = 1..Len(relocations)
            /\ \A k \in 1..Len(relocations) : relocations'[k] = relocations[k]
            /\ relocations'[Len(relocations) + 1] = e
        BY <3>2 DEF Inv, TypeOK
      <4>2. \A k \in 1..Len(relocations) + 1 :
              k \in 1..Len(relocations) \/ k = Len(relocations) + 1
        BY <4>1
      <4>3. \A k \in DOMAIN relocations' :
              relocations'[k].type = "symbol_table"
                => localization(relocations'[k].name) # "internal"
        BY <3>2, <4>1, <4>2 DEF Computed, SymbolicAreShared
      <4> QED BY <1>1, <4>3, SymbolsStay DEF SymbolicAreShared
    <3>3. \/ relocations' = relocations
          \/ \E e : /\ e.type = "symbol_table" => localization(e.name) # "internal"
                    /\ relocations' = Append(relocations, e)
      <4>1. CASE add_local_relocation(done + 1)
        <5> DEFINE e == [name |-> Name(done + 1), value |-> elf.references[done + 1],
                         offset |-> done + 1, index |-> index, type |-> "local"]
        <5>1. e.type # "symbol_table" /\ relocations' = Append(relocations, e)
          BY <4>1 DEF add_local_relocation
        <5> HIDE DEF e
        <5> QED BY <5>1
      <4>2. CASE add_symbol_table_relocation(done + 1)
        <5> DEFINE e == [name |-> Name(done + 1), value |-> elf.references[done + 1],
                         offset |-> done + 1, index |-> index, type |-> "symbol_table"]
        <5>1. \/ relocations' = relocations
              \/ relocations' = Append(relocations, e)
          BY <4>2 DEF add_symbol_table_relocation
        <5>2. localization(e.name) # "internal"
          BY <4>2 DEF add_symbol_table_relocation
        <5> HIDE DEF e
        <5> QED BY <5>1, <5>2
      <4> QED BY <1>3, <4>1, <4>2 DEF process_relocation
    <3> QED BY <3>1, <3>2, <3>3
  <2> QED BY <1>2, <2>3, <2>4 DEF Computed
<1>4. CASE fix_offsets_in_code
  <2>1. code = <<>> /\ UNCHANGED <<relocations, omitted, index, image, lot>>
    BY <1>4 DEF fix_offsets_in_code
  <2>2. DOMAIN code' = DOMAIN elf.references
    BY <1>4, EachPatched
  <2>3. ImageIsBuilt' /\ LotIsFilled' /\ SymbolicAreShared'
    BY <1>1, <2>1, <2>2, SymbolsStay, TablesStay, LotStays
       DEF Computed, SymbolicAreShared, ImageIsBuilt, LotIsFilled
  <2>4. CodeIsPatched'
    BY <1>4, EachPatched DEF CodeIsPatched
  <2> QED BY <1>2, <2>3, <2>4 DEF Computed
<1>5. CASE build_image
  <2>1. /\ Len(code) = Len(elf.references) /\ image = <<>> /\ image' = tables
        /\ UNCHANGED <<relocations, index, code, lot>>
    BY <1>5 DEF build_image
  <2>2. lot = <<>>
    BY <2>1 DEF Computed, LotIsFilled
  <2>3. DOMAIN code = DOMAIN elf.references
    <3>1. PICK n \in 0..MaxReferences : elf.references \in [1..n -> 1..MaxSymbols]
      BY BoundAssumption DEF Inv, TypeOK, Inputs
    <3>2. CASE code = <<>>
      BY <2>1, <3>1, <3>2, BoundAssumption
    <3>3. CASE code # <<>>
      BY <3>3 DEF Computed, CodeIsPatched
    <3> QED BY <3>2, <3>3
  <2>4. ImageIsBuilt' /\ LotIsFilled'
    BY <1>1, <2>1, <2>2, <2>3, TablesStay DEF ImageIsBuilt, LotIsFilled
  <2>5. SymbolicAreShared' /\ CodeIsPatched'
    BY <1>1, <2>1, SymbolsStay DEF Computed, SymbolicAreShared, CodeIsPatched
  <2> QED BY <1>2, <2>4, <2>5 DEF Computed
<1>6. CASE load_module
  <2>1. /\ image # <<>> /\ lot' = filled_lot
        /\ UNCHANGED <<relocations, index, code, image>>
    BY <1>6 DEF load_module
  <2>2. ImageIsBuilt' /\ LotIsFilled'
    BY <1>1, <2>1, TablesStay, LotStays DEF Computed, ImageIsBuilt, LotIsFilled
  <2>3. SymbolicAreShared' /\ CodeIsPatched'
    BY <1>1, <2>1, SymbolsStay DEF Computed, SymbolicAreShared, CodeIsPatched
  <2> QED BY <1>2, <2>2, <2>3 DEF Computed
<1>7. CASE UNCHANGED vars
  <2>1. UNCHANGED <<elf, relocations, index, code, image, lot>>
    BY <1>7 DEF vars
  <2>2. SymbolicAreShared' /\ CodeIsPatched'
    BY <2>1, SymbolsStay DEF Computed, SymbolicAreShared, CodeIsPatched
  <2>3. ImageIsBuilt' /\ LotIsFilled'
    BY <2>1, TablesStay, LotStays DEF Computed, ImageIsBuilt, LotIsFilled
  <2> QED BY <1>2, <2>2, <2>3 DEF Computed
<1> QED BY <1>3, <1>4, <1>5, <1>6, <1>7 DEF Next
-----------------------------------------------------------------------------
(***************************************************************************)
(* Names: what one means in the parser, in the symbol tables and to the    *)
(* loader.                                                                 *)
(***************************************************************************)
\* Whatever statics share its name, a global symbol is what the name means to the
\* parser and what the loader finds under it; the name of statics alone is internal.
LEMMA GlobalMeans ==
  ASSUME elf \in Inputs, NEW s \in DOMAIN elf.symbols, elf.symbols[s].global
  PROVE  Meaning(elf.symbols[s].name) = s /\ find_symbol(elf.symbols[s].name) = s
<1> DEFINE x == elf.symbols[s].name
           S == {t \in DOMAIN elf.symbols : elf.symbols[t].name = x}
<1>1. PICK m \in 1..MaxSymbols : elf.symbols \in [1..m -> Symbol]
  BY BoundAssumption DEF Inputs
<1>2. /\ m \in Nat /\ DOMAIN elf.symbols = 1..m /\ Len(elf.symbols) = m
      /\ s \in 1..m
  BY <1>1, BoundAssumption
<1>3. \A t \in 1..m : elf.symbols[t].name = x /\ elf.symbols[t].global => t = s
  BY <1>2 DEF Inputs, WellFormed
<1>4. \A t \in s..m : elf.symbols[t].global
  BY <1>2 DEF Inputs, WellFormed
<1>5. \A t \in S : t <= s
  <2>1. ASSUME NEW t \in S, s <= t PROVE t = s
    <3>1. t \in 1..m /\ t \in s..m
      BY <1>2, <2>1
    <3> QED BY <1>3, <1>4, <3>1
  <2> QED BY <1>2, <2>1
<1>6. S \in SUBSET (0..m) /\ s \in S
  BY <1>2
<1> HIDE DEF S
<1>7. Max(S) \in S /\ s <= Max(S)
  BY <1>2, <1>6, MaxIsGreatest
<1>8. Max(S) = s
  <2>1. Max(S) <= s /\ s <= Max(S) /\ Max(S) \in 0..m
    BY <1>5, <1>6, <1>7
  <2> QED BY <1>2, <2>1
<1>9. Meaning(x) = s
  BY <1>8 DEF Meaning, S
<1>10. find_symbol(x) = s
  BY <1>2, <1>3 DEF find_symbol
<1> QED BY <1>9, <1>10

LEMMA LocalMeans ==
  ASSUME elf \in Inputs, NEW s \in DOMAIN elf.symbols,
         \A t \in DOMAIN elf.symbols :
           elf.symbols[t].name = elf.symbols[s].name => ~elf.symbols[t].global
  PROVE  localization(elf.symbols[s].name) = "internal"
<1> DEFINE x == elf.symbols[s].name
           S == {t \in DOMAIN elf.symbols : elf.symbols[t].name = x}
<1>1. PICK m \in 1..MaxSymbols : elf.symbols \in [1..m -> Symbol]
  BY BoundAssumption DEF Inputs
<1>2. m \in Nat /\ DOMAIN elf.symbols = 1..m
  BY <1>1, BoundAssumption
<1>3. S \in SUBSET (0..m) /\ s \in S
  BY <1>2
<1> HIDE DEF S
<1>4. Max(S) \in S
  BY <1>2, <1>3, MaxIsGreatest
<1>5. ~elf.symbols[Max(S)].global
  BY <1>4 DEF S
<1>6. Meaning(x) = Max(S)
  BY DEF Meaning, S
<1> QED BY <1>5, <1>6 DEF localization

\* When no two symbols share a name, the loader finds the symbol that is meant.
LEMMA NamesMeanSymbols ==
  ASSUME elf \in Inputs, ~SameNames,
         NEW s \in DOMAIN elf.symbols, localization(elf.symbols[s].name) # "internal"
  PROVE  find_symbol(elf.symbols[s].name) = s
<1>1. \A t \in DOMAIN elf.symbols : elf.symbols[t].name = elf.symbols[s].name => t = s
  BY DEF Inputs, WellFormed
<1>2. elf.symbols[s].global
  BY <1>1, LocalMeans
<1> QED BY <1>2, GlobalMeans

\* A symbol table has each name of its localization once, in the order in which they
\* first occur.
LEMMA TableFacts ==
  ASSUME elf \in Inputs, NEW v
  PROVE  LET T == symbol_table(v)
         IN  /\ T \in Seq(Names)
             /\ Range(T) = {elf.symbols[s].name : s \in
                  {t \in DOMAIN elf.symbols : localization(elf.symbols[t].name) = v}}
             /\ \A i, j \in DOMAIN T : i < j =>
                  \E s \in DOMAIN elf.symbols :
                    /\ elf.symbols[s].name = T[i]
                    /\ \A t \in 1..s : elf.symbols[t].name # T[j]
<1> DEFINE name(s) == elf.symbols[s].name
           S == {t \in Places : localization(name(t)) = v}
           n == Cardinality(S)
           T == symbol_table(v)
<1>1. PICK m \in 1..MaxSymbols : elf.symbols \in [1..m -> Symbol]
  BY BoundAssumption DEF Inputs
<1>2. /\ m \in Nat /\ DOMAIN elf.symbols = 1..m
      /\ \A s \in 1..m : name(s) \in Names
  BY <1>1, BoundAssumption DEF Symbol
<1>3. S \in SUBSET (1..m) /\ S \in SUBSET Nat /\ IsFiniteSet(S)
  <2>1. S \in SUBSET (1..m)
    BY <1>2 DEF Places
  <2>2. IsFiniteSet(1..m)
    BY <1>2, FS_Interval
  <2> QED BY <2>1, <2>2, FS_Subset
<1>4. T = [k \in 1..n |-> name(Nth(S, k))]
  BY DEF symbol_table
<1>5. /\ \A s \in S : \A t \in 1..s - 1 : name(t) # name(s)
      /\ \A s \in S : localization(name(s)) = v
  BY DEF Places
<1>6. ASSUME NEW s \in 1..m, localization(name(s)) = v
      PROVE  \E t \in S : name(t) = name(s)
  <2> DEFINE Q == {t \in 1..m : name(t) = name(s)}
  <2>1. Q \in SUBSET Nat /\ s \in Q
    BY <1>2
  <2>2. Min(Q) \in Q /\ \A t \in Q : Min(Q) <= t
    BY <2>1, MinIsLeast
  <2>3. ASSUME NEW t \in 1..Min(Q) - 1 PROVE name(t) # name(Min(Q))
    <3>1. t \in 1..m /\ ~(Min(Q) <= t)
      BY <1>2, <2>2
    <3>2. t \notin Q
      BY <2>2, <3>1
    <3> QED BY <2>2, <3>1, <3>2
  <2>4. Min(Q) \in Places
    BY <1>2, <2>2, <2>3 DEF Places
  <2> QED BY <1>6, <2>2, <2>4
<1> HIDE DEF S, n, T
<1>7. /\ n \in Nat /\ \A k \in 1..n : Nth(S, k) \in S
      /\ \A s \in S : Rank(S, s) \in 1..n /\ Nth(S, Rank(S, s)) = s
  BY <1>3, Numbering DEF n
<1>8. DOMAIN T = 1..n /\ \A k \in 1..n : T[k] = name(Nth(S, k))
  BY <1>4
<1>9. T \in Seq(Names)
  <2>1. T \in [1..n -> Names]
    BY <1>2, <1>3, <1>4, <1>7
  <2> QED BY <1>7, <2>1, FunctionIsSeq
<1>10. ASSUME NEW x \in Range(T)
       PROVE  x \in {name(s) : s \in {t \in DOMAIN elf.symbols : localization(name(t)) = v}}
  <2>1. PICK k \in 1..n : x = name(Nth(S, k))
    BY <1>8 DEF Range
  <2> QED BY <1>2, <1>3, <1>5, <1>7, <2>1
<1>11. ASSUME NEW s \in 1..m, localization(name(s)) = v PROVE name(s) \in Range(T)
  <2>1. PICK t \in S : name(t) = name(s)
    BY <1>6, <1>11
  <2> QED BY <1>7, <1>8, <2>1 DEF Range
<1>12. ASSUME NEW i \in DOMAIN T, NEW j \in DOMAIN T, i < j
       PROVE  \E s \in DOMAIN elf.symbols :
                name(s) = T[i] /\ \A t \in 1..s : name(t) # T[j]
  <2> DEFINE a == Nth(S, i)
             b == Nth(S, j)
  <2>1. a < b
    BY <1>3, <1>8, <1>12, NthAscends DEF n
  <2>2. /\ a \in S /\ b \in S /\ T[i] = name(a) /\ T[j] = name(b)
        /\ a \in Nat /\ b \in Nat /\ a \in 1..m
    BY <1>3, <1>7, <1>8
  <2> HIDE DEF a, b
  <2>3. \A t \in 1..a : t \in 1..b - 1
    BY <2>1, <2>2
  <2>4. \A t \in 1..a : name(t) # name(b)
    BY <1>5, <2>2, <2>3
  <2> QED BY <1>2, <2>2, <2>4
<1>13. Range(T) = {name(s) : s \in {t \in DOMAIN elf.symbols : localization(name(t)) = v}}
  BY <1>2, <1>10, <1>11
<1> QED BY <1>9, <1>12, <1>13 DEF T

\* The name of a reference to another module or from one is in the table of its
\* localization, and in no other.
LEMMA NameIsInTable ==
  ASSUME elf \in Inputs, NEW r \in DOMAIN elf.references, localization(Name(r)) # "internal"
  PROVE  /\ localization(Name(r)) = "imported" =>
              Name(r) \in Range(imported_symbol_table)
         /\ localization(Name(r)) # "imported" =>
              /\ localization(Name(r)) = "exported"
              /\ Name(r) \notin Range(imported_symbol_table)
              /\ Name(r) \in Range(exported_symbol_table)
<1> DEFINE s == elf.references[r]
<1>1. s \in DOMAIN elf.symbols /\ Name(r) = elf.symbols[s].name
  BY DEF Inputs, Range, Name
<1>2. localization(Name(r)) \in {"imported", "exported"}
  BY DEF localization
<1>3. \A v : Range(symbol_table(v)) = {elf.symbols[q].name : q \in
               {t \in DOMAIN elf.symbols : localization(elf.symbols[t].name) = v}}
  BY TableFacts, Zenon
<1>4. \A v : Name(r) \in Range(symbol_table(v)) <=> localization(Name(r)) = v
  BY <1>1, <1>3
<1> QED BY <1>2, <1>4 DEF imported_symbol_table, exported_symbol_table

LEMMA PlaceOfName ==
  ASSUME NEW table \in Seq(Names), NEW name \in Range(table)
  PROVE  place(table, name) + 1 \in DOMAIN table /\ table[place(table, name) + 1] = name
<1> DEFINE S == {k \in DOMAIN table : table[k] = name}
<1>1. S \in SUBSET Nat /\ S # {}
  BY DEF Range
<1>2. Min(S) \in S
  BY <1>1, MinIsLeast
<1>3. (Min(S) - 1) + 1 = Min(S)
  BY <1>1, <1>2
<1>4. place(table, name) = Min(S) - 1
  BY DEF place
<1> HIDE DEF S
<1>5. place(table, name) + 1 \in S
  BY <1>2, <1>3, <1>4
<1> QED BY <1>5 DEF S

\* The name that the loader reads for a symbol table relocation.  It is that of the
\* symbol if the symbol is imported, or if nothing is; otherwise the place in the table of
\* exported symbols is taken for one in both tables, and the name is that of an imported
\* symbol, or of an exported one that comes before.
LEMMA NameInTables ==
  ASSUME elf \in Inputs, NEW r \in DOMAIN elf.references, localization(Name(r)) # "internal"
  PROVE  LET imported == imported_symbol_table
             exported == exported_symbol_table
             name == tables.symbols[symbol_table_index(Name(r)) + 1]
         IN  \/ name = Name(r) /\ (localization(Name(r)) = "imported" \/ imported = <<>>)
             \/ /\ localization(Name(r)) # "imported" /\ imported # <<>>
                /\ \/ name \in Range(imported)
                   \/ \E q, p \in DOMAIN exported :
                        q < p /\ exported[q] = name /\ exported[p] = Name(r)
<1> DEFINE imported == imported_symbol_table
           exported == exported_symbol_table
           both == imported \o exported
           x == Name(r)
           p == place(exported, x) + 1
           m == Len(imported)
<1>1. imported \in Seq(Names) /\ exported \in Seq(Names)
  <2>1. \A v : symbol_table(v) \in Seq(Names)
    BY TableFacts, Zenon
  <2> QED BY <2>1 DEF imported_symbol_table, exported_symbol_table
<1>2. tables.symbols = both
  BY DEF tables
<1> HIDE DEF imported, exported, both
<1>3. /\ \A k \in 1..m : both[k] = imported[k]
      /\ \A k \in 1..Len(exported) : both[k + m] = exported[k]
      /\ Len(both) = m + Len(exported)
  BY ONLY <1>1, ConcatFacts DEF both
<1>4. /\ m \in Nat /\ DOMAIN imported = 1..m /\ DOMAIN exported = 1..Len(exported)
      /\ Len(exported) \in Nat
  BY <1>1
<1>5. CASE localization(x) = "imported"
  <2>1. x \in Range(imported)
    BY <1>5, NameIsInTable DEF imported
  <2>2. symbol_table_index(x) = place(imported, x)
    BY <2>1 DEF symbol_table_index, imported
  <2>3. /\ place(imported, x) + 1 \in DOMAIN imported
        /\ imported[place(imported, x) + 1] = x
    BY <1>1, <2>1, PlaceOfName
  <2>4. both[place(imported, x) + 1] = x
    BY <1>3, <1>4, <2>3
  <2> QED BY <1>2, <1>5, <2>2, <2>4 DEF imported
<1>6. CASE localization(x) # "imported"
  <2>1. x \notin Range(imported) /\ x \in Range(exported)
    BY <1>6, NameIsInTable DEF imported, exported
  <2>2. symbol_table_index(x) + 1 = p
    BY <2>1 DEF symbol_table_index, imported, exported
  <2>3. p \in DOMAIN exported /\ exported[p] = x
    BY <1>1, <2>1, PlaceOfName
  <2> HIDE DEF p
  <2>4. CASE imported = <<>>
    <3>1. m = 0
      BY <2>4
    <3>2. p \in 1..Len(exported) /\ p + m = p
      BY <1>4, <2>3, <3>1
    <3>3. both[p] = x
      BY <1>3, <2>3, <3>2
    <3> QED BY <1>2, <2>2, <2>4, <3>3 DEF imported
  <2>5. CASE imported # <<>>
    <3>1. m > 0
      BY <1>1, <2>5
    <3>2. CASE p <= m
      <4>1. p \in 1..m
        BY <1>4, <2>3, <3>2
      <4>2. both[p] \in Range(imported)
        BY <1>3, <1>4, <4>1 DEF Range
      <4> QED BY <1>2, <1>6, <2>2, <2>5, <4>2 DEF imported
    <3>3. CASE p > m
      <4>1. /\ p - m \in 1..Len(exported) /\ (p - m) + m = p /\ p - m < p
        BY <1>4, <2>3, <3>1, <3>3
      <4>2. exported[p - m] = both[p]
        BY <1>3, <4>1
      <4> QED BY <1>2, <1>4, <1>6, <2>2, <2>3, <2>5, <4>1, <4>2 DEF imported, exported
    <3> QED BY <1>4, <2>3, <3>2, <3>3
  <2> QED BY <2>4, <2>5
<1> QED BY <1>5, <1>6

\* If the code imports symbols it refers to no exported ones, so the only table
\* that is searched is the right one.
LEMMA NameInImage ==
  ASSUME elf \in Inputs, ~OwnReferences, Separate,
         NEW r \in DOMAIN elf.references, localization(Name(r)) # "internal"
  PROVE  tables.symbols[symbol_table_index(Name(r)) + 1] = Name(r)
<1>1. localization(Name(r)) # "imported" => localization(Name(r)) = "exported"
  BY NameIsInTable
<1>2. localization(Name(r)) # "imported" => imported_symbol_table = <<>>
  BY <1>1 DEF Separate
<1> QED BY <1>2, NameInTables

-----------------------------------------------------------------------------
(***************************************************************************)
(* The LOT.  The relocations of one type, then those of the other, are     *)
(* written: together each index once.                                      *)
(***************************************************************************)
LEMMA PartsOfInterval ==
  ASSUME NEW n \in Nat, NEW A \in SUBSET (1..n)
  PROVE  /\ IsFiniteSet(A) /\ IsFiniteSet((1..n) \ A)
         /\ A \in SUBSET Nat /\ (1..n) \ A \in SUBSET Nat
         /\ Cardinality(A) + Cardinality((1..n) \ A) = n
<1> DEFINE B == (1..n) \ A
<1>1. IsFiniteSet(1..n) /\ Cardinality(1..n) = n
  BY FS_Interval
<1>2. A \cup B = 1..n /\ A \cap B = {} /\ B \in SUBSET (1..n)
  OBVIOUS
<1>3. 1..n \in SUBSET Nat
  OBVIOUS
<1> HIDE DEF B
<1>4. IsFiniteSet(A) /\ IsFiniteSet(B)
  BY <1>1, <1>2, FS_Subset
<1>5. Cardinality(A \cup B) = Cardinality(A) + Cardinality(B) - Cardinality(A \cap B)
  BY <1>4, FS_Union
<1>6. Cardinality({}) = 0
  BY FS_EmptySet
<1>7. Cardinality(A) \in Nat /\ Cardinality(B) \in Nat
  BY <1>4, FS_CardinalityType
<1>8. Cardinality(A) + Cardinality(B) = n
  <2>1. n = Cardinality(A) + Cardinality(B) - 0
    BY <1>1, <1>2, <1>5, <1>6
  <2> QED BY <1>7, <2>1
<1>9. A \in SUBSET Nat /\ B \in SUBSET Nat
  BY <1>2, <1>3
<1> QED BY <1>4, <1>8, <1>9 DEF B

LEMMA PartsOfConcatenation ==
  ASSUME NEW T, NEW V \in Seq(T), NEW W \in Seq(T)
  PROVE  /\ Len(V) \in Nat /\ Len(W) \in Nat
         /\ Len(V \o W) = Len(V) + Len(W) /\ DOMAIN (V \o W) = 1..Len(V) + Len(W)
         /\ \A k \in 1..Len(V) : (V \o W)[k] = V[k]
         /\ \A k \in 1..Len(W) : (V \o W)[Len(V) + k] = W[k]
<1>1. Len(V) \in Nat /\ Len(W) \in Nat
  OBVIOUS
<1>2. Len(V \o W) = Len(V) + Len(W) /\ DOMAIN (V \o W) = 1..Len(V) + Len(W)
  OBVIOUS
<1>3. \A k \in 1..Len(V) : (V \o W)[k] = V[k]
  OBVIOUS
<1>4. \A k \in 1..Len(W) : (V \o W)[Len(V) + k] = W[k]
  OBVIOUS
<1> QED BY <1>1, <1>2, <1>3, <1>4

\* Of the writes V, then W, exactly one has the index e, for each e below n: one of
\* V if e is of a relocation in A, one of W if it is of one in B.
EachOnce(n, A, B, V, W) ==
  /\ Len(V \o W) = n
  /\ \A e \in 0..n - 1 : \E k \in DOMAIN (V \o W) :
       /\ {j \in DOMAIN (V \o W) : (V \o W)[j].index = e} = {k}
       /\ e + 1 \in A => \E i \in 1..Len(V) : (V \o W)[k] = V[i] /\ Nth(A, i) = e + 1
       /\ e + 1 \in B => \E i \in 1..Len(W) : (V \o W)[k] = W[i] /\ Nth(B, i) = e + 1

LEMMA EachWrittenOnce ==
  ASSUME NEW n \in Nat, NEW A \in SUBSET (1..n), NEW B, B = (1..n) \ A,
         NEW T, NEW V \in Seq(T), NEW W \in Seq(T),
         Len(V) = Cardinality(A), Len(W) = Cardinality(B),
         \A k \in 1..Len(V) : V[k].index = Nth(A, k) - 1,
         \A k \in 1..Len(W) : W[k].index = Nth(B, k) - 1
  PROVE  EachOnce(n, A, B, V, W)
<1> DEFINE a == Len(V)
           b == Len(W)
           VW == V \o W
<1>1. /\ IsFiniteSet(A) /\ IsFiniteSet(B) /\ a + b = n /\ a \in Nat /\ b \in Nat
      /\ A \in SUBSET Nat /\ B \in SUBSET Nat
  BY PartsOfInterval, PartsOfConcatenation
<1>2. /\ Len(VW) = n /\ DOMAIN VW = 1..n
      /\ \A k \in 1..a : VW[k] = V[k]
      /\ \A k \in 1..b : VW[a + k] = W[k]
  <2>1. /\ Len(V \o W) = Len(V) + Len(W) /\ DOMAIN (V \o W) = 1..Len(V) + Len(W)
        /\ \A k \in 1..Len(V) : (V \o W)[k] = V[k]
        /\ \A k \in 1..Len(W) : (V \o W)[Len(V) + k] = W[k]
    <3>1. V \in Seq(T) /\ W \in Seq(T)
      OBVIOUS
    <3> QED BY ONLY <3>1, PartsOfConcatenation
  <2> QED BY <1>1, <2>1
<1>3. /\ \A k \in 1..a : Nth(A, k) \in A /\ Rank(A, Nth(A, k)) = k
      /\ \A k \in 1..b : Nth(B, k) \in B /\ Rank(B, Nth(B, k)) = k
      /\ \A s \in A : Rank(A, s) \in 1..a /\ Nth(A, Rank(A, s)) = s
      /\ \A s \in B : Rank(B, s) \in 1..b /\ Nth(B, Rank(B, s)) = s
  BY <1>1, Numbering
<1> HIDE DEF VW, a, b
<1>4. \A j \in 1..n : j \in 1..a \/ \E i \in 1..b : j = a + i
  <2>1. SUFFICES ASSUME NEW j \in 1..n, j \notin 1..a PROVE \E i \in 1..b : j = a + i
    OBVIOUS
  <2>2. j - a \in 1..b /\ j = a + (j - a)
    BY <1>1, <2>1
  <2> QED BY <2>2
<1>5. /\ \A k \in 1..a : VW[k].index = Nth(A, k) - 1 /\ Nth(A, k) \in Nat
      /\ \A k \in 1..b : VW[a + k].index = Nth(B, k) - 1 /\ Nth(B, k) \in Nat
  BY <1>1, <1>2, <1>3 DEF a, b
<1>6. \A e \in 0..n - 1 : \A x \in Nat : x - 1 = e <=> x = e + 1
  OBVIOUS
<1>7. ASSUME NEW e \in 0..n - 1, e + 1 \in A
      PROVE  LET k == Rank(A, e + 1)
             IN  /\ k \in 1..a /\ Nth(A, k) = e + 1 /\ VW[k] = V[k] /\ k \in 1..n
                 /\ {j \in 1..n : VW[j].index = e} = {k}
  <2> DEFINE k == Rank(A, e + 1)
  <2>1. k \in 1..a /\ Nth(A, k) = e + 1 /\ VW[k] = V[k] /\ k \in 1..n
    BY <1>1, <1>2, <1>3, <1>7
  <2>2. VW[k].index = e
    BY <1>5, <1>6, <2>1
  <2>3. ASSUME NEW j \in 1..a, VW[j].index = e PROVE j = k
    BY <1>3, <1>5, <1>6, <2>3
  <2>4. ASSUME NEW i \in 1..b, VW[a + i].index = e PROVE FALSE
    <3>1. Nth(B, i) = e + 1 /\ Nth(B, i) \in B
      BY <1>3, <1>5, <1>6, <2>4
    <3> QED BY <1>7, <3>1
  <2> QED BY <1>4, <2>1, <2>2, <2>3, <2>4
<1>8. ASSUME NEW e \in 0..n - 1, e + 1 \in B
      PROVE  LET i == Rank(B, e + 1)
             IN  /\ i \in 1..b /\ Nth(B, i) = e + 1 /\ VW[a + i] = W[i] /\ a + i \in 1..n
                 /\ {j \in 1..n : VW[j].index = e} = {a + i}
  <2> DEFINE i == Rank(B, e + 1)
  <2>1. i \in 1..b /\ Nth(B, i) = e + 1 /\ VW[a + i] = W[i] /\ a + i \in 1..n
    <3>1. i \in 1..b /\ Nth(B, i) = e + 1
      BY <1>3, <1>8
    <3>2. a + i \in 1..n
      BY <1>1, <3>1
    <3> QED BY <1>2, <3>1, <3>2
  <2>2. VW[a + i].index = e
    BY <1>5, <1>6, <2>1
  <2>3. ASSUME NEW j \in 1..a, VW[j].index = e PROVE FALSE
    <3>1. Nth(A, j) = e + 1 /\ Nth(A, j) \in A
      BY <1>3, <1>5, <1>6, <2>3
    <3> QED BY <1>8, <3>1
  <2>4. ASSUME NEW j \in 1..b, VW[a + j].index = e PROVE j = i
    BY <1>3, <1>5, <1>6, <2>4
  <2> QED BY <1>4, <2>1, <2>2, <2>3, <2>4
<1>9. \A e \in 0..n - 1 : e + 1 \in A \/ e + 1 \in B
  OBVIOUS
<1>10. A \cap B = {}
  OBVIOUS
<1>11. ASSUME NEW e \in 0..n - 1
       PROVE  \E k \in 1..n :
                /\ {j \in 1..n : VW[j].index = e} = {k}
                /\ e + 1 \in A => \E i \in 1..a : VW[k] = V[i] /\ Nth(A, i) = e + 1
                /\ e + 1 \in B => \E i \in 1..b : VW[k] = W[i] /\ Nth(B, i) = e + 1
  <2>1. CASE e + 1 \in A
    BY <1>7, <1>10, <2>1
  <2>2. CASE e + 1 \in B
    BY <1>8, <1>10, <2>2
  <2> QED BY <1>9, <2>1, <2>2
<1>12. /\ Len(VW) = n
       /\ \A e \in 0..n - 1 : \E k \in DOMAIN VW :
            /\ {j \in DOMAIN VW : VW[j].index = e} = {k}
            /\ e + 1 \in A => \E i \in 1..a : VW[k] = V[i] /\ Nth(A, i) = e + 1
            /\ e + 1 \in B => \E i \in 1..b : VW[k] = W[i] /\ Nth(B, i) = e + 1
  <2>1. ASSUME NEW e
        PROVE  {j \in DOMAIN VW : VW[j].index = e} = {j \in 1..n : VW[j].index = e}
    BY <1>2
  <2>2. ASSUME NEW e \in 0..n - 1
        PROVE  \E k \in DOMAIN VW :
                 /\ {j \in DOMAIN VW : VW[j].index = e} = {k}
                 /\ e + 1 \in A => \E i \in 1..a : VW[k] = V[i] /\ Nth(A, i) = e + 1
                 /\ e + 1 \in B => \E i \in 1..b : VW[k] = W[i] /\ Nth(B, i) = e + 1
    <3>1. PICK k \in 1..n :
            /\ {j \in 1..n : VW[j].index = e} = {k}
            /\ e + 1 \in A => \E i \in 1..a : VW[k] = V[i] /\ Nth(A, i) = e + 1
            /\ e + 1 \in B => \E i \in 1..b : VW[k] = W[i] /\ Nth(B, i) = e + 1
      BY <1>11
    <3>2. k \in DOMAIN VW /\ {j \in DOMAIN VW : VW[j].index = e} = {k}
      BY <1>2, <2>1, <3>1
    <3> QED BY <3>1, <3>2
  <2> QED BY <1>2, <2>2
<1> QED BY <1>12 DEF EachOnce, VW, a, b

\* What the loader writes for the relocations of each type.
Symbolic ==
  [k \in DOMAIN tables.symbol_table |->
     [index |-> tables.symbol_table[k].index,
      value |-> find_symbol(tables.symbols[tables.symbol_table[k].symbol + 1])]]

OfType(type) == {k \in DOMAIN relocations : relocations[k].type = type}

\* A function on 1..n is a sequence, with its length.
LEMMA TableIsSeq ==
  ASSUME NEW T, NEW n \in Nat, NEW f, f = [k \in 1..n |-> f[k]], \A k \in 1..n : f[k] \in T
  PROVE  f \in Seq(T) /\ Len(f) = n
<1>1. [k \in 1..n |-> f[k]] \in Seq(T) /\ Len([k \in 1..n |-> f[k]]) = n
  OBVIOUS
<1> QED BY <1>1

LEMMA WhatIsWritten ==
  ASSUME TypeOK, IndicesAreDense
  PROVE  LET A == OfType("symbol_table")
             B == OfType("local")
         IN  /\ Symbolic = [k \in 1..Cardinality(A) |->
                   [index |-> Nth(A, k) - 1,
                    value |-> find_symbol(tables.symbols[
                                symbol_table_index(relocations[Nth(A, k)].name) + 1])]]
             /\ tables.local = [k \in 1..Cardinality(B) |->
                   [index |-> Nth(B, k) - 1, value |-> relocations[Nth(B, k)].value]]
             /\ A \in SUBSET (1..index) /\ B = (1..index) \ A /\ index \in Nat
<1> DEFINE A == OfType("symbol_table")
           B == OfType("local")
           symbolic == get_relocations("symbol_table")
           local == get_relocations("local")
<1>1. /\ relocations \in Seq(Relocation) /\ index = Len(relocations) /\ index \in Nat
      /\ DOMAIN relocations = 1..index
      /\ \A k \in 1..index : relocations[k] \in Relocation /\ relocations[k].index = k - 1
  <2>1. relocations \in Seq(Relocation) /\ index = Len(relocations) /\ index \in Nat
    BY DEF TypeOK, IndicesAreDense, Relocation
  <2>2. DOMAIN relocations = 1..index /\ \A k \in 1..index : relocations[k] \in Relocation
    BY <2>1
  <2> QED BY <2>1, <2>2 DEF IndicesAreDense
<1>2. A \in SUBSET (1..index) /\ B = (1..index) \ A
  <2>1. \A k \in 1..index : relocations[k].type \in {"local", "symbol_table"}
    BY <1>1 DEF Relocation
  <2> QED BY <1>1, <2>1 DEF OfType
<1>3. /\ symbolic = [k \in 1..Cardinality(A) |-> relocations[Nth(A, k)]]
      /\ local = [k \in 1..Cardinality(B) |-> relocations[Nth(B, k)]]
  BY DEF get_relocations, OfType
<1>4. /\ \A k \in 1..Cardinality(A) : Nth(A, k) \in A
      /\ \A k \in 1..Cardinality(B) : Nth(B, k) \in B
  <2>1. IsFiniteSet(A) /\ IsFiniteSet(B) /\ A \in SUBSET Nat /\ B \in SUBSET Nat
    BY <1>1, <1>2, PartsOfInterval
  <2> QED BY <2>1, Numbering
<1> HIDE DEF A, B
<1>5. /\ \A k \in 1..Cardinality(A) : symbolic[k].index = Nth(A, k) - 1
      /\ \A k \in 1..Cardinality(B) : local[k].index = Nth(B, k) - 1
  BY <1>1, <1>2, <1>3, <1>4
<1>6. /\ DOMAIN symbolic = 1..Cardinality(A) /\ DOMAIN local = 1..Cardinality(B)
      /\ \A k \in 1..Cardinality(A) : symbolic[k] = relocations[Nth(A, k)]
      /\ \A k \in 1..Cardinality(B) : local[k] = relocations[Nth(B, k)]
  BY <1>3
<1> HIDE DEF symbolic, local
<1>7. tables.local = [k \in 1..Cardinality(B) |->
                        [index |-> Nth(B, k) - 1, value |-> relocations[Nth(B, k)].value]]
  <2>1. tables.local = [k \in DOMAIN local |->
                          [index |-> local[k].index, value |-> local[k].value]]
    BY DEF tables, local
  <2> QED BY <1>5, <1>6, <2>1
<1>8. /\ DOMAIN tables.symbol_table = 1..Cardinality(A)
      /\ \A k \in 1..Cardinality(A) :
           /\ tables.symbol_table[k].index = Nth(A, k) - 1
           /\ tables.symbol_table[k].symbol = symbol_table_index(relocations[Nth(A, k)].name)
  <2>1. tables.symbol_table =
          [k \in DOMAIN symbolic |->
             [index |-> symbolic[k].index,
              symbol |-> symbol_table_index(symbolic[k].name)]]
    BY DEF tables, symbolic
  <2> QED BY <1>5, <1>6, <2>1
<1>9. Symbolic = [k \in 1..Cardinality(A) |->
        [index |-> Nth(A, k) - 1,
         value |-> find_symbol(tables.symbols[
                     symbol_table_index(relocations[Nth(A, k)].name) + 1])]]
  BY <1>8 DEF Symbolic
<1> QED BY <1>1, <1>2, <1>7, <1>9 DEF A, B

\* What a reference reads in the loaded module: its own symbol if that is internal,
\* otherwise the one that the loader finds under the name the image has for it.
LEMMA WhatIsRead ==
  ASSUME Inv, Computed, lot # <<>>, NEW r \in DOMAIN elf.references
  PROVE  lot[code[r] \div 4] =
           IF localization(Name(r)) = "internal" THEN elf.references[r]
           ELSE find_symbol(tables.symbols[symbol_table_index(Name(r)) + 1])
<1> DEFINE A == OfType("symbol_table")
           B == OfType("local")
           V == Symbolic
           W == tables.local
           T == Range(V) \cup Range(W)
           e == code[r] \div 4
<1>1. r \in DOMAIN code /\ code # <<>> /\ image = tables /\ lot = filled_lot
  BY DEF Computed, ImageIsBuilt, LotIsFilled
<1>2. e \in 0..index - 1
  BY <1>1 DEF Computed, CodeIsPatched
<1>3. /\ relocations[e + 1].name = Name(r)
      /\ relocations[e + 1].type = "local" => relocations[e + 1].value = elf.references[r]
  BY <1>1 DEF Inv, CodeUsesItsEntry
<1>4. /\ A \in SUBSET (1..index) /\ B = (1..index) \ A /\ index \in Nat
      /\ V = [k \in 1..Cardinality(A) |->
                [index |-> Nth(A, k) - 1,
                 value |-> find_symbol(tables.symbols[
                             symbol_table_index(relocations[Nth(A, k)].name) + 1])]]
      /\ W = [k \in 1..Cardinality(B) |->
                [index |-> Nth(B, k) - 1, value |-> relocations[Nth(B, k)].value]]
  BY WhatIsWritten DEF Inv
<1>5. lot = [i \in 0..Len(V \o W) - 1 |->
               IF {k \in DOMAIN (V \o W) : (V \o W)[k].index = i} = {} THEN Unset
               ELSE (V \o W)[Max({k \in DOMAIN (V \o W) : (V \o W)[k].index = i})].value]
  BY <1>1 DEF filled_lot, Symbolic
<1>6. e + 1 \in A => localization(Name(r)) # "internal"
  BY <1>3 DEF Computed, SymbolicAreShared, OfType
<1>7. e + 1 \in B => /\ relocations[e + 1].value = elf.references[r]
                      /\ localization(Name(r)) = "internal"
  BY <1>3 DEF OfType, Inv, LocalAreInternal
<1> HIDE DEF A, B, V, W, e
<1>8. Cardinality(A) \in Nat /\ Cardinality(B) \in Nat
  <2>1. IsFiniteSet(A) /\ IsFiniteSet(B)
    BY <1>4, PartsOfInterval
  <2> QED BY <2>1, FS_CardinalityType
<1>9. /\ V \in Seq(T) /\ W \in Seq(T)
      /\ Len(V) = Cardinality(A) /\ Len(W) = Cardinality(B)
      /\ \A k \in 1..Len(V) :
           /\ V[k].index = Nth(A, k) - 1
           /\ V[k].value = find_symbol(tables.symbols[
                symbol_table_index(relocations[Nth(A, k)].name) + 1])
      /\ \A k \in 1..Len(W) :
           /\ W[k].index = Nth(B, k) - 1
           /\ W[k].value = relocations[Nth(B, k)].value
  <2>1. DOMAIN V = 1..Cardinality(A) /\ \A k \in 1..Cardinality(A) : V[k] \in T
    BY <1>4 DEF Range
  <2>2. DOMAIN W = 1..Cardinality(B) /\ \A k \in 1..Cardinality(B) : W[k] \in T
    BY <1>4 DEF Range
  <2> HIDE DEF T
  <2>3. V \in Seq(T) /\ Len(V) = Cardinality(A)
    <3>1. V = [k \in 1..Cardinality(A) |-> V[k]]
      BY <1>4
    <3> QED BY <1>8, <2>1, <3>1, TableIsSeq
  <2>4. W \in Seq(T) /\ Len(W) = Cardinality(B)
    <3>1. W = [k \in 1..Cardinality(B) |-> W[k]]
      BY <1>4
    <3> QED BY <1>8, <2>2, <3>1, TableIsSeq
  <2> QED BY <1>4, <2>3, <2>4
<1> HIDE DEF T
<1>10. /\ Len(V \o W) = index
       /\ \A d \in 0..index - 1 : \E k \in DOMAIN (V \o W) :
            /\ {j \in DOMAIN (V \o W) : (V \o W)[j].index = d} = {k}
            /\ d + 1 \in A => \E i \in 1..Len(V) : (V \o W)[k] = V[i] /\ Nth(A, i) = d + 1
            /\ d + 1 \in B => \E i \in 1..Len(W) : (V \o W)[k] = W[i] /\ Nth(B, i) = d + 1
  <2>1. \A k \in 1..Len(V) : V[k].index = Nth(A, k) - 1
    BY <1>9
  <2>2. \A k \in 1..Len(W) : W[k].index = Nth(B, k) - 1
    BY <1>9
  <2>3. V \in Seq(T) /\ W \in Seq(T) /\ Len(V) = Cardinality(A) /\ Len(W) = Cardinality(B)
    BY <1>9
  <2>4. A \in SUBSET (1..index) /\ B = (1..index) \ A /\ index \in Nat
    BY <1>4
  <2>5. EachOnce(index, A, B, V, W)
    BY <2>1, <2>2, <2>3, <2>4, EachWrittenOnce
  <2> QED BY <2>5 DEF EachOnce
<1>11. PICK k \in DOMAIN (V \o W) :
         /\ {j \in DOMAIN (V \o W) : (V \o W)[j].index = e} = {k}
         /\ e + 1 \in A => \E i \in 1..Len(V) : (V \o W)[k] = V[i] /\ Nth(A, i) = e + 1
         /\ e + 1 \in B => \E i \in 1..Len(W) : (V \o W)[k] = W[i] /\ Nth(B, i) = e + 1
  BY <1>2, <1>10
<1>12. k \in Nat
  BY <1>9, PartsOfConcatenation
<1>13. Max({k}) = k
  BY <1>12 DEF Max
<1>14. lot[e] = (V \o W)[k].value
  BY <1>2, <1>5, <1>10, <1>11, <1>13
<1>15. CASE e + 1 \in A
  BY <1>3, <1>6, <1>9, <1>11, <1>14, <1>15 DEF e
<1>16. CASE e + 1 \in B
  BY <1>7, <1>9, <1>11, <1>14, <1>16 DEF e
<1>17. e + 1 \in A \/ e + 1 \in B
  BY <1>2, <1>4
<1> QED BY <1>15, <1>16, <1>17

LEMMA Correctness ==
  ASSUME Inv, Computed, ~SameNames, ~OwnReferences
  PROVE  CodeReadsItsSymbol
<1> SUFFICES ASSUME lot # <<>>, NEW r \in DOMAIN elf.references
             PROVE  lot[code[r] \div 4] = elf.references[r]
  BY DEF CodeReadsItsSymbol
<1>1. CASE localization(Name(r)) = "internal"
  BY <1>1, WhatIsRead
<1>2. CASE localization(Name(r)) # "internal"
  <2>1. lot[code[r] \div 4] = find_symbol(tables.symbols[symbol_table_index(Name(r)) + 1])
    BY <1>2, WhatIsRead
  <2>2. tables.symbols[symbol_table_index(Name(r)) + 1] = Name(r)
    BY <1>2, NameInImage DEF Inv, TypeOK, Computed
  <2>3. elf.references[r] \in DOMAIN elf.symbols
    BY DEF Inv, TypeOK, Inputs, Range
  <2>4. find_symbol(Name(r)) = elf.references[r]
    BY <1>2, <2>3, NamesMeanSymbols DEF Name, Inv, TypeOK
  <2> QED BY <2>1, <2>2, <2>4
<1> QED BY <1>1, <1>2
-----------------------------------------------------------------------------
\* In the loaded module every reference reads the symbol it was compiled to refer
\* to, whatever the ELF file, as long as no two symbols share a name and code
\* that imports symbols refers to none that it exports.
THEOREM ReadsItsSymbol ==
  ASSUME ~SameNames, ~OwnReferences
  PROVE  Spec => []CodeReadsItsSymbol
<1>1. Init => Inv /\ Computed
  BY InitInv, InitComputed
<1>2. Inv /\ Computed /\ [Next]_vars => (Inv /\ Computed)'
  BY NextInv, NextComputed
<1>3. Inv /\ Computed => CodeReadsItsSymbol
  BY Correctness
<1> QED BY <1>1, <1>2, <1>3, PTL DEF Spec
=============================================================================
