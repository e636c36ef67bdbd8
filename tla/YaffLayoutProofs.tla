--------------------------- MODULE YaffLayoutProofs ---------------------------
(***************************************************************************)
(* Theorems about YaffLayout, for any names, tables, sections and bases:   *)
(* the parser finds the parts of an image where mkimage wrote them, and    *)
(* reads the names in it.                                                  *)
(*                                                                         *)
(* A walk over a table, which is defined by recursion, follows the words   *)
(* of its entries one by one; an entry ends where strlen says it does.     *)
(***************************************************************************)
EXTENDS YaffLayout, SequenceLemmas, TLAPS

Words == 0..4

\* What padding to words does to a length, with the trailing zero and without.
LEMMA AlignFacts ==
  ASSUME NEW n \in Nat
  PROVE  /\ align(n, 4) \in Nat /\ align(n, 16) \in Nat /\ align(n, 16) % 16 = 0
         /\ align(n + 1, 4) = 4 * (n \div 4 + 1)
         /\ n % 4 # 0 => align(n, 4) = 4 * (n \div 4 + 1)
<1>1. n = 4 * (n \div 4) + (n % 4) /\ n % 4 \in 0..3 /\ n \div 4 \in Nat
  OBVIOUS
<1>2. (n + 1) % 4 = IF n % 4 = 3 THEN 0 ELSE (n % 4) + 1
  OBVIOUS
<1>3. n = 16 * (n \div 16) + (n % 16) /\ n % 16 \in 0..15 /\ n \div 16 \in Nat
  OBVIOUS
<1>4. align(n, 4) = IF n % 4 = 0 THEN n ELSE n + (4 - (n % 4))
  BY DEF align
<1>5. align(n + 1, 4) = IF (n + 1) % 4 = 0 THEN n + 1 ELSE n + 1 + (4 - ((n + 1) % 4))
  BY DEF align
<1>6. align(n, 16) = IF n % 16 = 0 THEN n ELSE n + (16 - (n % 16))
  BY DEF align
<1>7. align(n, 16) % 16 = 0
  BY <1>3, <1>6
<1> QED BY <1>1, <1>2, <1>3, <1>4, <1>5, <1>6, <1>7

\* A base moves the aligned place with it if and only if it is aligned itself.
LEMMA AlignMoves ==
  ASSUME NEW b \in Nat, NEW n \in Nat
  PROVE  align(b + n, 16) = b + align(n, 16) <=> b % 16 = 0
BY DEF align

\* The words of a name: full ones, and one with what is left and a zero after it.
LEMMA StringFacts ==
  ASSUME NEW l \in Nat
  PROVE  /\ String(l) \in Seq(Words) /\ Len(String(l)) = l \div 4 + 1
         /\ \A k \in 1..l \div 4 : String(l)[k] = 4
         /\ String(l)[l \div 4 + 1] = l % 4 /\ l % 4 \in 0..3
<1> DEFINE q == l \div 4
<1>1. l = 4 * q + (l % 4) /\ l % 4 \in 0..3 /\ q \in Nat
  OBVIOUS
<1>2. align(l + 1, 4) \div 4 = q + 1
  <2>1. align(l + 1, 4) = 4 * (q + 1)
    BY AlignFacts
  <2>2. (4 * (q + 1)) \div 4 = q + 1
    BY <1>1
  <2> QED BY <2>1, <2>2
<1> HIDE DEF q
<1>3. String(l) = [k \in 1..q + 1 |->
         IF 4 * k <= l THEN 4 ELSE IF 4 * (k - 1) < l THEN l % 4 ELSE 0]
  BY <1>2 DEF String
<1>4. ASSUME NEW k \in 1..q + 1
      PROVE  String(l)[k] = IF k <= q THEN 4 ELSE l % 4
  <2>1. 4 * k <= l <=> k <= q
    BY <1>1
  <2>2. k > q => k = q + 1 /\ (4 * (k - 1) < l <=> l % 4 # 0)
    BY <1>1
  <2>3. String(l)[k] = IF 4 * k <= l THEN 4 ELSE IF 4 * (k - 1) < l THEN l % 4 ELSE 0
    BY <1>3
  <2>4. k <= q \/ k > q
    BY <1>1
  <2> QED BY <1>1, <2>1, <2>2, <2>3, <2>4
<1>5. String(l) \in [1..q + 1 -> Words]
  BY <1>1, <1>3, <1>4 DEF Words
<1>6. String(l) \in Seq(Words) /\ Len(String(l)) = q + 1
  BY <1>1, <1>5, FunctionIsSeq
<1>7. \A k \in 1..q : String(l)[k] = 4
  BY <1>1, <1>4
<1>8. String(l)[q + 1] = l % 4
  BY <1>1, <1>4
<1> QED BY <1>1, <1>6, <1>7, <1>8 DEF q

\* A name that is not a multiple of words long leaves room for its zero.
LEMMA AlignPasses ==
  ASSUME NEW b \in Nat, b % 4 = 0, NEW n \in Nat, n % 4 # 0
  PROVE  align(b + n, 4) = b + 4 * (n \div 4 + 1)
<1>1. /\ b = 4 * (b \div 4) /\ n = 4 * (n \div 4) + (n % 4)
      /\ b \div 4 \in Nat /\ n \div 4 \in Nat /\ n % 4 \in 1..3
  OBVIOUS
<1>2. (b + n) % 4 = n % 4
  BY <1>1
<1>3. align(b + n, 4) = b + n + (4 - (n % 4))
  BY <1>2 DEF align
<1> QED BY <1>1, <1>3

-----------------------------------------------------------------------------
\* The words of the image from address a on are those of s.
Holds(a, s) == \A j \in 1..Len(s) : Word(a + 4 * (j - 1)) = s[j]

\* So are, of each part of a concatenation.
LEMMA PiecesHold ==
  ASSUME NEW a \in Nat, NEW seqs \in Seq(Seq(Words)), Holds(a, FlattenSeq(seqs))
  PROVE  \A k \in 1..Len(seqs) : Holds(a + 4 * Before(seqs, k), seqs[k])
<1> SUFFICES ASSUME NEW k \in 1..Len(seqs), NEW j \in 1..Len(seqs[k])
             PROVE  Word(a + 4 * Before(seqs, k) + 4 * (j - 1)) = seqs[k][j]
  BY DEF Holds
<1> DEFINE b == Before(seqs, k)
<1>1. /\ FlattenSeq(seqs) \in Seq(Words) /\ b \in Nat
      /\ Before(seqs, k + 1) = b + Len(seqs[k])
      /\ Before(seqs, k + 1) <= Len(FlattenSeq(seqs))
      /\ FlattenSeq(seqs)[b + j] = seqs[k][j]
  BY FlattenPlaces
<1>2. seqs[k] \in Seq(Words) /\ Len(seqs[k]) \in Nat /\ Len(FlattenSeq(seqs)) \in Nat
  BY <1>1
<1>3. b + j \in 1..Len(FlattenSeq(seqs))
  BY <1>1, <1>2
<1>4. \A i \in 1..Len(FlattenSeq(seqs)) : Word(a + 4 * (i - 1)) = FlattenSeq(seqs)[i]
  BY DEF Holds
<1>5. a + 4 * ((b + j) - 1) = a + 4 * b + 4 * (j - 1)
  BY <1>1
<1> HIDE DEF b
<1> QED BY <1>1, <1>3, <1>4, <1>5 DEF b

\* strlen reads back the length that the words of a name were made from.
LEMMA StrlenFinds ==
  ASSUME NEW a \in Nat, NEW l \in Nat, Holds(a, String(l)),
         Len(image) \in Nat, Len(String(l)) <= Len(image)
  PROVE  strlen(a) = l
<1> DEFINE q == l \div 4
           full == {k \in 0..Len(image) : \A j \in 0..k - 1 : Word(a + 4 * j) = 4}
           n == CHOOSE k \in full : k + 1 \notin full
<1>1. l = 4 * q + (l % 4) /\ q \in Nat
  OBVIOUS
<1>2. /\ Len(String(l)) = q + 1 /\ l % 4 \in 0..3 /\ String(l)[q + 1] = l % 4
      /\ \A k \in 1..q : String(l)[k] = 4
  BY StringFacts
<1> HIDE DEF q
<1>3. ASSUME NEW j \in 0..q PROVE Word(a + 4 * j) = String(l)[j + 1]
  <2>1. j + 1 \in 1..Len(String(l)) /\ (j + 1) - 1 = j
    BY <1>1, <1>2
  <2> QED BY <2>1 DEF Holds
<1>4. \A j \in 0..q - 1 : Word(a + 4 * j) = 4
  BY <1>1, <1>2, <1>3
<1>5. Word(a + 4 * q) = l % 4 /\ Word(a + 4 * q) # 4
  BY <1>1, <1>2, <1>3
<1>6. \A k \in 0..Len(image) : k \in full <=> k <= q
  BY <1>1, <1>4, <1>5
<1>7. q \in full /\ q + 1 \notin full
  <2>1. q + 1 \notin full
    <3>1. ASSUME q + 1 \in full PROVE FALSE
      <4>1. q \in 0..(q + 1) - 1
        BY <1>1
      <4> QED BY <1>5, <3>1, <4>1
    <3> QED BY <3>1
  <2>2. q \in full
    <3>1. q \in 0..Len(image) /\ q <= q
      BY <1>1, <1>2
    <3> HIDE DEF full
    <3> QED BY <1>6, <3>1
  <2> QED BY <2>1, <2>2
<1>8. ASSUME NEW k \in full, k + 1 \notin full PROVE k = q
  <2>1. k \in 0..Len(image) /\ k <= q
    BY <1>6
  <2>2. CASE k < q
    <3>1. k + 1 \in 0..Len(image) /\ k + 1 <= q
      BY <1>1, <1>2, <2>1, <2>2
    <3> QED BY <1>6, <1>8, <3>1
  <2> QED BY <1>1, <2>1, <2>2
<1>9. n = q
  <2>1. n \in full /\ n + 1 \notin full
    <3> HIDE DEF full
    <3> QED BY <1>7
  <2> HIDE DEF full, n
  <2> QED BY <1>8, <2>1
<1>10. strlen(a) = 4 * n + Word(a + 4 * n)
  BY DEF strlen
<1> HIDE DEF n, full
<1> QED BY <1>1, <1>5, <1>9, <1>10

\* The libraries of an image are found one after the other, each with its name.
LEMMA DependenciesFollow ==
  ASSUME NEW a \in Nat, NEW names \in Seq(Nat), Holds(a, Strings(names)),
         Len(image) \in Nat, Len(Strings(names)) <= Len(image)
  PROVE  /\ Dependencies(a, Len(names))[Len(names)] = a + 4 * Len(Strings(names))
         /\ \A k \in 1..Len(names) : strlen(Dependencies(a, Len(names))[k - 1]) = names[k]
<1> DEFINE n == Len(names)
           parts == [k \in DOMAIN names |-> String(names[k])]
           h == [k \in 0..n |-> a + 4 * Before(parts, k + 1)]
<1>1. n \in Nat /\ DOMAIN names = 1..n /\ \A k \in 1..n : names[k] \in Nat
  OBVIOUS
<1>2. parts \in Seq(Seq(Words)) /\ Len(parts) = n
  <2>1. parts \in [1..n -> Seq(Words)]
    BY <1>1, StringFacts
  <2> QED BY <1>1, <2>1, FunctionIsSeq
<1>3. \A k \in 1..n : parts[k] = String(names[k])
  BY <1>1
<1>4. Strings(names) = FlattenSeq(parts)
  BY DEF Strings
<1> HIDE DEF n, parts
<1>5. /\ FlattenSeq(parts) \in Seq(Words)
      /\ Before(parts, 1) = 0 /\ Before(parts, n + 1) = Len(Strings(names))
      /\ \A k \in 1..n : /\ Before(parts, k) \in Nat
                         /\ Before(parts, k + 1) = Before(parts, k) + Len(parts[k])
                         /\ Before(parts, k + 1) <= Len(Strings(names))
  BY <1>2, <1>4, FlattenPlaces
<1>6. ASSUME NEW k \in 1..n
      PROVE  strlen(h[k - 1]) = names[k] /\ h[k] = h[k - 1] + dependency_size(h[k - 1])
  <2>1. /\ k - 1 \in 0..n /\ k \in 0..n /\ (k - 1) + 1 = k
        /\ parts[k] = String(names[k]) /\ names[k] \in Nat
    BY <1>1, <1>3
  <2>2. h[k - 1] = a + 4 * Before(parts, k) /\ h[k] = a + 4 * Before(parts, k + 1)
    BY <2>1
  <2>3. Holds(h[k - 1], parts[k]) /\ h[k - 1] \in Nat
    <3>1. Holds(a, FlattenSeq(parts))
      BY <1>4
    <3>2. Holds(a + 4 * Before(parts, k), parts[k])
      BY <1>2, <3>1, PiecesHold
    <3> HIDE DEF h
    <3> QED BY <1>5, <2>2, <3>2
  <2>4. Len(parts[k]) = names[k] \div 4 + 1 /\ names[k] \div 4 \in Nat
    <3>1. ASSUME NEW l \in Nat PROVE Len(String(l)) = l \div 4 + 1 /\ l \div 4 \in Nat
      <4>1. l \div 4 \in Nat
        OBVIOUS
      <4> QED BY <4>1, StringFacts
    <3> QED BY <2>1, <3>1
  <2>5. Len(Strings(names)) \in Nat
    BY <1>4, <1>5
  <2>6. Len(parts[k]) <= Len(image)
    BY <1>5, <2>4, <2>5
  <2>7. strlen(h[k - 1]) = names[k]
    <3> HIDE DEF h
    <3> QED BY <2>1, <2>3, <2>6, StrlenFinds
  <2>8. dependency_size(h[k - 1]) = 4 * Len(parts[k])
    BY <2>1, <2>4, <2>7, AlignFacts DEF dependency_size, alignment
  <2>9. Before(parts, k + 1) = Before(parts, k) + Len(parts[k]) /\ Before(parts, k) \in Nat
    BY <1>5
  <2> HIDE DEF h
  <2> QED BY <2>2, <2>4, <2>7, <2>8, <2>9
<1>7. h[0] = a /\ h[n] = a + 4 * Len(Strings(names))
  <2>1. 0 \in 0..n /\ n \in 0..n /\ 0 + 1 = 1
    BY <1>1
  <2>2. h[0] = a + 4 * Before(parts, 1) /\ h[n] = a + 4 * Before(parts, n + 1)
    BY <2>1
  <2>3. Before(parts, 1) = 0 /\ Before(parts, n + 1) = Len(Strings(names))
    BY <1>5
  <2> HIDE DEF h
  <2>4. h[0] = a
    BY <2>2, <2>3
  <2> QED BY <2>2, <2>3, <2>4
<1> HIDE DEF h
<1> DEFINE Follows(g) == g = [k \in 0..n |->
                              IF k = 0 THEN a ELSE g[k - 1] + dependency_size(g[k - 1])]
<1>8. Follows(h)
  <2>1. h = [k \in 0..n |-> h[k]]
    BY DEF h
  <2>2. ASSUME NEW k \in 0..n
        PROVE  h[k] = IF k = 0 THEN a ELSE h[k - 1] + dependency_size(h[k - 1])
    <3>1. k = 0 \/ k \in 1..n
      BY <1>1
    <3> QED BY <1>6, <1>7, <3>1
  <2> QED BY <2>1, <2>2
<1> DEFINE at == CHOOSE g : Follows(g)
<1>9. Dependencies(a, n) = at
  BY DEF Dependencies
<1>10. Follows(at)
  <2> HIDE DEF Follows
  <2> QED BY <1>8
<1> HIDE DEF at
<1>11. \A k \in 0..n : at[k] = IF k = 0 THEN a ELSE at[k - 1] + dependency_size(at[k - 1])
  BY <1>10
<1> HIDE DEF Follows
<1> DEFINE S == {k \in 0..n : at[k] = h[k]}
<1>12. \A k \in 0..n : k \in S
  <2>1. 0 \in S
    BY <1>1, <1>7, <1>11
  <2>2. ASSUME NEW k \in 0..n - 1, k \in S PROVE k + 1 \in S
    <3>1. k + 1 \in 1..n /\ k + 1 \in 0..n /\ k + 1 # 0 /\ (k + 1) - 1 = k
      BY <1>1
    <3>2. at[k + 1] = at[k] + dependency_size(at[k])
      BY <1>11, <3>1
    <3>3. h[k + 1] = h[k] + dependency_size(h[k])
      BY <1>6, <3>1
    <3> QED BY <2>2, <3>1, <3>2, <3>3
  <2> HIDE DEF S
  <2> QED BY <1>1, <2>1, <2>2, UpFrom
<1>13. \A k \in 0..n : at[k] = h[k]
  BY <1>12
<1>14. n \in 0..n /\ \A k \in 1..n : k - 1 \in 0..n
  BY <1>1
<1> QED BY <1>6, <1>7, <1>9, <1>13, <1>14 DEF n

\* A symbol's name is preceded by a word for its section and offset.
LEMMA LabelledFacts ==
  ASSUME NEW l \in Nat
  PROVE  /\ << 0 >> \o String(l) \in Seq(Words)
         /\ Len(<< 0 >> \o String(l)) = l \div 4 + 2 /\ l \div 4 \in Nat
         /\ Len(String(l)) = l \div 4 + 1
         /\ \A a \in Nat : Holds(a, << 0 >> \o String(l)) => Holds(a + 4, String(l))
<1>1. l \div 4 \in Nat
  OBVIOUS
<1>2. String(l) \in Seq(Words) /\ Len(String(l)) = l \div 4 + 1
  BY StringFacts
<1>3. << 0 >> \in Seq(Words) /\ Len(<< 0 >>) = 1
  BY DEF Words
<1>4. ASSUME NEW s \in Seq(Words), NEW t \in Seq(Words), Len(s) = 1
      PROVE  /\ s \o t \in Seq(Words) /\ Len(s \o t) = Len(t) + 1
             /\ \A j \in 1..Len(t) : (s \o t)[j + 1] = t[j]
  <2>1. s \o t \in Seq(Words) /\ Len(s \o t) = Len(s) + Len(t)
    OBVIOUS
  <2>2. \A j \in 1..Len(t) : (s \o t)[Len(s) + j] = t[j]
    OBVIOUS
  <2>3. \A j \in 1..Len(t) : Len(s) + j = j + 1
    BY <1>4
  <2> QED BY <1>4, <2>1, <2>2, <2>3
<1>5. /\ << 0 >> \o String(l) \in Seq(Words)
      /\ Len(<< 0 >> \o String(l)) = Len(String(l)) + 1
      /\ \A j \in 1..Len(String(l)) : (<< 0 >> \o String(l))[j + 1] = String(l)[j]
  BY <1>2, <1>3, <1>4
<1>6. ASSUME NEW a \in Nat, Holds(a, << 0 >> \o String(l)), NEW j \in 1..Len(String(l))
      PROVE  Word(a + 4 + 4 * (j - 1)) = String(l)[j]
  <2>1. j + 1 \in 1..Len(<< 0 >> \o String(l))
    BY <1>1, <1>2, <1>5
  <2>2. Word(a + 4 * ((j + 1) - 1)) = (<< 0 >> \o String(l))[j + 1]
    <3> DEFINE i == j + 1
    <3>1. i \in 1..Len(<< 0 >> \o String(l))
      BY <2>1
    <3> HIDE DEF i
    <3>2. Word(a + 4 * (i - 1)) = (<< 0 >> \o String(l))[i]
      BY <1>6, <3>1 DEF Holds
    <3> QED BY <3>2 DEF i
  <2>3. a + 4 * ((j + 1) - 1) = a + 4 + 4 * (j - 1)
    BY <1>1, <1>2
  <2> QED BY <1>5, <2>2, <2>3
<1>7. \A a \in Nat : Holds(a, << 0 >> \o String(l)) => Holds(a + 4, String(l))
  BY <1>6 DEF Holds
<1> QED BY <1>1, <1>2, <1>5, <1>7

\* So are the symbols of a table.
LEMMA SymbolsFollow ==
  ASSUME NEW a \in Nat, NEW names \in Seq(Nat), Holds(a, Symbols(names)),
         Len(image) \in Nat, Len(Symbols(names)) <= Len(image)
  PROVE  /\ SymbolTable(a, Len(names))[Len(names)] = a + 4 * Len(Symbols(names))
         /\ \A k \in 1..Len(names) : strlen(SymbolTable(a, Len(names))[k - 1] + 4) = names[k]
<1> DEFINE n == Len(names)
           parts == [k \in DOMAIN names |-> << 0 >> \o String(names[k])]
           h == [k \in 0..n |-> a + 4 * Before(parts, k + 1)]
<1>1. n \in Nat /\ DOMAIN names = 1..n /\ \A k \in 1..n : names[k] \in Nat
  OBVIOUS
<1>2. parts \in Seq(Seq(Words)) /\ Len(parts) = n
  <2>1. parts \in [1..n -> Seq(Words)]
    BY <1>1, LabelledFacts
  <2> QED BY <1>1, <2>1, FunctionIsSeq
<1>3. \A k \in 1..n : parts[k] = << 0 >> \o String(names[k])
  BY <1>1
<1>4. Symbols(names) = FlattenSeq(parts)
  BY DEF Symbols
<1> HIDE DEF n, parts
<1>5. /\ FlattenSeq(parts) \in Seq(Words)
      /\ Before(parts, 1) = 0 /\ Before(parts, n + 1) = Len(Symbols(names))
      /\ \A k \in 1..n : /\ Before(parts, k) \in Nat
                         /\ Before(parts, k + 1) = Before(parts, k) + Len(parts[k])
                         /\ Before(parts, k + 1) <= Len(Symbols(names))
  BY <1>2, <1>4, FlattenPlaces
<1>6. ASSUME NEW k \in 1..n
      PROVE  strlen(h[k - 1] + 4) = names[k] /\ h[k] = h[k - 1] + symbol_size(h[k - 1])
  <2>1. /\ k - 1 \in 0..n /\ k \in 0..n /\ (k - 1) + 1 = k
        /\ parts[k] = << 0 >> \o String(names[k]) /\ names[k] \in Nat
    BY <1>1, <1>3
  <2>2. h[k - 1] = a + 4 * Before(parts, k) /\ h[k] = a + 4 * Before(parts, k + 1)
    BY <2>1
  <2>3. Holds(h[k - 1], parts[k]) /\ h[k - 1] \in Nat
    <3>1. Holds(a, FlattenSeq(parts))
      BY <1>4
    <3>2. Holds(a + 4 * Before(parts, k), parts[k])
      BY <1>2, <3>1, PiecesHold
    <3> HIDE DEF h
    <3> QED BY <1>5, <2>2, <3>2
  <2>4. /\ Len(parts[k]) = names[k] \div 4 + 2 /\ names[k] \div 4 \in Nat
        /\ Len(String(names[k])) = names[k] \div 4 + 1
    BY <2>1, LabelledFacts
  <2>5. Len(Symbols(names)) \in Nat
    BY <1>4, <1>5
  <2>6. Len(parts[k]) <= Len(image)
    BY <1>5, <2>4, <2>5
  <2>7. strlen(h[k - 1] + 4) = names[k]
    <3> HIDE DEF h
    <3>1. Holds(h[k - 1] + 4, String(names[k])) /\ h[k - 1] + 4 \in Nat
      <4> DEFINE b == h[k - 1]
      <4>1. b \in Nat /\ Holds(b, << 0 >> \o String(names[k])) /\ names[k] \in Nat
        BY <2>1, <2>3
      <4> HIDE DEF b
      <4>2. Holds(b + 4, String(names[k])) /\ b + 4 \in Nat
        <5>1. \A l \in Nat : \A x \in Nat :
                Holds(x, << 0 >> \o String(l)) => Holds(x + 4, String(l))
          BY LabelledFacts
        <5>2. Holds(b + 4, String(names[k]))
          BY <4>1, <5>1, Zenon
        <5> QED BY <4>1, <5>2
      <4> QED BY <4>2 DEF b
    <3>2. Len(String(names[k])) <= Len(image)
      BY <2>4, <2>6
    <3> QED BY <2>1, <3>1, <3>2, StrlenFinds
  <2>8. symbol_size(h[k - 1]) = 4 * Len(parts[k])
    <3>1. align(names[k] + 1, 4) = 4 * (names[k] \div 4 + 1)
      BY <2>1, AlignFacts
    <3>2. symbol_size(h[k - 1]) = 4 + align(names[k] + 1, 4)
      BY <2>7 DEF symbol_size, alignment
    <3> QED BY <2>4, <3>1, <3>2
  <2>9. Before(parts, k + 1) = Before(parts, k) + Len(parts[k]) /\ Before(parts, k) \in Nat
    BY <1>5
  <2> HIDE DEF h
  <2> QED BY <2>2, <2>4, <2>7, <2>8, <2>9
<1>7. h[0] = a /\ h[n] = a + 4 * Len(Symbols(names))
  <2>1. 0 \in 0..n /\ n \in 0..n /\ 0 + 1 = 1
    BY <1>1
  <2>2. h[0] = a + 4 * Before(parts, 1) /\ h[n] = a + 4 * Before(parts, n + 1)
    BY <2>1
  <2>3. Before(parts, 1) = 0 /\ Before(parts, n + 1) = Len(Symbols(names))
    BY <1>5
  <2> HIDE DEF h
  <2>4. h[0] = a
    BY <2>2, <2>3
  <2> QED BY <2>2, <2>3, <2>4
<1> HIDE DEF h
<1> DEFINE Follows(g) == g = [k \in 0..n |->
                              IF k = 0 THEN a ELSE g[k - 1] + symbol_size(g[k - 1])]
<1>8. Follows(h)
  <2>1. h = [k \in 0..n |-> h[k]]
    BY DEF h
  <2>2. ASSUME NEW k \in 0..n
        PROVE  h[k] = IF k = 0 THEN a ELSE h[k - 1] + symbol_size(h[k - 1])
    <3>1. k = 0 \/ k \in 1..n
      BY <1>1
    <3> QED BY <1>6, <1>7, <3>1
  <2> QED BY <2>1, <2>2
<1> DEFINE at == CHOOSE g : Follows(g)
<1>9. SymbolTable(a, n) = at
  BY DEF SymbolTable
<1>10. Follows(at)
  <2> HIDE DEF Follows
  <2> QED BY <1>8
<1> HIDE DEF at
<1>11. \A k \in 0..n : at[k] = IF k = 0 THEN a ELSE at[k - 1] + symbol_size(at[k - 1])
  BY <1>10
<1> HIDE DEF Follows
<1> DEFINE S == {k \in 0..n : at[k] = h[k]}
<1>12. \A k \in 0..n : k \in S
  <2>1. 0 \in S
    BY <1>1, <1>7, <1>11
  <2>2. ASSUME NEW k \in 0..n - 1, k \in S PROVE k + 1 \in S
    <3>1. k + 1 \in 1..n /\ k + 1 \in 0..n /\ k + 1 # 0 /\ (k + 1) - 1 = k
      BY <1>1
    <3>2. at[k + 1] = at[k] + symbol_size(at[k])
      BY <1>11, <3>1
    <3>3. h[k + 1] = h[k] + symbol_size(h[k])
      BY <1>6, <3>1
    <3> QED BY <2>2, <3>1, <3>2, <3>3
  <2> HIDE DEF S
  <2> QED BY <1>1, <2>1, <2>2, UpFrom
<1>13. \A k \in 0..n : at[k] = h[k]
  BY <1>12
<1>14. n \in 0..n /\ \A k \in 1..n : k - 1 \in 0..n
  BY <1>1
<1> QED BY <1>6, <1>7, <1>9, <1>13, <1>14 DEF n
-----------------------------------------------------------------------------
\* The parts of a module's image.
LEMMA PartsFacts ==
  ASSUME module \in Modules
  PROVE  /\ Parts \in Seq(Seq(Words)) /\ Len(Parts) = 8
         /\ Len(Parts[1]) = 12 /\ Parts[2] = String(module.name)
         /\ Parts[3] = Strings(module.libraries)
         /\ \A k \in 1..3 : Len(Parts[k + 3]) = 2 * module.relocations[k]
         /\ Parts[7] = Symbols(module.imported) /\ Parts[8] = Symbols(module.exported)
         /\ module.name \in Nat /\ module.libraries \in Seq(Nat)
         /\ module.imported \in Seq(Nat) /\ module.exported \in Seq(Nat)
         /\ \A k \in 1..3 : module.relocations[k] \in Nat
         /\ module.sections \in [text : Nat, init : Nat, data : Nat]
<1>1. ASSUME NEW names \in Names PROVE names \in Seq(Nat)
  <2>1. PICK n \in 0..MaxItems : names \in [1..n -> ItemLengths]
    BY DEF Names
  <2>2. n \in Nat /\ ItemLengths \subseteq Nat
    BY LayoutAssumption
  <2>3. names \in [1..n -> Nat]
    BY <2>1, <2>2
  <2> QED BY <2>2, <2>3, FunctionIsSeq
<1>2. /\ module.name \in Nat /\ module.sections \in [text : Nat, init : Nat, data : Nat]
      /\ module.relocations \in [1..3 -> 0..MaxItems]
      /\ module.libraries \in Names /\ module.imported \in Names /\ module.exported \in Names
  BY LayoutAssumption DEF Modules
<1>3. ASSUME NEW n \in Nat PROVE Zeros(n) \in Seq(Words) /\ Len(Zeros(n)) = n
  <2>1. Zeros(n) \in [1..n -> Words]
    BY DEF Zeros, Words
  <2> QED BY <2>1, FunctionIsSeq
<1>4. ASSUME NEW names \in Seq(Nat)
      PROVE  Strings(names) \in Seq(Words) /\ Symbols(names) \in Seq(Words)
  <2> DEFINE n == Len(names)
             strings == [k \in DOMAIN names |-> String(names[k])]
             symbols == [k \in DOMAIN names |-> << 0 >> \o String(names[k])]
  <2>1. n \in Nat /\ DOMAIN names = 1..n /\ \A k \in 1..n : names[k] \in Nat
    OBVIOUS
  <2>2. strings \in [1..n -> Seq(Words)]
    BY <2>1, StringFacts
  <2>3. symbols \in [1..n -> Seq(Words)]
    BY <2>1, LabelledFacts
  <2>4. strings \in Seq(Seq(Words)) /\ symbols \in Seq(Seq(Words))
    <3> HIDE DEF strings, symbols, n
    <3> QED BY <2>1, <2>2, <2>3, FunctionIsSeq
  <2>5. FlattenSeq(strings) \in Seq(Words) /\ FlattenSeq(symbols) \in Seq(Words)
    <3> HIDE DEF strings, symbols, n
    <3> QED BY <2>4, FlattenPlaces
  <2> QED BY <2>5 DEF Strings, Symbols
<1>5. /\ module.libraries \in Seq(Nat) /\ module.imported \in Seq(Nat)
      /\ module.exported \in Seq(Nat) /\ \A k \in 1..3 : module.relocations[k] \in Nat
  BY <1>1, <1>2, LayoutAssumption
<1> DEFINE a == <<Zeros(HeaderSize \div 4), String(module.name), Strings(module.libraries)>>
           b == [k \in 1..3 |-> Zeros(2 * module.relocations[k])]
           c == <<Symbols(module.imported), Symbols(module.exported)>>
<1>6. Parts = a \o b \o c
  BY DEF Parts
<1>7. HeaderSize \div 4 = 12
  BY DEF HeaderSize
<1>8. a \in Seq(Seq(Words)) /\ Len(a) = 3
  <2>1. /\ Zeros(HeaderSize \div 4) \in Seq(Words) /\ String(module.name) \in Seq(Words)
        /\ Strings(module.libraries) \in Seq(Words)
    BY <1>2, <1>3, <1>4, <1>5, <1>7, StringFacts
  <2>2. ASSUME NEW x \in Seq(Words), NEW y \in Seq(Words), NEW z \in Seq(Words)
        PROVE  <<x, y, z>> \in Seq(Seq(Words)) /\ Len(<<x, y, z>>) = 3
    OBVIOUS
  <2> QED BY <2>1, <2>2
<1>9. c \in Seq(Seq(Words)) /\ Len(c) = 2
  BY <1>4, <1>5
<1>10. /\ b \in Seq(Seq(Words)) /\ Len(b) = 3
       /\ \A k \in 1..3 : Len(b[k]) = 2 * module.relocations[k]
  <2>1. \A k \in 1..3 : 2 * module.relocations[k] \in Nat
    BY <1>5
  <2>2. b \in [1..3 -> Seq(Words)] /\ \A k \in 1..3 : Len(b[k]) = 2 * module.relocations[k]
    BY <1>3, <2>1
  <2> HIDE DEF b
  <2> QED BY <2>2, FunctionIsSeq
<1>11. /\ Len(a[1]) = 12 /\ a[2] = String(module.name) /\ a[3] = Strings(module.libraries)
       /\ c[1] = Symbols(module.imported) /\ c[2] = Symbols(module.exported)
  BY <1>3, <1>7
<1> HIDE DEF a, b, c
<1>12. /\ a \o b \o c \in Seq(Seq(Words)) /\ Len(a \o b \o c) = 8
       /\ \A k \in 1..3 : (a \o b \o c)[k] = a[k] /\ (a \o b \o c)[k + 3] = b[k]
       /\ \A k \in 1..2 : (a \o b \o c)[k + 6] = c[k]
  <2> DEFINE d == a \o b
  <2>1. d \in Seq(Seq(Words)) /\ Len(d) = 6
    <3>1. d \in Seq(Seq(Words)) /\ Len(d) = Len(a) + Len(b)
      BY <1>8, <1>10, ConcatFacts, Zenon
    <3> QED BY <1>8, <1>10, <3>1
  <2>2. /\ \A k \in 1..3 : d[k] = a[k]
        /\ \A k \in 1..3 : d[k + 3] = b[k]
    <3>1. \A k \in 1..Len(a) : d[k] = a[k]
      BY <1>8, <1>10, ConcatFacts, Zenon
    <3>2. \A k \in 1..Len(b) : d[k + Len(a)] = b[k]
      <4>1. \A s, t \in Seq(Seq(Words)) :
              \A k \in 1..Len(t) : (s \o t)[k + Len(s)] = t[k]
        BY ConcatFacts
      <4> QED BY <1>8, <1>10, <4>1, Zenon
    <3> QED BY <1>8, <1>10, <3>1, <3>2
  <2> HIDE DEF d
  <2>3. d \o c \in Seq(Seq(Words)) /\ Len(d \o c) = 8
    <3>1. d \o c \in Seq(Seq(Words)) /\ Len(d \o c) = Len(d) + Len(c)
      BY <1>9, <2>1, ConcatFacts, Zenon
    <3> QED BY <1>9, <2>1, <3>1
  <2>4. /\ \A k \in 1..6 : (d \o c)[k] = d[k]
        /\ \A k \in 1..2 : (d \o c)[k + 6] = c[k]
    <3>1. \A k \in 1..Len(d) : (d \o c)[k] = d[k]
      BY <1>9, <2>1, ConcatFacts, Zenon
    <3>2. \A k \in 1..Len(c) : (d \o c)[k + Len(d)] = c[k]
      <4>1. \A s, t \in Seq(Seq(Words)) :
              \A k \in 1..Len(t) : (s \o t)[k + Len(s)] = t[k]
        BY ConcatFacts
      <4> QED BY <1>9, <2>1, <4>1, Zenon
    <3> QED BY <1>9, <2>1, <3>1, <3>2
  <2>5. \A k \in 1..3 : k \in 1..6 /\ k + 3 \in 1..6
    OBVIOUS
  <2>6. \A k \in 1..3 : (d \o c)[k] = a[k] /\ (d \o c)[k + 3] = b[k]
    BY <2>2, <2>4, <2>5
  <2> QED BY <2>3, <2>4, <2>6 DEF d
<1>13. /\ Parts[1] = a[1] /\ Parts[2] = a[2] /\ Parts[3] = a[3]
       /\ Parts[7] = c[1] /\ Parts[8] = c[2] /\ \A k \in 1..3 : Parts[k + 3] = b[k]
  <2> DEFINE d == a \o b \o c
  <2>1. \A k \in 1..3 : d[k] = a[k] /\ d[k + 3] = b[k]
    BY <1>12
  <2>2. \A k \in 1..2 : d[k + 6] = c[k]
    BY <1>12
  <2>3. Parts = d
    BY <1>6
  <2> HIDE DEF d
  <2>4. d[1] = a[1] /\ d[2] = a[2] /\ d[3] = a[3] /\ d[1 + 6] = c[1] /\ d[2 + 6] = c[2]
    BY <2>1, <2>2
  <2> QED BY <2>1, <2>3, <2>4
<1> QED BY <1>2, <1>5, <1>6, <1>10, <1>11, <1>12, <1>13

\* Each part is where mkimage says that it is, and the next one is where it ends.
LEMMA PartHolds ==
  ASSUME module \in Modules, base \in Nat, image = FlattenSeq(Parts), NEW k \in 1..8
  PROVE  /\ image \in Seq(Words) /\ Len(image) \in Nat /\ Offset(1) = 0
         /\ Offset(k) \in Nat /\ Offset(k + 1) \in Nat /\ Len(Parts[k]) \in Nat
         /\ Offset(k + 1) = Offset(k) + 4 * Len(Parts[k])
         /\ Len(Parts[k]) <= Len(image)
         /\ Holds(base + Offset(k), Parts[k])
<1> DEFINE b == Before(Parts, k)
           l == Len(Parts[k])
<1>1. Parts \in Seq(Seq(Words)) /\ k \in 1..Len(Parts)
  <2>1. Parts \in Seq(Seq(Words)) /\ Len(Parts) = 8
    BY PartsFacts, Zenon
  <2> QED BY <2>1, Zenon
<1>2. /\ image \in Seq(Words) /\ Before(Parts, 1) = 0 /\ b \in Nat
      /\ Before(Parts, k + 1) = b + l /\ Before(Parts, k + 1) <= Len(image)
      /\ \A j \in 1..l : image[b + j] = Parts[k][j]
  BY <1>1, FlattenPlaces, Zenon
<1>3. Len(image) \in Nat /\ DOMAIN image = 1..Len(image)
  BY <1>2
<1>4. l \in Nat
  <2>1. \A s \in Seq(Seq(Words)) : \A i \in 1..Len(s) : Len(s[i]) \in Nat
    OBVIOUS
  <2> QED BY <1>1, <2>1, Zenon
<1>5. Offset(1) = 0 /\ Offset(k) = 4 * b /\ Offset(k + 1) = 4 * (b + l)
  <2>1. /\ Offset(1) = 4 * Before(Parts, 1) /\ Offset(k) = 4 * Before(Parts, k)
        /\ Offset(k + 1) = 4 * Before(Parts, k + 1)
    BY Zenon DEF Offset, Before
  <2>2. Offset(1) = 4 * 0 /\ Offset(k) = 4 * b /\ Offset(k + 1) = 4 * (b + l)
    BY <1>2, <2>1, Zenon
  <2> HIDE DEF b, l
  <2> QED BY <2>2
<1> HIDE DEF b
<1>6. ASSUME NEW j \in 1..l PROVE Word(base + Offset(k) + 4 * (j - 1)) = Parts[k][j]
  <2> DEFINE a == base + Offset(k) + 4 * (j - 1)
             i == (a - base) \div 4 + 1
  <2>1. i = b + j
    <3> HIDE DEF l
    <3>1. a - base = 4 * (b + (j - 1)) /\ b + (j - 1) \in Nat
      BY <1>2, <1>4, <1>5
    <3>2. (4 * (b + (j - 1))) \div 4 = b + (j - 1)
      BY <3>1
    <3> HIDE DEF a
    <3> QED BY <1>2, <1>4, <3>1, <3>2
  <2>2. b + j \in DOMAIN image
    <3> HIDE DEF l
    <3> QED BY <1>2, <1>3, <1>4
  <2>3. Word(a) = IF i \in DOMAIN image THEN image[i] ELSE 0
    BY DEF Word
  <2> HIDE DEF a, i
  <2>4. Word(a) = image[b + j]
    BY <2>1, <2>2, <2>3
  <2> QED BY <1>2, <2>4, Zenon DEF a
<1>7. Holds(base + Offset(k), Parts[k])
  BY <1>6, Zenon DEF Holds
<1>8. Offset(k + 1) = Offset(k) + 4 * l /\ l <= Len(image) /\ Offset(k) \in Nat
      /\ Offset(k + 1) \in Nat
  <2> HIDE DEF l
  <2> QED BY <1>2, <1>3, <1>4, <1>5
<1> QED BY <1>2, <1>3, <1>4, <1>5, <1>7, <1>8, Zenon

\* Places that follow one another, from the start of the file and from a base.
LEMMA WordsAdd ==
  ASSUME NEW o \in Nat, NEW n \in Nat, NEW p, p = o + 4 * n
  PROVE  p \in Nat
OBVIOUS

LEMMA PairsAdd ==
  ASSUME NEW o \in Nat, NEW n \in Nat, NEW p, p = o + 4 * (2 * n)
  PROVE  p = o + 8 * n /\ p \in Nat
OBVIOUS

LEMMA PlacesMove ==
  ASSUME NEW b \in Nat, NEW o \in Nat
  PROVE  b + o \in Nat
OBVIOUS

LEMMA WordsMove ==
  ASSUME NEW b \in Nat, NEW o \in Nat, NEW n \in Nat, NEW p, p = o + 4 * n
  PROVE  b + o + 4 * n = b + p
OBVIOUS

LEMMA PairsMove ==
  ASSUME NEW b \in Nat, NEW o \in Nat, NEW n \in Nat, NEW p, p = o + 8 * n
  PROVE  b + o + 8 * n = b + p
OBVIOUS

\* The last word of every name has room for its zero: no length is a multiple of 4.
RoomForZero == \A n \in NameLengths : n % 4 # 0

\* The lengths of the parts in the file are what the parser passes over, but for a name
\* without room for its zero.
LEMMA ParseFinds ==
  ASSUME module \in Modules, base \in Bases, image = FlattenSeq(Parts), RoomForZero
  PROVE  /\ \A p \in Tables : Parse[p] = base + Layout[p]
         /\ Parse.text = align(base + Offset(9), 16)
         /\ Parse.init = Parse.text + module.sections.text
         /\ Parse.data_section = Parse.init + module.sections.init
         /\ \A k \in 1..Len(module.imported) :
              strlen(SymbolTable(Parse.imported, Len(module.imported))[k - 1] + 4)
                = module.imported[k]
         /\ \A k \in 1..Len(module.libraries) :
              strlen(Dependencies(Parse.libraries, Len(module.libraries))[k - 1])
                = module.libraries[k]
<1>1. base \in Nat
  BY LayoutAssumption
<1>2. ASSUME NEW k \in 1..8
      PROVE  /\ Len(image) \in Nat /\ Offset(1) = 0
             /\ Offset(k) \in Nat /\ Offset(k + 1) \in Nat /\ Len(Parts[k]) \in Nat
             /\ Offset(k + 1) = Offset(k) + 4 * Len(Parts[k])
             /\ Len(Parts[k]) <= Len(image)
             /\ Holds(base + Offset(k), Parts[k])
  BY <1>1, PartHolds, Zenon
<1>3. /\ Len(Parts[1]) = 12 /\ Parts[2] = String(module.name)
      /\ Parts[3] = Strings(module.libraries)
      /\ Len(Parts[4]) = 2 * module.relocations[1]
      /\ Len(Parts[5]) = 2 * module.relocations[2]
      /\ Len(Parts[6]) = 2 * module.relocations[3]
      /\ Parts[7] = Symbols(module.imported) /\ Parts[8] = Symbols(module.exported)
      /\ module.name \in Nat /\ module.libraries \in Seq(Nat)
      /\ module.imported \in Seq(Nat) /\ module.exported \in Seq(Nat)
      /\ module.relocations[1] \in Nat /\ module.relocations[2] \in Nat
      /\ module.relocations[3] \in Nat
  <2>1. \A k \in 1..3 : Len(Parts[k + 3]) = 2 * module.relocations[k]
    BY PartsFacts, Zenon
  <2>2. \A k \in 1..3 : module.relocations[k] \in Nat
    BY PartsFacts, Zenon
  <2>3. 1 \in 1..3 /\ 2 \in 1..3 /\ 3 \in 1..3 /\ 1 + 3 = 4 /\ 2 + 3 = 5 /\ 3 + 3 = 6
    OBVIOUS
  <2>4. /\ Len(Parts[1 + 3]) = 2 * module.relocations[1]
        /\ Len(Parts[2 + 3]) = 2 * module.relocations[2]
        /\ Len(Parts[3 + 3]) = 2 * module.relocations[3]
    BY <2>1, <2>3, Zenon
  <2>5. /\ Len(Parts[4]) = 2 * module.relocations[1]
        /\ Len(Parts[5]) = 2 * module.relocations[2]
        /\ Len(Parts[6]) = 2 * module.relocations[3]
    BY <2>3, <2>4
  <2>6. /\ module.relocations[1] \in Nat /\ module.relocations[2] \in Nat
        /\ module.relocations[3] \in Nat
    BY <2>2, <2>3, Zenon
  <2> QED BY <2>5, <2>6, PartsFacts, Zenon
<1>4. /\ Len(image) \in Nat /\ Offset(1) = 0 /\ \A k \in 2..9 : Offset(k) \in Nat
      /\ Offset(2) = Offset(1) + 4 * Len(Parts[1])
      /\ Offset(3) = Offset(2) + 4 * Len(Parts[2])
      /\ Offset(4) = Offset(3) + 4 * Len(Parts[3])
      /\ Offset(5) = Offset(4) + 4 * Len(Parts[4])
      /\ Offset(6) = Offset(5) + 4 * Len(Parts[5])
      /\ Offset(7) = Offset(6) + 4 * Len(Parts[6])
      /\ Offset(8) = Offset(7) + 4 * Len(Parts[7])
      /\ Offset(9) = Offset(8) + 4 * Len(Parts[8])
  <2>1. \A k \in 2..9 : k - 1 \in 1..8 /\ (k - 1) + 1 = k
    OBVIOUS
  <2>2. \A k \in 2..9 : Offset(k) \in Nat /\ Offset(k) = Offset(k - 1) + 4 * Len(Parts[k - 1])
    <3> TAKE k \in 2..9
    <3>1. Offset((k - 1) + 1) \in Nat
          /\ Offset((k - 1) + 1) = Offset(k - 1) + 4 * Len(Parts[k - 1])
      BY <1>2, <2>1, Zenon
    <3> QED BY <2>1, <3>1, Zenon
  <2>3. /\ 2 \in 2..9 /\ 3 \in 2..9 /\ 4 \in 2..9 /\ 5 \in 2..9 /\ 6 \in 2..9 /\ 7 \in 2..9
        /\ 8 \in 2..9 /\ 9 \in 2..9 /\ 2 - 1 = 1 /\ 3 - 1 = 2 /\ 4 - 1 = 3 /\ 5 - 1 = 4
        /\ 6 - 1 = 5 /\ 7 - 1 = 6 /\ 8 - 1 = 7 /\ 9 - 1 = 8 /\ 1 \in 1..8
    OBVIOUS
  <2>4. /\ Offset(2) = Offset(1) + 4 * Len(Parts[1])
        /\ Offset(3) = Offset(2) + 4 * Len(Parts[2])
        /\ Offset(4) = Offset(3) + 4 * Len(Parts[3])
        /\ Offset(5) = Offset(4) + 4 * Len(Parts[4])
    BY <2>2, <2>3
  <2>5. /\ Offset(6) = Offset(5) + 4 * Len(Parts[5])
        /\ Offset(7) = Offset(6) + 4 * Len(Parts[6])
        /\ Offset(8) = Offset(7) + 4 * Len(Parts[7])
        /\ Offset(9) = Offset(8) + 4 * Len(Parts[8])
    BY <2>2, <2>3
  <2> QED BY <1>2, <2>2, <2>3, <2>4, <2>5, Zenon
<1>5. /\ Offset(2) = 48 /\ Offset(3) = 48 + 4 * Len(String(module.name))
      /\ Offset(4) = Offset(3) + 4 * Len(Strings(module.libraries))
      /\ Offset(5) = Offset(4) + 8 * module.relocations[1]
      /\ Offset(6) = Offset(5) + 8 * module.relocations[2]
      /\ Offset(7) = Offset(6) + 8 * module.relocations[3]
      /\ Offset(8) = Offset(7) + 4 * Len(Symbols(module.imported))
      /\ Offset(9) = Offset(8) + 4 * Len(Symbols(module.exported))
      /\ Offset(3) \in Nat /\ Offset(4) \in Nat /\ Offset(5) \in Nat /\ Offset(6) \in Nat
      /\ Offset(7) \in Nat /\ Offset(8) \in Nat /\ Offset(9) \in Nat
      /\ Len(String(module.name)) \in Nat /\ Len(Strings(module.libraries)) \in Nat
      /\ Len(Symbols(module.imported)) \in Nat /\ Len(Symbols(module.exported)) \in Nat
  <2>1. /\ Len(String(module.name)) \in Nat /\ Len(Strings(module.libraries)) \in Nat
        /\ Len(Symbols(module.imported)) \in Nat /\ Len(Symbols(module.exported)) \in Nat
    <3>1. Len(Parts[2]) \in Nat /\ Len(Parts[3]) \in Nat /\ Len(Parts[7]) \in Nat
          /\ Len(Parts[8]) \in Nat
      <4>1. 2 \in 1..8 /\ 3 \in 1..8 /\ 7 \in 1..8 /\ 8 \in 1..8
        OBVIOUS
      <4> QED BY <1>2, <4>1, Zenon
    <3> QED BY <1>3, <3>1, Zenon
  <2>2. /\ Offset(2) = Offset(1) + 4 * 12 /\ Offset(3) = Offset(2) + 4 * Len(String(module.name))
        /\ Offset(4) = Offset(3) + 4 * Len(Strings(module.libraries))
        /\ Offset(5) = Offset(4) + 4 * (2 * module.relocations[1])
        /\ Offset(6) = Offset(5) + 4 * (2 * module.relocations[2])
        /\ Offset(7) = Offset(6) + 4 * (2 * module.relocations[3])
        /\ Offset(8) = Offset(7) + 4 * Len(Symbols(module.imported))
        /\ Offset(9) = Offset(8) + 4 * Len(Symbols(module.exported))
    BY <1>3, <1>4, Zenon
  <2>3. module.relocations[1] \in Nat /\ module.relocations[2] \in Nat
        /\ module.relocations[3] \in Nat /\ Offset(1) = 0
    BY <1>3, <1>4, Zenon
  <2>4. Offset(2) = 48 /\ 48 \in Nat /\ Offset(3) = 48 + 4 * Len(String(module.name))
    <3>1. 0 + 4 * 12 = 48 /\ 48 \in Nat
      OBVIOUS
    <3> QED BY <2>2, <2>3, <3>1, Zenon
  <2>5. Offset(3) \in Nat
    BY <2>1, <2>4, WordsAdd, Zenon
  <2>6. Offset(4) \in Nat
    BY <2>1, <2>2, <2>5, WordsAdd, Zenon
  <2>7. Offset(5) = Offset(4) + 8 * module.relocations[1] /\ Offset(5) \in Nat
    BY <2>2, <2>3, <2>6, PairsAdd, Zenon
  <2>8. Offset(6) = Offset(5) + 8 * module.relocations[2] /\ Offset(6) \in Nat
    BY <2>2, <2>3, <2>7, PairsAdd, Zenon
  <2>9. Offset(7) = Offset(6) + 8 * module.relocations[3] /\ Offset(7) \in Nat
    BY <2>2, <2>3, <2>8, PairsAdd, Zenon
  <2>10. Offset(8) \in Nat
    BY <2>1, <2>2, <2>9, WordsAdd, Zenon
  <2>11. Offset(9) \in Nat
    BY <2>1, <2>2, <2>10, WordsAdd, Zenon
  <2> QED BY <2>1, <2>2, <2>4, <2>5, <2>6, <2>7, <2>8, <2>9, <2>10, <2>11, Zenon
<1>6. /\ Holds(base + Offset(2), String(module.name))
      /\ Holds(base + Offset(3), Strings(module.libraries))
      /\ Holds(base + Offset(7), Symbols(module.imported))
      /\ Holds(base + Offset(8), Symbols(module.exported))
      /\ Len(String(module.name)) <= Len(image) /\ Len(Strings(module.libraries)) <= Len(image)
      /\ Len(Symbols(module.imported)) <= Len(image)
      /\ Len(Symbols(module.exported)) <= Len(image)
  <2>1. \A k \in 1..8 : Holds(base + Offset(k), Parts[k]) /\ Len(Parts[k]) <= Len(image)
    BY <1>2, Zenon
  <2>2. 2 \in 1..8 /\ 3 \in 1..8 /\ 7 \in 1..8 /\ 8 \in 1..8
    OBVIOUS
  <2> QED BY <1>3, <2>1, <2>2, Zenon
<1>7. strlen(base + HeaderSize) = module.name
  <2>1. base + Offset(2) \in Nat /\ base + Offset(2) = base + HeaderSize
    <3>1. 48 \in Nat
      OBVIOUS
    <3> QED BY <1>1, <1>5, <3>1, PlacesMove, Zenon DEF HeaderSize
  <2>2. strlen(base + Offset(2)) = module.name
    BY <1>3, <1>4, <1>6, <2>1, StrlenFinds, Zenon
  <2> QED BY <2>1, <2>2, Zenon
<1> DEFINE libraries == align(base + HeaderSize + strlen(base + HeaderSize), alignment)
           L == Len(module.libraries)
           M == Len(module.imported)
           X == Len(module.exported)
           symbol_table == Dependencies(libraries, L)[L]
           local == RelocationsEnd(symbol_table, module.relocations[1])
           data == RelocationsEnd(local, module.relocations[2])
           imported == RelocationsEnd(data, module.relocations[3])
           exported == SymbolTable(imported, M)[M]
           end == SymbolTable(exported, X)[X]
<1>8. libraries = base + Offset(3)
  <2>1. base + 48 \in Nat /\ (base + 48) % 4 = 0
    BY <1>1, LayoutAssumption
  <2>2. align(base + 48 + module.name, 4) = base + 48 + 4 * (module.name \div 4 + 1)
    <3>1. module.name % 4 # 0
      BY Zenon DEF Modules, RoomForZero
    <3> QED BY <1>3, <2>1, <3>1, AlignPasses, Zenon
  <2>3. Len(String(module.name)) = module.name \div 4 + 1
    BY <1>3, StringFacts, Zenon
  <2>4. module.name \div 4 \in Nat
    BY <1>3
  <2>5. libraries = align(base + 48 + module.name, 4)
    BY <1>7 DEF HeaderSize, alignment
  <2>6. Offset(3) = 48 + 4 * (module.name \div 4 + 1)
    BY <1>5, <2>3
  <2> HIDE DEF libraries
  <2> QED BY <1>1, <2>2, <2>4, <2>5, <2>6
<1> HIDE DEF libraries
<1>9. /\ symbol_table = base + Offset(4)
      /\ \A k \in 1..L : strlen(Dependencies(libraries, L)[k - 1]) = module.libraries[k]
  <2>1. base + Offset(3) \in Nat
    BY <1>1, <1>5, PlacesMove, Zenon
  <2>2. /\ Dependencies(base + Offset(3), L)[L]
              = base + Offset(3) + 4 * Len(Strings(module.libraries))
        /\ \A k \in 1..L :
             strlen(Dependencies(base + Offset(3), L)[k - 1]) = module.libraries[k]
    BY <1>3, <1>4, <1>6, <2>1, DependenciesFollow, Zenon
  <2>3. base + Offset(3) + 4 * Len(Strings(module.libraries)) = base + Offset(4)
    BY <1>1, <1>5
  <2> QED BY <1>8, <2>2, <2>3, Zenon
<1>10. imported = base + Offset(7) /\ local = base + Offset(5) /\ data = base + Offset(6)
  <2>1. RelocationsEnd(base + Offset(4), module.relocations[1]) = base + Offset(5)
    <3>1. /\ Offset(4) \in Nat /\ module.relocations[1] \in Nat
          /\ Offset(5) = Offset(4) + 8 * module.relocations[1]
      BY <1>3, <1>5, Zenon
    <3> QED BY <1>1, <3>1 DEF RelocationsEnd
  <2>2. RelocationsEnd(base + Offset(5), module.relocations[2]) = base + Offset(6)
    <3>1. /\ Offset(5) \in Nat /\ module.relocations[2] \in Nat
          /\ Offset(6) = Offset(5) + 8 * module.relocations[2]
      BY <1>3, <1>5, Zenon
    <3> QED BY <1>1, <3>1 DEF RelocationsEnd
  <2>3. RelocationsEnd(base + Offset(6), module.relocations[3]) = base + Offset(7)
    <3>1. /\ Offset(6) \in Nat /\ module.relocations[3] \in Nat
          /\ Offset(7) = Offset(6) + 8 * module.relocations[3]
      BY <1>3, <1>5, Zenon
    <3> QED BY <1>1, <3>1 DEF RelocationsEnd
  <2>4. symbol_table = base + Offset(4)
    BY <1>9
  <2> HIDE DEF symbol_table
  <2> QED BY <2>1, <2>2, <2>3, <2>4
<1> HIDE DEF imported
<1>11. /\ exported = base + Offset(8)
       /\ \A k \in 1..M : strlen(SymbolTable(imported, M)[k - 1] + 4) = module.imported[k]
  <2>1. base + Offset(7) \in Nat
    BY <1>1, <1>5, PlacesMove, Zenon
  <2>2. /\ SymbolTable(base + Offset(7), M)[M]
              = base + Offset(7) + 4 * Len(Symbols(module.imported))
        /\ \A k \in 1..M :
             strlen(SymbolTable(base + Offset(7), M)[k - 1] + 4) = module.imported[k]
    BY <1>3, <1>4, <1>6, <2>1, SymbolsFollow, Zenon
  <2>3. base + Offset(7) + 4 * Len(Symbols(module.imported)) = base + Offset(8)
    BY <1>1, <1>5
  <2> QED BY <1>10, <2>2, <2>3, Zenon
<1> HIDE DEF exported
<1>12. end = base + Offset(9)
  <2>1. base + Offset(8) \in Nat
    BY <1>1, <1>5, PlacesMove, Zenon
  <2>2. SymbolTable(base + Offset(8), X)[X]
          = base + Offset(8) + 4 * Len(Symbols(module.exported))
    BY <1>3, <1>4, <1>6, <2>1, SymbolsFollow, Zenon
  <2>3. base + Offset(8) + 4 * Len(Symbols(module.exported)) = base + Offset(9)
    <3>1. /\ Offset(8) \in Nat /\ Len(Symbols(module.exported)) \in Nat
          /\ Offset(9) = Offset(8) + 4 * Len(Symbols(module.exported))
      BY <1>5, Zenon
    <3> QED BY <1>1, <3>1
  <2> QED BY <1>11, <2>2, <2>3, Zenon
<1>13. Parse = [libraries |-> libraries, symbol_table |-> symbol_table, local |-> local,
               data |-> data, imported |-> imported, exported |-> exported,
               text |-> align(end, 16), init |-> align(end, 16) + module.sections.text,
               data_section |-> align(end, 16) + module.sections.text + module.sections.init]
  BY DEF Parse, imported, exported, libraries
<1> HIDE DEF symbol_table, local, data, end, L, M, X
<1>14. /\ Parse.libraries = libraries /\ Parse.symbol_table = symbol_table
       /\ Parse.local = local /\ Parse.data = data /\ Parse.imported = imported
       /\ Parse.exported = exported /\ Parse.text = align(end, 16)
       /\ Parse.init = align(end, 16) + module.sections.text
       /\ Parse.data_section = align(end, 16) + module.sections.text + module.sections.init
  BY <1>13
<1>15. \A p \in Tables : Parse[p] = base + Layout[p]
  <2>1. /\ Layout.libraries = Offset(3) /\ Layout.symbol_table = Offset(4)
        /\ Layout.local = Offset(5) /\ Layout.data = Offset(6)
        /\ Layout.imported = Offset(7) /\ Layout.exported = Offset(8)
    BY DEF Layout
  <2> QED BY <1>8, <1>9, <1>10, <1>11, <1>14, <2>1 DEF Tables
<1>16. \A k \in 1..M : strlen(SymbolTable(Parse.imported, M)[k - 1] + 4) = module.imported[k]
  BY <1>11, <1>14, Zenon
<1>17. \A k \in 1..L : strlen(Dependencies(Parse.libraries, L)[k - 1]) = module.libraries[k]
  BY <1>9, <1>14, Zenon
<1>18. /\ Parse.text = align(base + Offset(9), 16)
       /\ Parse.init = Parse.text + module.sections.text
       /\ Parse.data_section = Parse.init + module.sections.init
  BY <1>12, <1>14, Zenon
<1> QED BY <1>15, <1>16, <1>17, <1>18, Zenon DEF L, M
-----------------------------------------------------------------------------
\* A walk from a, each step as long as what is read there, is defined by recursion: the
\* function exists, and stays in the naturals.
LEMMA WalkExists ==
  ASSUME NEW a \in Nat, NEW n \in Nat, NEW size \in [Nat -> Nat]
  PROVE  \E f \in [0..n -> Nat] :
           f = [k \in 0..n |-> IF k = 0 THEN a ELSE f[k - 1] + size[f[k - 1]]]
<1> DEFINE Follows(f, m) ==
             f[0] = a /\ \A k \in 1..m : f[k] = f[k - 1] + size[f[k - 1]]
           S == {m \in 0..n : \E f \in [0..m -> Nat] : Follows(f, m)}
<1>1. 0 \in S
  <2>1. [k \in 0..0 |-> a] \in [0..0 -> Nat] /\ [k \in 0..0 |-> a][0] = a
    OBVIOUS
  <2>2. Follows([k \in 0..0 |-> a], 0)
    BY <2>1
  <2> HIDE DEF Follows
  <2> QED BY <2>1, <2>2
<1>2. ASSUME NEW m \in 0..n - 1, m \in S PROVE m + 1 \in S
  <2>1. m \in Nat /\ m + 1 \in 0..n
    OBVIOUS
  <2>2. PICK f \in [0..m -> Nat] : Follows(f, m)
    BY <1>2
  <2> DEFINE g == [k \in 0..m + 1 |-> IF k = m + 1 THEN f[m] + size[f[m]] ELSE f[k]]
  <2>3. f[m] \in Nat /\ size[f[m]] \in Nat
    BY <2>1
  <2>4. g \in [0..m + 1 -> Nat]
    <3>1. \A k \in 0..m + 1 : (IF k = m + 1 THEN f[m] + size[f[m]] ELSE f[k]) \in Nat
      <4>1. \A k \in 0..m + 1 : k = m + 1 \/ k \in 0..m
        BY <2>1
      <4>2. f[m] + size[f[m]] \in Nat
        BY <2>3
      <4>3. \A k \in 0..m : f[k] \in Nat
        OBVIOUS
      <4> QED BY <4>1, <4>2, <4>3, Zenon
    <3> QED BY <3>1, Zenon
  <2>5. g[m + 1] = f[m] + size[f[m]] /\ \A k \in 0..m : g[k] = f[k]
    BY <2>1
  <2> HIDE DEF g
  <2>6. ASSUME NEW k \in 1..m + 1 PROVE g[k] = g[k - 1] + size[g[k - 1]]
    <3>1. CASE k = m + 1
      <4>1. k - 1 = m /\ m \in 0..m
        BY <2>1, <3>1
      <4> QED BY <2>5, <3>1, <4>1
    <3>2. CASE k # m + 1
      <4>1. k \in 1..m /\ k \in 0..m /\ k - 1 \in 0..m
        BY <2>1, <3>2
      <4> QED BY <2>2, <2>5, <4>1
    <3> QED BY <3>1, <3>2
  <2>7. Follows(g, m + 1)
    <3>1. 0 \in 0..m
      BY <2>1
    <3> QED BY <2>2, <2>5, <2>6, <3>1
  <2> HIDE DEF Follows
  <2> QED BY <2>1, <2>4, <2>7
<1>3. n \in S
  <2>1. \A m \in 0..n : m \in S
    <3>1. 0 \in Nat
      OBVIOUS
    <3> HIDE DEF S
    <3> QED BY <1>1, <1>2, <3>1, UpFrom
  <2> HIDE DEF S
  <2> QED BY <2>1
<1>4. PICK f \in [0..n -> Nat] : Follows(f, n)
  BY <1>3
<1>5. ASSUME NEW k \in 0..n
      PROVE  f[k] = IF k = 0 THEN a ELSE f[k - 1] + size[f[k - 1]]
  BY <1>4
<1>6. f = [k \in 0..n |-> IF k = 0 THEN a ELSE f[k - 1] + size[f[k - 1]]]
  BY <1>5
<1> QED BY <1>6

\* Whatever the image holds, strlen and the sizes of the items are natural numbers.
LEMMA SizesAreNat ==
  ASSUME NEW a \in Nat, image \in Seq(Words), base \in Nat
  PROVE  /\ strlen(a) \in Nat /\ dependency_size(a) \in Nat /\ symbol_size(a) \in Nat
<1>1. Len(image) \in Nat /\ \A k \in DOMAIN image : image[k] \in Nat
  BY DEF Words
<1>2. \A x : Word(x) \in Nat
  BY <1>1 DEF Word
<1>3. ASSUME NEW x \in Nat PROVE strlen(x) \in Nat
  <2> DEFINE full == {k \in 0..Len(image) : \A j \in 0..k - 1 : Word(x + 4 * j) = 4}
             n == CHOOSE k \in full : k + 1 \notin full
  <2>1. \E k \in full : k + 1 \notin full
    <3>1. SUFFICES ASSUME \A k \in full : k + 1 \in full PROVE FALSE
      OBVIOUS
    <3>2. 0 \in full
      BY <1>1
    <3>3. \A k \in 0..Len(image) : k \in full
      <4>1. 0 \in Nat
        OBVIOUS
      <4> HIDE DEF full
      <4> QED BY <1>1, <3>1, <3>2, <4>1, UpFrom
    <3>4. Len(image) + 1 \in full
      <4>1. Len(image) \in full
        <5> HIDE DEF full
        <5> QED BY <1>1, <3>3
      <4> HIDE DEF full
      <4> QED BY <3>1, <4>1, Zenon
    <3> QED BY <1>1, <3>4
  <2>2. n \in Nat
    <3>1. n \in full
      <4> HIDE DEF full
      <4> QED BY <2>1
    <3> HIDE DEF n
    <3> QED BY <1>1, <3>1
  <2>3. strlen(x) = 4 * n + Word(x + 4 * n)
    BY DEF strlen
  <2> HIDE DEF n
  <2> QED BY <1>2, <2>2, <2>3
<1>4. strlen(a) + 1 \in Nat /\ strlen(a + 4) + 1 \in Nat
  <2>1. strlen(a) \in Nat
    BY <1>3, Zenon
  <2>2. a + 4 \in Nat
    OBVIOUS
  <2>3. strlen(a + 4) \in Nat
    BY <1>3, <2>2, Zenon
  <2> QED BY <2>1, <2>3
<1>5. align(strlen(a) + 1, 4) \in Nat /\ align(strlen(a + 4) + 1, 4) \in Nat
  BY <1>4, AlignFacts, Zenon
<1>6. dependency_size(a) \in Nat
  BY <1>5, Zenon DEF dependency_size, alignment
<1>7. symbol_size(a) = 4 + align(strlen(a + 4) + 1, 4)
  BY Zenon DEF symbol_size, alignment
<1>8. symbol_size(a) \in Nat
  BY <1>5, <1>7
<1> QED BY <1>3, <1>6, <1>8, Zenon

\* So are the places that the iterations over the tables reach.
LEMMA TablesAreNat ==
  ASSUME NEW a \in Nat, NEW n \in Nat, image \in Seq(Words), base \in Nat
  PROVE  Dependencies(a, n)[n] \in Nat /\ SymbolTable(a, n)[n] \in Nat
<1>1. Dependencies(a, n)[n] \in Nat
  <2> DEFINE size == [x \in Nat |-> dependency_size(x)]
             Walks(f) == f = [k \in 0..n |->
                               IF k = 0 THEN a ELSE f[k - 1] + dependency_size(f[k - 1])]
             at == CHOOSE f : Walks(f)
  <2>1. size \in [Nat -> Nat] /\ \A x \in Nat : size[x] = dependency_size(x)
    BY SizesAreNat
  <2> HIDE DEF size
  <2>2. PICK f \in [0..n -> Nat] :
          f = [k \in 0..n |-> IF k = 0 THEN a ELSE f[k - 1] + size[f[k - 1]]]
    BY <2>1, WalkExists
  <2>3. ASSUME NEW k \in 0..n, k # 0 PROVE f[k - 1] \in Nat
    BY <2>3
  <2>4. Walks(f)
    BY <2>1, <2>2, <2>3
  <2>5. Walks(at)
    <3> HIDE DEF Walks
    <3> QED BY <2>4
  <2>6. Dependencies(a, n) = at
    BY DEF Dependencies
  <2> HIDE DEF at
  <2> DEFINE S == {k \in 0..n : at[k] \in Nat}
  <2>7. 0 \in S
    BY <2>5
  <2>8. ASSUME NEW k \in 0..n - 1, k \in S PROVE k + 1 \in S
    <3>1. k + 1 \in 0..n /\ k + 1 # 0 /\ (k + 1) - 1 = k
      OBVIOUS
    <3>2. at[k + 1] = at[k] + dependency_size(at[k])
      <4>1. at[k + 1] = at[(k + 1) - 1] + dependency_size(at[(k + 1) - 1])
        BY <2>5, <3>1
      <4> QED BY <3>1, <4>1
    <3>3. at[k] \in Nat /\ dependency_size(at[k]) \in Nat
      BY <2>8, SizesAreNat
    <3> QED BY <3>1, <3>2, <3>3
  <2>9. \A k \in 0..n : k \in S
    <3>1. 0 \in Nat
      OBVIOUS
    <3> HIDE DEF S
    <3> QED BY <2>7, <2>8, <3>1, UpFrom
  <2> QED BY <2>6, <2>9
<1>2. SymbolTable(a, n)[n] \in Nat
  <2> DEFINE size == [x \in Nat |-> symbol_size(x)]
             Walks(f) == f = [k \in 0..n |->
                               IF k = 0 THEN a ELSE f[k - 1] + symbol_size(f[k - 1])]
             at == CHOOSE f : Walks(f)
  <2>1. size \in [Nat -> Nat] /\ \A x \in Nat : size[x] = symbol_size(x)
    BY SizesAreNat
  <2> HIDE DEF size
  <2>2. PICK f \in [0..n -> Nat] :
          f = [k \in 0..n |-> IF k = 0 THEN a ELSE f[k - 1] + size[f[k - 1]]]
    BY <2>1, WalkExists
  <2>3. ASSUME NEW k \in 0..n, k # 0 PROVE f[k - 1] \in Nat
    BY <2>3
  <2>4. Walks(f)
    BY <2>1, <2>2, <2>3
  <2>5. Walks(at)
    <3> HIDE DEF Walks
    <3> QED BY <2>4
  <2>6. SymbolTable(a, n) = at
    BY DEF SymbolTable
  <2> HIDE DEF at
  <2> DEFINE S == {k \in 0..n : at[k] \in Nat}
  <2>7. 0 \in S
    BY <2>5
  <2>8. ASSUME NEW k \in 0..n - 1, k \in S PROVE k + 1 \in S
    <3>1. k + 1 \in 0..n /\ k + 1 # 0 /\ (k + 1) - 1 = k
      OBVIOUS
    <3>2. at[k + 1] = at[k] + symbol_size(at[k])
      <4>1. at[k + 1] = at[(k + 1) - 1] + symbol_size(at[(k + 1) - 1])
        BY <2>5, <3>1
      <4> QED BY <3>1, <4>1
    <3>3. at[k] \in Nat /\ symbol_size(at[k]) \in Nat
      BY <2>8, SizesAreNat
    <3> QED BY <3>1, <3>2, <3>3
  <2>9. \A k \in 0..n : k \in S
    <3>1. 0 \in Nat
      OBVIOUS
    <3> HIDE DEF S
    <3> QED BY <2>7, <2>8, <3>1, UpFrom
  <2> QED BY <2>6, <2>9
<1> QED BY <1>1, <1>2

LEMMA ParseIsNat ==
  ASSUME module \in Modules, base \in Bases, image \in Seq(Words)
  PROVE  Parse \in [Places -> Nat]
<1>1. /\ base \in Nat /\ module.relocations[1] \in Nat /\ module.relocations[2] \in Nat
      /\ module.relocations[3] \in Nat /\ Len(module.libraries) \in Nat
      /\ Len(module.imported) \in Nat /\ Len(module.exported) \in Nat
      /\ module.sections.text \in Nat /\ module.sections.init \in Nat
  <2>1. \A k \in 1..3 : module.relocations[k] \in Nat
    BY PartsFacts, Zenon
  <2>2. \A s \in Seq(Nat) : Len(s) \in Nat
    OBVIOUS
  <2>3. /\ module.libraries \in Seq(Nat) /\ module.imported \in Seq(Nat)
        /\ module.exported \in Seq(Nat)
        /\ module.sections \in [text : Nat, init : Nat, data : Nat]
    BY PartsFacts, Zenon
  <2> QED BY <2>1, <2>2, <2>3, LayoutAssumption
<1> DEFINE libraries == align(base + HeaderSize + strlen(base + HeaderSize), alignment)
           L == Len(module.libraries)
           M == Len(module.imported)
           X == Len(module.exported)
           symbol_table == Dependencies(libraries, L)[L]
           local == RelocationsEnd(symbol_table, module.relocations[1])
           data == RelocationsEnd(local, module.relocations[2])
           imported == RelocationsEnd(data, module.relocations[3])
           exported == SymbolTable(imported, M)[M]
           end == SymbolTable(exported, X)[X]
<1>2. libraries \in Nat
  <2>1. base + HeaderSize \in Nat
    BY <1>1 DEF HeaderSize
  <2>2. strlen(base + HeaderSize) \in Nat
    BY <1>1, <2>1, SizesAreNat, Zenon
  <2>3. base + HeaderSize + strlen(base + HeaderSize) \in Nat
    BY <2>1, <2>2
  <2> QED BY <2>3, AlignFacts, Zenon DEF alignment
<1> HIDE DEF libraries
<1>3. symbol_table \in Nat
  BY <1>1, <1>2, TablesAreNat, Zenon
<1> HIDE DEF symbol_table
<1>4. local \in Nat
  BY <1>1, <1>3 DEF RelocationsEnd
<1> HIDE DEF local
<1>5. data \in Nat
  <2>1. module.relocations[2] \in Nat
    BY <1>1, Zenon
  <2> QED BY <1>4, <2>1 DEF RelocationsEnd
<1> HIDE DEF data
<1>6. imported \in Nat
  BY <1>1, <1>5 DEF RelocationsEnd
<1> HIDE DEF imported
<1>7. exported \in Nat
  BY <1>1, <1>6, TablesAreNat, Zenon
<1> HIDE DEF exported
<1>8. end \in Nat
  BY <1>1, <1>7, TablesAreNat, Zenon
<1> HIDE DEF end
<1>9. align(end, 16) \in Nat
  BY <1>8, AlignFacts, Zenon
<1>10. Parse = [libraries |-> libraries, symbol_table |-> symbol_table, local |-> local,
               data |-> data, imported |-> imported, exported |-> exported,
               text |-> align(end, 16), init |-> align(end, 16) + module.sections.text,
               data_section |-> align(end, 16) + module.sections.text + module.sections.init]
  BY Zenon DEF Parse, libraries, symbol_table, local, data, imported, exported, end
<1> HIDE DEF L, M, X
<1>11. /\ align(end, 16) + module.sections.text \in Nat
       /\ align(end, 16) + module.sections.text + module.sections.init \in Nat
  <2>1. module.sections.text \in Nat /\ module.sections.init \in Nat
    BY <1>1, Zenon
  <2> QED BY <1>9, <2>1
<1>12. Places = {"libraries", "symbol_table", "local", "data", "imported", "exported",
                 "text", "init", "data_section"}
  BY DEF Places, Tables, SectionPlaces
<1> QED BY <1>2, <1>3, <1>4, <1>5, <1>6, <1>7, <1>9, <1>10, <1>11, <1>12

\* So are the places of mkimage, and the text is at a multiple of 16.
LEMMA LayoutIsNat ==
  ASSUME module \in Modules
  PROVE  Layout \in [Places -> Nat] /\ Layout.text % 16 = 0
<1>1. module.sections.text \in Nat /\ module.sections.init \in Nat
  BY PartsFacts
<1>2. \A k \in 1..9 : Offset(k) \in Nat
  <2>1. Parts \in Seq(Seq(Words)) /\ Len(Parts) = 8
    BY PartsFacts, Zenon
  <2>2. /\ Before(Parts, 1) = 0 /\ \A k \in 1..Len(Parts) : Before(Parts, k) \in Nat
        /\ Before(Parts, Len(Parts) + 1) = Len(FlattenSeq(Parts))
        /\ FlattenSeq(Parts) \in Seq(Words)
    BY <2>1, FlattenPlaces, Zenon
  <2>3. \A s \in Seq(Words) : Len(s) \in Nat
    OBVIOUS
  <2>4. Before(Parts, 8 + 1) \in Nat /\ \A k \in 1..8 : Before(Parts, k) \in Nat
    BY <2>1, <2>2, <2>3, Zenon
  <2>5. \A k \in 1..9 : Before(Parts, k) \in Nat
    <3>1. \A k \in 1..9 : k \in 1..8 \/ k = 8 + 1
      OBVIOUS
    <3> QED BY <2>4, <3>1, Zenon
  <2>6. \A k \in 1..9 : Offset(k) = 4 * Before(Parts, k)
    BY Zenon DEF Offset, Before
  <2> QED BY <2>5, <2>6
<1>3. align(Offset(9), 16) \in Nat /\ align(Offset(9), 16) % 16 = 0
  <2>1. 9 \in 1..9
    OBVIOUS
  <2> QED BY <1>2, <2>1, AlignFacts, Zenon
<1>4. /\ Offset(3) \in Nat /\ Offset(4) \in Nat /\ Offset(5) \in Nat /\ Offset(6) \in Nat
      /\ Offset(7) \in Nat /\ Offset(8) \in Nat
  BY <1>2
<1>5. /\ align(Offset(9), 16) + module.sections.text \in Nat
      /\ align(Offset(9), 16) + module.sections.text + module.sections.init \in Nat
  BY <1>1, <1>3
<1>6. Places = {"libraries", "symbol_table", "local", "data", "imported", "exported",
                "text", "init", "data_section"}
  BY DEF Places, Tables, SectionPlaces
<1>7. Layout.text % 16 = 0
  <2>1. Layout.text = align(Offset(9), 16)
    BY DEF Layout
  <2> QED BY <1>3, <2>1, Zenon
<1>8. Layout \in [Places -> Nat]
  BY <1>3, <1>4, <1>5, <1>6 DEF Layout
<1> QED BY <1>7, <1>8
-----------------------------------------------------------------------------
\* An image is all of what mkimage writes or nothing, written in the order of Layout,
\* and what Parser found is what it finds in that image.
IInv ==
  /\ module \in Modules /\ base \in Bases
  /\ \/ image = <<>> /\ written = <<>> /\ parsed = <<>>
     \/ /\ image # <<>> /\ image = FlattenSeq(Parts) /\ written = Layout
        /\ parsed = <<>> \/ parsed = Parse

\* The header is never empty.
LEMMA ImageIsWritten ==
  ASSUME module \in Modules
  PROVE  FlattenSeq(Parts) \in Seq(Words) /\ FlattenSeq(Parts) # <<>>
<1>1. Parts \in Seq(Seq(Words)) /\ Len(Parts) = 8 /\ Len(Parts[1]) = 12
  BY PartsFacts, Zenon
<1>2. 1 \in 1..8
  OBVIOUS
<1>3. /\ FlattenSeq(Parts) \in Seq(Words) /\ Before(Parts, 1) = 0
      /\ Before(Parts, 1 + 1) = Before(Parts, 1) + Len(Parts[1])
      /\ Before(Parts, 1 + 1) <= Len(FlattenSeq(Parts))
  BY <1>1, <1>2, FlattenPlaces, Zenon
<1>4. 0 + 12 <= Len(FlattenSeq(Parts))
  BY <1>1, <1>3, Zenon
<1>5. ~(0 + 12 <= Len(<<>>))
  OBVIOUS
<1> QED BY <1>3, <1>4, <1>5, Zenon

\* What decides Parts, Layout and Parse does not change.
LEMMA WhatIsRead ==
  ASSUME UNCHANGED module
  PROVE  /\ Parts' = Parts /\ Layout' = Layout
         /\ UNCHANGED <<base, image>> => Parse' = Parse
<1>1. Parts' = Parts
  BY Zenon DEF Parts, Strings, Symbols, String
<1>2. Layout' = Layout
  BY <1>1, Zenon DEF Layout, Offset
<1>3. ASSUME UNCHANGED <<base, image>> PROVE Parse' = Parse
  <2>1. module' = module /\ base' = base /\ image' = image
    BY <1>3
  <2>2. ASSUME NEW x PROVE Word(x)' = Word(x)
    BY <2>1 DEF Word
  <2>3. ASSUME NEW x PROVE strlen(x)' = strlen(x)
    BY <2>1 DEF strlen, Word
  <2>4. ASSUME NEW a, NEW n PROVE Dependencies(a, n)' = Dependencies(a, n)
    BY <2>1 DEF Dependencies, dependency_size, strlen, Word
  <2>5. ASSUME NEW a, NEW n PROVE SymbolTable(a, n)' = SymbolTable(a, n)
    BY <2>1 DEF SymbolTable, symbol_size, strlen, Word
  <2>6. Parse' = Parse
    BY <2>1, <2>3, <2>4, <2>5, Zenon DEF Parse, RelocationsEnd
  <2> QED BY <2>6
<1> QED BY <1>1, <1>2, <1>3

LEMMA Invariant == Spec => []IInv
<1>1. Init => IInv
  BY DEF Init, IInv
<1>2. IInv /\ [Next]_vars => IInv'
  <2> SUFFICES ASSUME IInv, [Next]_vars PROVE IInv'
    OBVIOUS
  <2>1. CASE build_image
    <3>1. UNCHANGED module /\ UNCHANGED base /\ image = <<>> /\ UNCHANGED parsed
      BY <2>1 DEF build_image
    <3>2. Parts' = Parts /\ Layout' = Layout
      BY <3>1, WhatIsRead
    <3>3. module \in Modules /\ base \in Bases /\ parsed = <<>>
      BY <3>1 DEF IInv
    <3>4. image' = FlattenSeq(Parts) /\ written' = Layout
      BY <2>1 DEF build_image
    <3> QED BY <3>1, <3>2, <3>3, <3>4, ImageIsWritten, Zenon DEF IInv, Modules
  <2>2. CASE parse
    <3>1. UNCHANGED <<module, base, image, written>> /\ image # <<>> /\ parsed' = Parse
      BY <2>2 DEF parse
    <3>2. Parts' = Parts /\ Layout' = Layout /\ Parse' = Parse
      BY <3>1, WhatIsRead
    <3> QED BY <3>1, <3>2 DEF IInv, Modules
  <2>3. CASE UNCHANGED vars
    <3>1. UNCHANGED <<module, base, image, written, parsed>>
      BY <2>3 DEF vars
    <3>2. Parts' = Parts /\ Layout' = Layout /\ Parse' = Parse
      BY <3>1, WhatIsRead
    <3> QED BY <3>1, <3>2 DEF IInv, Modules
  <2> QED BY <2>1, <2>2, <2>3 DEF Next
<1> QED BY <1>1, <1>2, PTL DEF Spec

\* Every variable keeps its type: whatever is put into the image, the places that
\* build_image writes and those that Parser's constructor computes are addresses, and the
\* text is written at a multiple of 16.
THEOREM TypeCorrect == Spec => []TypeOK
<1>1. IInv => TypeOK
  <2> SUFFICES ASSUME IInv PROVE TypeOK
    OBVIOUS
  <2>1. module \in Modules /\ base \in Bases
    BY DEF IInv
  <2>2. image \in Seq(Words)
    <3>1. <<>> \in Seq(Words)
      OBVIOUS
    <3> QED BY <2>1, <3>1, ImageIsWritten DEF IInv
  <2>3. written # <<>> => written \in [Places -> Nat] /\ written.text % 16 = 0
    BY <2>1, LayoutIsNat, Zenon DEF IInv
  <2>4. parsed # <<>> => parsed \in [Places -> Nat]
    BY <2>1, <2>2, ParseIsNat, Zenon DEF IInv
  <2> QED BY <2>1, <2>2, <2>3, <2>4, Zenon DEF TypeOK, Words
<1> QED BY <1>1, Invariant, PTL

\* Whatever the lengths of the tables and of the names in them, the parser finds every
\* table where mkimage put it, and the sections exactly when the image is at a multiple
\* of 16; but the name of the module must not be a multiple of 4 long, since Parser skips
\* it without its trailing zero.
THEOREM PartsAreFound == ASSUME RoomForZero PROVE Spec => []ParserFindsParts
<1>1. IInv => ParserFindsParts
  <2> SUFFICES ASSUME IInv, parsed # <<>>, NEW p \in Places
               PROVE  parsed[p] = base + written[p] <=> p \in Tables \/ base % 16 = 0
    BY DEF ParserFindsParts
  <2>1. /\ module \in Modules /\ base \in Bases /\ image = FlattenSeq(Parts)
        /\ parsed = Parse /\ written = Layout
    BY DEF IInv
  <2>2. /\ \A q \in Tables : Parse[q] = base + Layout[q]
        /\ Parse.text = align(base + Offset(9), 16)
        /\ Parse.init = Parse.text + module.sections.text
        /\ Parse.data_section = Parse.init + module.sections.init
    BY <2>1, ParseFinds, Zenon
  <2>3. CASE p \in Tables
    BY <2>1, <2>2, <2>3, Zenon
  <2>4. CASE p \in SectionPlaces
    <3> DEFINE t == align(Offset(9), 16)
               u == align(base + Offset(9), 16)
               x == module.sections.text
               y == module.sections.init
    <3>1. base \in Nat /\ Offset(9) \in Nat /\ x \in Nat /\ y \in Nat
      <4>1. 8 \in 1..8 /\ 8 + 1 = 9
        OBVIOUS
      <4>2. base \in Nat
        BY <2>1, LayoutAssumption, Zenon
      <4>3. Offset(8 + 1) \in Nat
        BY <2>1, <4>1, <4>2, PartHolds, Zenon
      <4>4. module.sections \in [text : Nat, init : Nat, data : Nat]
        BY <2>1, PartsFacts, Zenon
      <4>5. x \in Nat /\ y \in Nat
        BY <4>4
      <4> QED BY <4>1, <4>2, <4>3, <4>5
    <3>2. t \in Nat /\ u \in Nat
      <4>1. base + Offset(9) \in Nat
        BY <3>1
      <4> QED BY <3>1, <4>1, AlignFacts, Zenon
    <3>3. u = base + t <=> base % 16 = 0
      BY <3>1, AlignMoves, Zenon
    <3>4. /\ Parse.text = u /\ Parse.init = u + x /\ Parse.data_section = u + x + y
          /\ Layout.text = t /\ Layout.init = t + x /\ Layout.data_section = t + x + y
      BY <2>2 DEF Layout
    <3> HIDE DEF t, u, x, y
    <3>5. /\ u = base + t <=> u + x = base + (t + x)
          /\ u = base + t <=> u + x + y = base + (t + x + y)
      BY <3>1, <3>2
    <3>6. p \notin Tables
      BY <2>4 DEF Tables, SectionPlaces
    <3> QED BY <2>1, <2>4, <3>3, <3>4, <3>5, <3>6, Zenon DEF SectionPlaces
  <2> QED BY <2>3, <2>4 DEF Places
<1> QED BY <1>1, Invariant, PTL

\* Under the same condition, the walks over the libraries and over the symbols of other
\* modules read each name as it was written.
THEOREM NamesReadBack == ASSUME RoomForZero PROVE Spec => []NamesAreRead
<1>1. IInv => NamesAreRead
  <2> SUFFICES ASSUME IInv, parsed # <<>>
               PROVE  NamesAreRead
    BY DEF NamesAreRead
  <2>1. /\ module \in Modules /\ base \in Bases /\ image = FlattenSeq(Parts)
        /\ parsed = Parse
    BY DEF IInv
  <2>2. /\ \A k \in 1..Len(module.imported) :
             strlen(SymbolTable(Parse.imported, Len(module.imported))[k - 1] + 4)
               = module.imported[k]
        /\ \A k \in 1..Len(module.libraries) :
             strlen(Dependencies(Parse.libraries, Len(module.libraries))[k - 1])
               = module.libraries[k]
    BY <2>1, ParseFinds, Zenon
  <2>3. \A s \in Seq(Nat) : DOMAIN s = 1..Len(s)
    OBVIOUS
  <2>4. /\ DOMAIN module.imported = 1..Len(module.imported)
        /\ DOMAIN module.libraries = 1..Len(module.libraries)
    BY <2>1, <2>3, PartsFacts, Zenon
  <2> QED BY <2>1, <2>2, <2>4, Zenon DEF NamesAreRead
<1> QED BY <1>1, Invariant, PTL

\* The condition is necessary as well as sufficient: the table of libraries is found
\* where mkimage put it exactly when the length of the module's name is not a multiple
\* of 4.
THEOREM RoomIsNeeded ==
  Spec => [](parsed # <<>> => (parsed.libraries = base + written.libraries
                                 <=> module.name % 4 # 0))
<1>1. ASSUME IInv, parsed # <<>>
      PROVE  parsed.libraries = base + written.libraries <=> module.name % 4 # 0
  <2> DEFINE n == module.name
             q == n \div 4
  <2>1. /\ module \in Modules /\ base \in Bases /\ image = FlattenSeq(Parts)
        /\ parsed = Parse /\ written = Layout
    BY <1>1 DEF IInv
  <2>2. base \in Nat /\ base % 4 = 0 /\ n \in Nat
    BY <2>1, LayoutAssumption, PartsFacts
  <2>3. Parts[2] = String(n) /\ Len(Parts[1]) = 12
    BY <2>1, PartsFacts, Zenon
  <2>4. /\ Offset(1) = 0 /\ Offset(1 + 1) = Offset(1) + 4 * Len(Parts[1])
        /\ Offset(2 + 1) = Offset(2) + 4 * Len(Parts[2]) /\ Offset(2) \in Nat
        /\ Holds(base + Offset(2), Parts[2]) /\ Len(image) \in Nat
        /\ Len(Parts[2]) <= Len(image)
    <3>1. 1 \in 1..8 /\ 2 \in 1..8
      OBVIOUS
    <3> QED BY <2>1, <2>2, <3>1, PartHolds, Zenon
  <2>5. Offset(2) = 48
    <3>1. 1 + 1 = 2 /\ 0 + 4 * 12 = 48
      OBVIOUS
    <3> QED BY <2>3, <2>4, <3>1, Zenon
  <2>6. base + 48 \in Nat /\ (base + 48) % 4 = 0
    BY <2>2
  <2>7. strlen(base + 48) = n
    BY <2>2, <2>3, <2>4, <2>5, <2>6, StrlenFinds, Zenon
  <2>8. Parse.libraries = align(base + 48 + n, 4)
    <3>1. Parse.libraries = align(base + HeaderSize + strlen(base + HeaderSize), alignment)
      BY DEF Parse
    <3> QED BY <2>7, <3>1, Zenon DEF HeaderSize, alignment
  <2>9. Layout.libraries = 48 + 4 * (q + 1)
    <3>1. Len(Parts[2]) = q + 1
      BY <2>2, <2>3, StringFacts, Zenon
    <3>2. Layout.libraries = Offset(3)
      BY DEF Layout
    <3>3. 2 + 1 = 3
      OBVIOUS
    <3> QED BY <2>4, <2>5, <3>1, <3>2, <3>3, Zenon
  <2>10. n % 4 # 0 => align(base + 48 + n, 4) = base + 48 + 4 * (q + 1)
    BY <2>2, <2>6, AlignPasses, Zenon
  <2>11. n % 4 = 0 => align(base + 48 + n, 4) = base + 48 + 4 * q
    <3>1. ASSUME NEW b \in Nat, b % 4 = 0, NEW m \in Nat, m % 4 = 0
          PROVE  align(b + m, 4) = b + 4 * (m \div 4)
      BY <3>1 DEF align
    <3> QED BY <2>2, <2>6, <3>1, Zenon
  <2>12. q \in Nat
    BY <2>2
  <2> HIDE DEF n, q
  <2>13. /\ base + 48 + 4 * (q + 1) = base + (48 + 4 * (q + 1))
         /\ base + 48 + 4 * q # base + (48 + 4 * (q + 1))
    BY <2>2, <2>12
  <2> QED BY <2>1, <2>8, <2>9, <2>10, <2>11, <2>13, Zenon DEF n
<1> QED BY <1>1, Invariant, PTL
=============================================================================
