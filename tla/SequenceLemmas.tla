---------------------------- MODULE SequenceLemmas ----------------------------
(***************************************************************************)
(* What Min and Max of sets of naturals return, and Append, RemoveAt,      *)
(* Front, Last, \o and FlattenSeq of sequences; sequences with their       *)
(* elements renamed; induction over the naturals up and down.              *)
(***************************************************************************)
EXTENDS Naturals, FiniteSetsExt, SequencesExt, WellFoundedInduction, TLAPS

\* A nonempty set of naturals has a least element, and Min is it.
LEMMA MinIsLeast ==
  ASSUME NEW S \in SUBSET Nat, S # {}
  PROVE  Min(S) \in S /\ \A x \in S : Min(S) <= x
<1> DEFINE less == {ss \in Nat \X Nat : ss[1] < ss[2]}
<1>1. IsWellFoundedOn(less, Nat)
  BY NatLessThanWellFounded DEF OpToRel
<1>2. \E x \in S : \A y \in S : ~(<<y, x>> \in less)
  <2> HIDE DEF less
  <2> QED BY <1>1, WFMin
<1>3. \E x \in S : \A y \in S : x <= y
  <2>1. PICK x \in S : \A y \in S : ~(<<y, x>> \in less)
    BY <1>2
  <2>2. \A y \in S : ~(y < x)
    BY <2>1
  <2> QED BY <2>2
<1> QED BY <1>3 DEF Min

\* So has a bounded one a greatest element, and Max is it.
LEMMA MaxIsGreatest ==
  ASSUME NEW n \in Nat, NEW S \in SUBSET (0..n), S # {}
  PROVE  Max(S) \in S /\ \A x \in S : x <= Max(S)
<1> DEFINE rest == {n - x : x \in S}
<1>1. rest \in SUBSET Nat /\ rest # {}
  <2>1. \A x \in 0..n : n - x \in Nat
    OBVIOUS
  <2>2. \A x \in S : n - x \in Nat
    BY <2>1
  <2> QED BY <2>2
<1>2. Min(rest) \in rest /\ \A x \in rest : Min(rest) <= x
  BY <1>1, MinIsLeast
<1>3. PICK x \in S : n - x = Min(rest)
  BY <1>2
<1>4. \A y \in S : n - x <= n - y
  BY <1>2, <1>3
<1>5. \A y \in S : x >= y
  BY <1>4
<1>6. \E z \in S : \A y \in S : z >= y
  BY <1>5
<1>7. Max(S) \in S /\ \A y \in S : Max(S) >= y
  BY <1>6 DEF Max
<1>8. \A y \in S : y \in Nat
  OBVIOUS
<1> QED BY <1>7, <1>8

\* What Append, Front and Last do to a stack.
LEMMA PushIsAppend ==
  ASSUME NEW T, NEW seq \in Seq(T), NEW e \in T
  PROVE  /\ Append(seq, e) \in Seq(T)
         /\ Len(seq) \in Nat
         /\ Len(Append(seq, e)) = Len(seq) + 1
         /\ \A k \in 1..Len(seq) : Append(seq, e)[k] = seq[k]
         /\ Append(seq, e)[Len(seq) + 1] = e
OBVIOUS

\* RemoveAt keeps what is before k where it is, and moves what is after it.
LEMMA RemoveAtFacts ==
  ASSUME NEW T, NEW seq \in Seq(T), NEW k \in DOMAIN seq
  PROVE  /\ RemoveAt(seq, k) \in Seq(T) /\ Len(RemoveAt(seq, k)) = Len(seq) - 1
         /\ \A i \in 1..k - 1 : RemoveAt(seq, k)[i] = seq[i]
         /\ \A i \in k..Len(seq) - 1 : RemoveAt(seq, k)[i] = seq[i + 1]
<1> DEFINE before == SubSeq(seq, 1, k - 1)
           after == SubSeq(seq, k + 1, Len(seq))
           rest == before \o after
<1>1. Len(seq) \in Nat /\ k \in 1..Len(seq) /\ DOMAIN seq = 1..Len(seq)
  OBVIOUS
<1>2. /\ before \in Seq(T) /\ Len(before) = k - 1
      /\ \A i \in 1..k - 1 : before[i] = seq[i]
  BY <1>1
<1>3. /\ after \in Seq(T) /\ Len(after) = Len(seq) - k
      /\ \A i \in 1..Len(seq) - k : after[i] = seq[k + i]
  BY <1>1
<1> HIDE DEF before, after
<1>4. /\ rest \in Seq(T) /\ Len(rest) = Len(seq) - 1
      /\ \A i \in 1..k - 1 : rest[i] = seq[i]
      /\ \A i \in k..Len(seq) - 1 : rest[i] = seq[i + 1]
  <2>1. /\ rest \in Seq(T) /\ Len(rest) = Len(before) + Len(after)
        /\ \A i \in 1..Len(before) + Len(after) :
             rest[i] = IF i <= Len(before) THEN before[i] ELSE after[i - Len(before)]
    BY <1>2, <1>3
  <2>2. Len(before) + Len(after) = Len(seq) - 1
    BY <1>1, <1>2, <1>3
  <2>3. ASSUME NEW i \in 1..k - 1 PROVE rest[i] = seq[i]
    <3>1. i \in 1..Len(before) + Len(after) /\ i <= Len(before)
      BY <1>1, <1>2, <2>2
    <3> QED BY <1>2, <2>1, <3>1
  <2>4. ASSUME NEW i \in k..Len(seq) - 1 PROVE rest[i] = seq[i + 1]
    <3>1. i \in 1..Len(before) + Len(after) /\ ~(i <= Len(before))
      BY <1>1, <1>2, <2>2
    <3>2. i - Len(before) = i - (k - 1) /\ i - (k - 1) \in 1..Len(seq) - k
      BY <1>1, <1>2
    <3>3. rest[i] = after[i - (k - 1)]
      BY <2>1, <3>1, <3>2
    <3>4. after[i - (k - 1)] = seq[k + (i - (k - 1))] /\ k + (i - (k - 1)) = i + 1
      BY <1>1, <1>3, <3>2
    <3> QED BY <3>3, <3>4
  <2> QED BY <2>1, <2>2, <2>3, <2>4
<1>5. RemoveAt(seq, k) = rest
  BY DEF RemoveAt, before, after
<1> QED BY <1>4, <1>5

\* RemoveAt loses nothing but the element at k, and adds nothing.
LEMMA ShorterSeq ==
  ASSUME NEW T, NEW seq \in Seq(T), NEW k \in DOMAIN seq
  PROVE  /\ RemoveAt(seq, k) \in Seq(T)
         /\ \A j \in DOMAIN seq \ {k} :
              \E i \in DOMAIN RemoveAt(seq, k) : RemoveAt(seq, k)[i] = seq[j]
         /\ \A i \in DOMAIN RemoveAt(seq, k) :
              \E j \in DOMAIN seq : RemoveAt(seq, k)[i] = seq[j]
<1> DEFINE rest == RemoveAt(seq, k)
<1>1. Len(seq) \in Nat /\ k \in 1..Len(seq) /\ DOMAIN seq = 1..Len(seq)
  OBVIOUS
<1>2. /\ rest \in Seq(T) /\ Len(rest) = Len(seq) - 1
      /\ \A i \in 1..k - 1 : rest[i] = seq[i]
      /\ \A i \in k..Len(seq) - 1 : rest[i] = seq[i + 1]
  BY RemoveAtFacts
<1> HIDE DEF rest
<1>3. DOMAIN rest = 1..Len(seq) - 1
  BY <1>1, <1>2
<1>4. ASSUME NEW j \in DOMAIN seq \ {k}
      PROVE  \E i \in DOMAIN rest : rest[i] = seq[j]
  <2>1. CASE j < k
    BY <1>1, <1>2, <1>3, <2>1
  <2>2. CASE j > k
    <3>1. j - 1 \in k..Len(seq) - 1 /\ (j - 1) + 1 = j
      BY <1>1, <2>2
    <3> QED BY <1>1, <1>2, <1>3, <3>1
  <2> QED BY <1>1, <2>1, <2>2
<1>5. ASSUME NEW i \in DOMAIN rest
      PROVE  \E j \in DOMAIN seq : rest[i] = seq[j]
  BY <1>1, <1>2, <1>3
<1> QED BY <1>2, <1>4, <1>5 DEF rest

\* Last and Front of a stack that is not empty.
LEMMA PopIsFront ==
  ASSUME NEW T, NEW seq \in Seq(T), seq # <<>>
  PROVE  /\ Len(seq) \in Nat \ {0}
         /\ Last(seq) = seq[Len(seq)]
         /\ Last(seq) \in T
         /\ Front(seq) \in Seq(T)
         /\ Len(Front(seq)) = Len(seq) - 1
         /\ \A k \in 1..Len(seq) - 1 : Front(seq)[k] = seq[k]
BY DEF Front, Last

\* A concatenation is the one part and then the other.
LEMMA ConcatFacts ==
  ASSUME NEW T, NEW s \in Seq(T), NEW t \in Seq(T)
  PROVE  /\ s \o t \in Seq(T) /\ Len(s \o t) = Len(s) + Len(t)
         /\ Len(s) \in Nat /\ Len(t) \in Nat
         /\ \A k \in 1..Len(s) : (s \o t)[k] = s[k]
         /\ \A k \in 1..Len(t) : (s \o t)[k + Len(s)] = t[k]
<1>1. /\ s \o t \in Seq(T) /\ Len(s \o t) = Len(s) + Len(t)
      /\ Len(s) \in Nat /\ Len(t) \in Nat
  OBVIOUS
<1>2. \A k \in 1..Len(s) : (s \o t)[k] = s[k]
  OBVIOUS
<1>3. \A k \in 1..Len(t) : (s \o t)[k + Len(s)] = t[k]
  OBVIOUS
<1> QED BY <1>1, <1>2, <1>3

\* What is in a concatenation is in one of its parts.
LEMMA RangeOfConcatenation ==
  ASSUME NEW T, NEW s \in Seq(T), NEW t \in Seq(T)
  PROVE  s \o t \in Seq(T) /\ Range(s \o t) = Range(s) \cup Range(t)
<1>1. /\ Len(s) \in Nat /\ Len(t) \in Nat /\ s \o t \in Seq(T)
      /\ DOMAIN s = 1..Len(s) /\ DOMAIN t = 1..Len(t)
      /\ DOMAIN (s \o t) = 1..Len(s) + Len(t)
  OBVIOUS
<1>2. /\ \A k \in 1..Len(s) : (s \o t)[k] = s[k] /\ k \in 1..Len(s) + Len(t)
      /\ \A k \in 1..Len(t) : (s \o t)[Len(s) + k] = t[k] /\ Len(s) + k \in 1..Len(s) + Len(t)
  OBVIOUS
<1>3. \A k \in 1..Len(s) + Len(t) :
        k \in 1..Len(s) \/ (k - Len(s) \in 1..Len(t) /\ k = Len(s) + (k - Len(s)))
  BY <1>1
<1>4. \A x \in Range(s) \cup Range(t) : x \in Range(s \o t)
  BY <1>1, <1>2 DEF Range
<1>5. \A x \in Range(s \o t) : x \in Range(s) \cup Range(t)
  BY <1>1, <1>2, <1>3 DEF Range
<1> QED BY <1>1, <1>4, <1>5

\* Induction for sets of naturals: the least number that is not in S would follow one
\* that is.
LEMMA UpFrom ==
  ASSUME NEW a \in Nat, NEW n \in Nat, NEW S, a \in S,
         \A k \in a..n - 1 : k \in S => k + 1 \in S
  PROVE  \A k \in a..n : k \in S
<1> DEFINE missing == {k \in a..n : k \notin S}
<1>1. SUFFICES ASSUME missing # {} PROVE FALSE
  OBVIOUS
<1>2. missing \in SUBSET Nat
  OBVIOUS
<1>3. PICK m \in missing : \A x \in missing : m <= x
  <2> HIDE DEF missing
  <2> QED BY <1>1, <1>2, MinIsLeast
<1>4. m - 1 \in a..n - 1 /\ (m - 1) + 1 = m
  BY <1>3
<1>5. m - 1 \in S
  BY <1>3, <1>4
<1> QED BY <1>3, <1>4, <1>5

\* FlattenSeq is defined by recursion: the function exists.
LEMMA FlattenExists ==
  ASSUME NEW T, NEW seqs \in Seq(Seq(T)), seqs # <<>>
  PROVE  \E f : /\ f = [i \in 1..Len(seqs) |-> IF i = 1 THEN seqs[i] ELSE f[i - 1] \o seqs[i]]
                /\ FlattenSeq(seqs) = f[Len(seqs)]
<1> DEFINE n == Len(seqs)
           Following(g, i) == IF i = 1 THEN seqs[i] ELSE g[i - 1] \o seqs[i]
           Flattens(g, k) == g = [i \in 1..k |-> Following(g, i)]
           S == {k \in 0..n : \E g : Flattens(g, k)}
<1>1. n \in Nat /\ n # 0 /\ DOMAIN seqs = 1..n
  OBVIOUS
<1>2. \A k \in 0..n : k \in S
  <2>1. 0 \in S
    <3>1. Flattens([i \in 1..0 |-> 0], 0)
      OBVIOUS
    <3>2. 0 \in 0..n
      BY <1>1
    <3> QED BY <3>1, <3>2
  <2>2. ASSUME NEW k \in 0..n - 1, k \in S PROVE k + 1 \in S
    <3>1. k + 1 \in 0..n /\ k \in Nat
      BY <1>1
    <3>2. PICK g : Flattens(g, k)
      BY <2>2
    <3> DEFINE h == [i \in 1..k + 1 |-> Following(g, i)]
    <3>3. ASSUME NEW i \in 1..k + 1 PROVE Following(h, i) = Following(g, i)
      <4>1. CASE i = 1
        BY <4>1
      <4>2. CASE i # 1
        <5>1. i - 1 \in 1..k /\ i - 1 \in 1..k + 1
          BY <3>1, <4>2
        <5>2. g[i - 1] = Following(g, i - 1)
          <6> HIDE DEF Following
          <6> QED BY <3>2, <5>1
        <5>3. h[i - 1] = Following(g, i - 1)
          <6> HIDE DEF Following
          <6> QED BY <5>1
        <5>4. h[i - 1] = g[i - 1]
          <6> HIDE DEF Following, h
          <6> QED BY <5>2, <5>3
        <5> HIDE DEF h
        <5> QED BY <4>2, <5>4
      <4> QED BY <4>1, <4>2
    <3>4. Flattens(h, k + 1)
      <4> HIDE DEF Following
      <4> QED BY <3>3
    <3> HIDE DEF Flattens, h
    <3> QED BY <3>1, <3>4
  <2> HIDE DEF S
  <2> QED BY <1>1, <2>1, <2>2, UpFrom
<1> DEFINE f == CHOOSE g : Flattens(g, n)
<1>3. Flattens(f, n)
  <2>1. n \in S
    <3> HIDE DEF S
    <3> QED BY <1>1, <1>2
  <2>2. \E g : Flattens(g, n)
    <3> HIDE DEF Flattens
    <3> QED BY <2>1
  <2> HIDE DEF Flattens
  <2> QED BY <2>2
<1>4. FlattenSeq(seqs) = f[n]
  BY <1>1 DEF FlattenSeq
<1> HIDE DEF f
<1> QED BY <1>3, <1>4

\* FlattenSeq, one element more at a time.
LEMMA FlattenAppend ==
  ASSUME NEW T, NEW seqs \in Seq(Seq(T)), NEW e \in Seq(T)
  PROVE  FlattenSeq(Append(seqs, e)) = FlattenSeq(seqs) \o e
<1> DEFINE n == Len(seqs)
           more == Append(seqs, e)
<1>1. /\ n \in Nat /\ more \in Seq(Seq(T)) /\ more # <<>> /\ Len(more) = n + 1
      /\ more[n + 1] = e /\ \A i \in 1..n : more[i] = seqs[i]
      /\ \A i \in 1..n : seqs[i] \in Seq(T)
  OBVIOUS
<1> HIDE DEF more
<1>2. PICK g : /\ g = [i \in 1..n + 1 |-> IF i = 1 THEN more[i] ELSE g[i - 1] \o more[i]]
               /\ FlattenSeq(more) = g[n + 1]
  BY <1>1, FlattenExists
<1>3. \A i \in 1..n + 1 : g[i] = IF i = 1 THEN more[i] ELSE g[i - 1] \o more[i]
  BY <1>2
<1>4. CASE n = 0
  <2>1. FlattenSeq(seqs) = seqs /\ seqs = <<>>
    BY <1>4 DEF FlattenSeq
  <2>2. g[1] = e
    BY <1>1, <1>3, <1>4
  <2>3. <<>> \o e = e
    OBVIOUS
  <2> QED BY <1>2, <1>4, <2>1, <2>2, <2>3 DEF more
<1>5. CASE n # 0
  <2>1. seqs # <<>>
    BY <1>5
  <2>2. PICK f : /\ f = [i \in 1..n |-> IF i = 1 THEN seqs[i] ELSE f[i - 1] \o seqs[i]]
                 /\ FlattenSeq(seqs) = f[n]
    BY <2>1, FlattenExists
  <2>3. \A i \in 1..n : f[i] = IF i = 1 THEN seqs[i] ELSE f[i - 1] \o seqs[i]
    BY <2>2
  <2> DEFINE S == {i \in 1..n : f[i] = g[i]}
  <2>4. 1 \in S
    BY <1>1, <1>3, <1>5, <2>3
  <2>5. ASSUME NEW k \in 1..n - 1, k \in S PROVE k + 1 \in S
    <3>1. k + 1 \in 1..n /\ k + 1 \in 1..n + 1 /\ k + 1 # 1 /\ (k + 1) - 1 = k
      BY <1>1
    <3>2. f[k + 1] = f[k] \o seqs[k + 1]
      BY <2>3, <3>1
    <3>3. g[k + 1] = g[k] \o more[k + 1]
      BY <1>3, <3>1
    <3> QED BY <1>1, <2>5, <3>1, <3>2, <3>3
  <2>6. \A k \in 1..n : k \in S
    <3> HIDE DEF S
    <3> QED BY <1>1, <1>5, <2>4, <2>5, UpFrom
  <2>7. f[n] = g[n]
    <3>1. n \in S
      <4> HIDE DEF S
      <4> QED BY <1>1, <1>5, <2>6
    <3> QED BY <3>1
  <2>8. g[n + 1] = g[n] \o e
    <3>1. n + 1 \in 1..n + 1 /\ n + 1 # 1 /\ (n + 1) - 1 = n
      BY <1>1, <1>5
    <3> QED BY <1>1, <1>3, <3>1
  <2> QED BY <1>2, <2>2, <2>7, <2>8 DEF more
<1> QED BY <1>4, <1>5

\* Where the k-th part of a concatenation starts, counted from 0.
Before(seqs, k) == Len(FlattenSeq(SubSeq(seqs, 1, k - 1)))

\* The parts of a concatenation follow one another.
LEMMA FlattenPlaces ==
  ASSUME NEW T, NEW seqs \in Seq(Seq(T))
  PROVE  /\ FlattenSeq(seqs) \in Seq(T)
         /\ Before(seqs, 1) = 0 /\ Before(seqs, Len(seqs) + 1) = Len(FlattenSeq(seqs))
         /\ \A k \in 1..Len(seqs) :
              /\ Before(seqs, k) \in Nat
              /\ Before(seqs, k + 1) = Before(seqs, k) + Len(seqs[k])
              /\ Before(seqs, k + 1) <= Len(FlattenSeq(seqs))
              /\ \A j \in 1..Len(seqs[k]) :
                   FlattenSeq(seqs)[Before(seqs, k) + j] = seqs[k][j]
<1> DEFINE n == Len(seqs)
           G(m) == FlattenSeq(SubSeq(seqs, 1, m))
<1>1. n \in Nat /\ \A k \in 1..n : seqs[k] \in Seq(T)
  OBVIOUS
<1>2. G(0) = <<>>
  <2>1. SubSeq(seqs, 1, 0) = <<>>
    OBVIOUS
  <2> QED BY <2>1 DEF FlattenSeq
<1>3. G(n) = FlattenSeq(seqs)
  <2>1. SubSeq(seqs, 1, n) = seqs
    OBVIOUS
  <2> QED BY <2>1
<1>4. ASSUME NEW m \in 0..n - 1 PROVE G(m + 1) = G(m) \o seqs[m + 1]
  <2>1. m + 1 \in 1..n
    BY <1>1
  <2>2. SubSeq(seqs, 1, m) \in Seq(Seq(T))
    OBVIOUS
  <2>3. SubSeq(seqs, 1, m + 1) = Append(SubSeq(seqs, 1, m), seqs[m + 1])
    OBVIOUS
  <2> QED BY <1>1, <2>1, <2>2, <2>3, FlattenAppend
<1> DEFINE S == {m \in 0..n : \A k \in 0..m :
                               /\ G(k) \in Seq(T) /\ Len(G(k)) <= Len(G(m))
                               /\ \A j \in 1..Len(G(k)) : G(m)[j] = G(k)[j]}
<1> HIDE DEF G
<1>5. \A m \in 0..n : m \in S
  <2>1. 0 \in S
    <3>1. 0..0 = {0} /\ 0 \in 0..n
      BY <1>1
    <3>2. <<>> \in Seq(T) /\ Len(<<>>) <= Len(<<>>)
      OBVIOUS
    <3> QED BY <1>2, <3>1, <3>2
  <2>2. ASSUME NEW m \in 0..n - 1, m \in S PROVE m + 1 \in S
    <3>1. /\ m + 1 \in 1..n /\ m + 1 \in 0..n
          /\ m \in 0..m /\ G(m) \in Seq(T) /\ seqs[m + 1] \in Seq(T) /\ G(m + 1) = G(m) \o seqs[m + 1]
      BY <1>1, <1>4, <2>2
    <3>2. /\ G(m + 1) \in Seq(T) /\ Len(G(m + 1)) = Len(G(m)) + Len(seqs[m + 1])
          /\ \A j \in 1..Len(G(m)) : G(m + 1)[j] = G(m)[j]
      <4>1. ASSUME NEW s \in Seq(T), NEW t \in Seq(T)
            PROVE  /\ s \o t \in Seq(T) /\ Len(s \o t) = Len(s) + Len(t)
                   /\ \A j \in 1..Len(s) : (s \o t)[j] = s[j]
        OBVIOUS
      <4>2. /\ G(m) \o seqs[m + 1] \in Seq(T)
            /\ Len(G(m) \o seqs[m + 1]) = Len(G(m)) + Len(seqs[m + 1])
            /\ \A j \in 1..Len(G(m)) : (G(m) \o seqs[m + 1])[j] = G(m)[j]
        BY <3>1, <4>1
      <4> QED BY <3>1, <4>2
    <3>3. ASSUME NEW k \in 0..m + 1
          PROVE  /\ G(k) \in Seq(T) /\ Len(G(k)) <= Len(G(m + 1))
                 /\ \A j \in 1..Len(G(k)) : G(m + 1)[j] = G(k)[j]
      <4>1. CASE k = m + 1
        BY <3>2, <4>1
      <4>2. CASE k # m + 1
        <5>1. k \in 0..m
          BY <2>2, <4>2
        <5>2. /\ G(k) \in Seq(T) /\ Len(G(k)) <= Len(G(m))
              /\ \A j \in 1..Len(G(k)) : G(m)[j] = G(k)[j]
          BY <2>2, <5>1
        <5>3. /\ Len(G(m)) \in Nat /\ Len(seqs[m + 1]) \in Nat /\ Len(G(k)) \in Nat
          BY <3>1, <5>2
        <5> QED BY <3>2, <5>2, <5>3
      <4> QED BY <4>1, <4>2
    <3> QED BY <3>1, <3>2, <3>3
  <2> HIDE DEF S
  <2> QED BY <1>1, <2>1, <2>2, UpFrom
<1>6. /\ \A k \in 0..n : G(k) \in Seq(T) /\ Len(G(k)) <= Len(G(n))
      /\ \A k \in 0..n : \A j \in 1..Len(G(k)) : G(n)[j] = G(k)[j]
  <2>1. n \in 0..n /\ n \in S
    <3> HIDE DEF S
    <3> QED BY <1>1, <1>5
  <2> QED BY <2>1
<1>7. Before(seqs, 1) = 0 /\ Before(seqs, n + 1) = Len(G(n))
  <2>1. 1 - 1 = 0 /\ (n + 1) - 1 = n /\ Len(<<>>) = 0
    BY <1>1
  <2> QED BY <1>2, <2>1 DEF Before, G
<1>8. ASSUME NEW k \in 1..n
      PROVE  /\ Before(seqs, k) \in Nat
             /\ Before(seqs, k + 1) = Before(seqs, k) + Len(seqs[k])
             /\ Before(seqs, k + 1) <= Len(G(n))
             /\ \A j \in 1..Len(seqs[k]) : G(n)[Before(seqs, k) + j] = seqs[k][j]
  <2>1. /\ k - 1 \in 0..n - 1 /\ k - 1 \in 0..n /\ k \in 0..n
        /\ (k - 1) + 1 = k /\ (k + 1) - 1 = k
    BY <1>1
  <2>2. Before(seqs, k) = Len(G(k - 1)) /\ Before(seqs, k + 1) = Len(G(k))
    BY <2>1 DEF Before, G
  <2>3. G(k) = G(k - 1) \o seqs[k]
    BY <1>4, <2>1
  <2>4. /\ G(k - 1) \in Seq(T) /\ seqs[k] \in Seq(T) /\ Len(G(k)) <= Len(G(n))
        /\ \A j \in 1..Len(G(k)) : G(n)[j] = G(k)[j]
    BY <1>1, <1>6, <2>1
  <2>5. /\ Len(G(k)) = Len(G(k - 1)) + Len(seqs[k]) /\ Len(G(k - 1)) \in Nat
        /\ Len(seqs[k]) \in Nat
        /\ \A j \in 1..Len(seqs[k]) : G(k)[Len(G(k - 1)) + j] = seqs[k][j]
    BY <2>3, <2>4
  <2>6. ASSUME NEW j \in 1..Len(seqs[k]) PROVE Len(G(k - 1)) + j \in 1..Len(G(k))
    BY <2>5
  <2> QED BY <2>2, <2>4, <2>5, <2>6
<1> QED BY <1>3, <1>6, <1>7, <1>8

\* The elements of a concatenation are those of its parts.
LEMMA FlattenIsUnion ==
  ASSUME NEW T, NEW seqs \in Seq(Seq(T))
  PROVE  /\ FlattenSeq(seqs) \in Seq(T)
         /\ Range(FlattenSeq(seqs)) = UNION {Range(seqs[k]) : k \in DOMAIN seqs}
<1> DEFINE n == Len(seqs)
           Upto(k) == UNION {Range(seqs[i]) : i \in 1..k}
<1>1. n \in Nat /\ DOMAIN seqs = 1..n /\ \A i \in 1..n : seqs[i] \in Seq(T)
  OBVIOUS
<1>2. CASE n = 0
  <2>1. FlattenSeq(seqs) = seqs /\ seqs = <<>>
    BY <1>2 DEF FlattenSeq
  <2> QED BY <2>1 DEF Range
<1>3. CASE n # 0
  <2>1. seqs # <<>>
    BY <1>3
  <2>2. PICK f : /\ f = [i \in 1..n |-> IF i = 1 THEN seqs[i] ELSE f[i - 1] \o seqs[i]]
                 /\ FlattenSeq(seqs) = f[n]
    BY <2>1, FlattenExists
  <2>3. FlattenSeq(seqs) = f[n]
    BY <2>2
  <2>4. \A i \in 1..n : f[i] = IF i = 1 THEN seqs[i] ELSE f[i - 1] \o seqs[i]
    BY <2>2
  <2> DEFINE R == {i \in 1..n : f[i] \in Seq(T) /\ Range(f[i]) = Upto(i)}
  <2>5. \A i \in 1..n : i \in R
    <3>1. 1 \in R
      <4>1. f[1] = seqs[1] /\ 1..1 = {1} /\ 1 \in 1..n
        BY <1>1, <1>3, <2>4
      <4>2. Upto(1) = Range(seqs[1])
        BY <4>1
      <4> HIDE DEF Upto
      <4> QED BY <1>1, <4>1, <4>2
    <3>2. ASSUME NEW k \in 1..n - 1, k \in R PROVE k + 1 \in R
      <4>1. k + 1 \in 1..n /\ k + 1 # 1 /\ (k + 1) - 1 = k
        BY <1>1
      <4>2. f[k] \in Seq(T) /\ Range(f[k]) = Upto(k)
        BY <3>2
      <4>3. f[k + 1] = f[k] \o seqs[k + 1] /\ seqs[k + 1] \in Seq(T)
        BY <1>1, <2>4, <4>1
      <4>4. f[k + 1] \in Seq(T) /\ Range(f[k + 1]) = Range(f[k]) \cup Range(seqs[k + 1])
        BY <4>2, <4>3, RangeOfConcatenation
      <4>5. 1..k + 1 = (1..k) \cup {k + 1}
        BY <4>1
      <4>6. Upto(k + 1) = Upto(k) \cup Range(seqs[k + 1])
        BY <4>5
      <4> HIDE DEF Upto
      <4> QED BY <4>1, <4>2, <4>4, <4>6
    <3> HIDE DEF R
    <3> QED BY <1>1, <1>3, <3>1, <3>2, UpFrom
  <2>6. n \in R
    <3> HIDE DEF R
    <3> QED BY <1>1, <1>3, <2>5
  <2>7. f[n] \in Seq(T) /\ Range(f[n]) = Upto(n)
    BY <2>6
  <2> QED BY <1>1, <2>3, <2>7
<1> QED BY <1>2, <1>3

\* Induction from above.
LEMMA FromAbove ==
  ASSUME NEW N \in Nat, NEW S,
         \A n \in 1..N : (\A m \in n + 1..N : m \in S) => n \in S
  PROVE  \A n \in 1..N : n \in S
<1> DEFINE missing == {k \in 0..N - 1 : N - k \notin S}
<1>1. SUFFICES ASSUME missing # {} PROVE FALSE
  <2>1. SUFFICES ASSUME NEW n \in 1..N, n \notin S PROVE missing # {}
    BY <1>1
  <2>2. N - n \in 0..N - 1 /\ N - (N - n) = n
    OBVIOUS
  <2> QED BY <2>1, <2>2
<1>2. missing \in SUBSET Nat
  OBVIOUS
<1>3. PICK k \in missing : \A x \in missing : k <= x
  <2> HIDE DEF missing
  <2> QED BY <1>1, <1>2, MinIsLeast
<1>4. N - k \in 1..N
  BY <1>3
<1>5. ASSUME NEW m \in N - k + 1..N PROVE m \in S
  <2>1. N - m \in 0..N - 1 /\ N - m < k /\ N - (N - m) = m
    BY <1>3
  <2> QED BY <1>3, <2>1
<1> QED BY <1>3, <1>4, <1>5

\* A sequence over a set is one over every set around it, and its elements are in it.
LEMMA WiderSeq ==
  ASSUME NEW S, NEW T, S \subseteq T, NEW seq \in Seq(S)
  PROVE  seq \in Seq(T)
OBVIOUS

LEMMA ElementOfSeq ==
  ASSUME NEW S, NEW seq \in Seq(S)
  PROVE  \A k \in DOMAIN seq : seq[k] \in S
OBVIOUS

\* A function on 1..N is a sequence.
LEMMA FunctionIsSeq ==
  ASSUME NEW N \in Nat, NEW T, NEW f \in [1..N -> T]
  PROVE  f \in Seq(T) /\ Len(f) = N
OBVIOUS

\* Append adds its element, and repeats none if that one was not there.
LEMMA AppendFacts ==
  ASSUME NEW T, NEW seq \in Seq(T), NEW e \in T
  PROVE  /\ Append(seq, e) \in Seq(T) /\ Range(Append(seq, e)) = Range(seq) \cup {e}
         /\ IsInjective(seq) /\ e \notin Range(seq) => IsInjective(Append(seq, e))
<1> DEFINE more == Append(seq, e)
<1>1. /\ more \in Seq(T) /\ Len(seq) \in Nat /\ Len(more) = Len(seq) + 1
      /\ \A k \in 1..Len(seq) : more[k] = seq[k]
      /\ more[Len(seq) + 1] = e
  BY PushIsAppend
<1>2. DOMAIN seq = 1..Len(seq) /\ DOMAIN more = 1..Len(seq) + 1
  OBVIOUS
<1> HIDE DEF more
<1>3. Range(more) = Range(seq) \cup {e}
  <2>1. \A k \in DOMAIN more : k \in DOMAIN seq \/ k = Len(seq) + 1
    BY <1>1, <1>2
  <2>2. \A k \in DOMAIN seq : k \in DOMAIN more
    BY <1>1, <1>2
  <2>3. Len(seq) + 1 \in DOMAIN more
    BY <1>1, <1>2
  <2> QED BY <1>1, <1>2, <2>1, <2>2, <2>3 DEF Range
<1>4. ASSUME IsInjective(seq), e \notin Range(seq),
             NEW j \in DOMAIN more, NEW k \in DOMAIN more, more[j] = more[k]
      PROVE  j = k
  <2>1. \A i \in DOMAIN more : i \in DOMAIN seq \/ i = Len(seq) + 1
    BY <1>1, <1>2
  <2>2. \A i \in DOMAIN seq : seq[i] # e
    BY <1>4 DEF Range
  <2> QED BY <1>1, <1>2, <1>4, <2>1, <2>2 DEF IsInjective
<1>5. IsInjective(seq) /\ e \notin Range(seq) => IsInjective(more)
  BY <1>4 DEF IsInjective
<1> QED BY <1>1, <1>3, <1>5 DEF more

\* RemoveAt loses exactly the element at k of a sequence that repeats none.
LEMMA RemoveDistinct ==
  ASSUME NEW T, NEW seq \in Seq(T), NEW k \in DOMAIN seq, IsInjective(seq)
  PROVE  /\ RemoveAt(seq, k) \in Seq(T) /\ IsInjective(RemoveAt(seq, k))
         /\ Range(RemoveAt(seq, k)) = Range(seq) \ {seq[k]}
<1> DEFINE rest == RemoveAt(seq, k)
           from(i) == IF i < k THEN i ELSE i + 1
<1>1. Len(seq) \in Nat /\ k \in 1..Len(seq) /\ DOMAIN seq = 1..Len(seq)
  OBVIOUS
<1>2. /\ rest \in Seq(T) /\ Len(rest) = Len(seq) - 1
      /\ \A i \in 1..k - 1 : rest[i] = seq[i]
      /\ \A i \in k..Len(seq) - 1 : rest[i] = seq[i + 1]
  BY RemoveAtFacts
<1> HIDE DEF rest
<1>3. DOMAIN rest = 1..Len(seq) - 1
  BY <1>1, <1>2
<1>4. \A i \in DOMAIN rest : /\ from(i) \in DOMAIN seq /\ from(i) # k
                            /\ rest[i] = seq[from(i)]
  BY <1>1, <1>2, <1>3
<1>5. \A i, j \in DOMAIN rest : from(i) = from(j) => i = j
  BY <1>1, <1>3
<1> HIDE DEF from
<1>6. IsInjective(rest)
  BY <1>4, <1>5 DEF IsInjective
<1>7. \A i \in DOMAIN rest : rest[i] # seq[k]
  BY <1>4 DEF IsInjective
<1>8. /\ \A j \in DOMAIN seq \ {k} : \E i \in DOMAIN rest : rest[i] = seq[j]
      /\ \A i \in DOMAIN rest : \E j \in DOMAIN seq : rest[i] = seq[j]
  BY ShorterSeq DEF rest
<1>9. Range(rest) = Range(seq) \ {seq[k]}
  BY <1>7, <1>8 DEF Range
<1> QED BY <1>2, <1>6, <1>9 DEF rest

\* Sequences with the same elements are the same.
LEMMA SameSeq ==
  ASSUME NEW T, NEW s \in Seq(T), NEW t \in Seq(T), Len(s) = Len(t),
         \A k \in 1..Len(s) : s[k] = t[k]
  PROVE  s = t
OBVIOUS

\* A sequence with its elements renamed.
Renamed(seq, name) == [k \in DOMAIN seq |-> name[seq[k]]]

\* A renamed sequence has the same places.
LEMMA RenamedFacts ==
  ASSUME NEW T, NEW name, NEW s \in Seq(T)
  PROVE  /\ Len(Renamed(s, name)) = Len(s) /\ DOMAIN Renamed(s, name) = 1..Len(s)
         /\ \A k \in 1..Len(s) : Renamed(s, name)[k] = name[s[k]]
<1>1. Len(s) \in Nat /\ DOMAIN s = 1..Len(s)
  OBVIOUS
<1> DEFINE r == [k \in 1..Len(s) |-> name[s[k]]]
<1>2. r \in Seq({name[s[k]] : k \in 1..Len(s)}) /\ Len(r) = Len(s)
  <2>1. r \in [1..Len(s) -> {name[s[k]] : k \in 1..Len(s)}]
    OBVIOUS
  <2> HIDE DEF r
  <2> QED BY <1>1, <2>1, FunctionIsSeq
<1>3. Renamed(s, name) = r
  BY <1>1 DEF Renamed
<1> QED BY <1>2, <1>3

\* Its elements are names.
LEMMA RenamedType ==
  ASSUME NEW T, NEW U, NEW name \in [T -> U], NEW s \in Seq(T)
  PROVE  Renamed(s, name) \in Seq(U)
<1>1. Len(s) \in Nat /\ DOMAIN s = 1..Len(s) /\ \A k \in 1..Len(s) : s[k] \in T
  OBVIOUS
<1> DEFINE r == [k \in 1..Len(s) |-> name[s[k]]]
<1>2. r \in [1..Len(s) -> U]
  BY <1>1
<1>3. r \in Seq(U)
  <2> HIDE DEF r
  <2> QED BY <1>1, <1>2, FunctionIsSeq
<1>4. Renamed(s, name) = r
  BY <1>1 DEF Renamed
<1> QED BY <1>3, <1>4

\* Renaming and concatenation commute.
LEMMA RenameConcat ==
  ASSUME NEW T, NEW U, NEW name \in [T -> U], NEW s \in Seq(T), NEW t \in Seq(T)
  PROVE  Renamed(s \o t, name) = Renamed(s, name) \o Renamed(t, name)
<1> DEFINE a == Renamed(s, name)
           b == Renamed(t, name)
           c == Renamed(s \o t, name)
<1>1. /\ s \o t \in Seq(T) /\ Len(s \o t) = Len(s) + Len(t)
      /\ Len(s) \in Nat /\ Len(t) \in Nat
      /\ \A k \in 1..Len(s) : (s \o t)[k] = s[k]
      /\ \A k \in 1..Len(t) : (s \o t)[k + Len(s)] = t[k]
  BY ConcatFacts
<1>2. /\ Len(a) = Len(s) /\ \A k \in 1..Len(s) : a[k] = name[s[k]]
      /\ Len(b) = Len(t) /\ \A k \in 1..Len(t) : b[k] = name[t[k]]
  BY RenamedFacts
<1>3. /\ Len(c) = Len(s) + Len(t)
      /\ \A k \in 1..Len(s) + Len(t) : c[k] = name[(s \o t)[k]]
  <2>1. PICK st \in Seq(T) : st = s \o t
    BY <1>1
  <2>2. /\ Len(Renamed(st, name)) = Len(st)
        /\ \A k \in 1..Len(st) : Renamed(st, name)[k] = name[st[k]]
    BY RenamedFacts
  <2> QED BY <1>1, <2>1, <2>2
<1>4. a \in Seq(U) /\ b \in Seq(U) /\ c \in Seq(U)
  <2>1. s \o t \in Seq(T)
    BY <1>1
  <2> QED BY <2>1, RenamedType
<1> HIDE DEF a, b, c
<1>5. /\ a \o b \in Seq(U) /\ Len(a \o b) = Len(s) + Len(t)
      /\ \A k \in 1..Len(s) : (a \o b)[k] = a[k]
      /\ \A k \in 1..Len(t) : (a \o b)[k + Len(s)] = b[k]
  <2>2. /\ a \o b \in Seq(U) /\ Len(a \o b) = Len(a) + Len(b)
        /\ \A k \in 1..Len(a) : (a \o b)[k] = a[k]
        /\ \A k \in 1..Len(b) : (a \o b)[k + Len(a)] = b[k]
    BY ONLY <1>4, ConcatFacts
  <2> QED BY <1>2, <2>2
<1>6. ASSUME NEW k \in 1..Len(c) PROVE c[k] = (a \o b)[k]
  <2>1. CASE k <= Len(s)
    <3>1. k \in 1..Len(s) /\ k \in 1..Len(s) + Len(t)
      BY <1>1, <1>3, <2>1
    <3>2. (s \o t)[k] = s[k] /\ (a \o b)[k] = a[k]
      BY <1>1, <1>5, <3>1
    <3> QED BY <1>2, <1>3, <3>1, <3>2
  <2>2. CASE k > Len(s)
    <3>1. PICK j : j = k - Len(s)
      OBVIOUS
    <3>2. j \in 1..Len(t) /\ k = j + Len(s) /\ k \in 1..Len(s) + Len(t)
      BY <1>1, <1>3, <2>2, <3>1
    <3>3. (s \o t)[k] = t[j] /\ (a \o b)[k] = b[j]
      BY <1>1, <1>5, <3>2
    <3> QED BY <1>2, <1>3, <3>2, <3>3
  <2>3. k <= Len(s) \/ k > Len(s)
    BY <1>1, <1>3
  <2> QED BY <2>1, <2>2, <2>3
<1>7. c = a \o b
  BY <1>3, <1>5, <1>6, <1>4, SameSeq
<1> QED BY <1>7 DEF a, b, c

\* Renaming and flattening commute.
LEMMA RenameFlatten ==
  ASSUME NEW T, NEW U, NEW name \in [T -> U], NEW seqs \in Seq(Seq(T))
  PROVE  Renamed(FlattenSeq(seqs), name)
           = FlattenSeq([j \in DOMAIN seqs |-> Renamed(seqs[j], name)])
<1> DEFINE n == Len(seqs)
           names == [j \in DOMAIN seqs |-> Renamed(seqs[j], name)]
<1>1. n \in Nat /\ DOMAIN seqs = 1..n /\ \A j \in 1..n : seqs[j] \in Seq(T)
  OBVIOUS
<1>2. names \in Seq(Seq(U)) /\ Len(names) = n /\ \A j \in 1..n : names[j] = Renamed(seqs[j], name)
  <2>1. \A j \in 1..n : Renamed(seqs[j], name) \in Seq(U)
    BY <1>1, RenamedType
  <2>2. names \in [1..n -> Seq(U)]
    BY <1>1, <2>1
  <2>3. \A j \in 1..n : names[j] = Renamed(seqs[j], name)
    BY <1>1
  <2> HIDE DEF names
  <2> QED BY <1>1, <2>2, <2>3, FunctionIsSeq
<1> HIDE DEF names
<1>3. CASE n = 0
  <2>1. seqs = <<>> /\ names = <<>>
    BY <1>2, <1>3
  <2>2. FlattenSeq(seqs) = <<>> /\ FlattenSeq(names) = <<>>
    BY <2>1 DEF FlattenSeq
  <2>3. Renamed(<<>>, name) = <<>>
    BY DEF Renamed
  <2> QED BY <2>2, <2>3 DEF names
<1>4. CASE n # 0
  <2>1. seqs # <<>> /\ names # <<>>
    BY <1>2, <1>4
  <2>2. PICK f : /\ f = [i \in 1..n |-> IF i = 1 THEN seqs[i] ELSE f[i - 1] \o seqs[i]]
                 /\ FlattenSeq(seqs) = f[n]
    BY <2>1, FlattenExists
  <2>3. PICK h : /\ h = [i \in 1..n |-> IF i = 1 THEN names[i] ELSE h[i - 1] \o names[i]]
                 /\ FlattenSeq(names) = h[n]
    BY <1>2, <2>1, FlattenExists
  <2>4. /\ \A i \in 1..n : f[i] = IF i = 1 THEN seqs[i] ELSE f[i - 1] \o seqs[i]
        /\ \A i \in 1..n : h[i] = IF i = 1 THEN names[i] ELSE h[i - 1] \o names[i]
    BY <2>2, <2>3
  <2> DEFINE S == {i \in 1..n : f[i] \in Seq(T) /\ h[i] = Renamed(f[i], name)}
  <2>5. 1 \in S
    BY <1>1, <1>2, <1>4, <2>4
  <2>6. ASSUME NEW k \in 1..n - 1, k \in S PROVE k + 1 \in S
    <3>1. k + 1 \in 1..n /\ k + 1 # 1 /\ (k + 1) - 1 = k
      BY <1>1
    <3>2. f[k + 1] = f[k] \o seqs[k + 1] /\ h[k + 1] = h[k] \o names[k + 1]
      BY <2>4, <3>1
    <3>3. f[k] \in Seq(T) /\ seqs[k + 1] \in Seq(T) /\ h[k] = Renamed(f[k], name)
          /\ names[k + 1] = Renamed(seqs[k + 1], name)
      BY <1>1, <1>2, <2>6, <3>1
    <3>4. f[k] \o seqs[k + 1] \in Seq(T)
      BY ONLY <3>3, ConcatFacts
    <3>5. Renamed(f[k] \o seqs[k + 1], name)
            = Renamed(f[k], name) \o Renamed(seqs[k + 1], name)
      BY <3>3, RenameConcat
    <3> QED BY <3>1, <3>2, <3>3, <3>4, <3>5
  <2>7. \A k \in 1..n : k \in S
    <3> HIDE DEF S
    <3> QED BY <1>1, <1>4, <2>5, <2>6, UpFrom
  <2>8. n \in S
    <3> HIDE DEF S
    <3> QED BY <1>1, <1>4, <2>7
  <2>9. h[n] = Renamed(f[n], name)
    BY <2>8
  <2> QED BY <2>2, <2>3, <2>9 DEF names
<1> QED BY <1>3, <1>4

\* Renaming and Append commute, and only the names of the elements matter.
LEMMA RenameAppend ==
  ASSUME NEW T, NEW s \in Seq(T), NEW e \in T, NEW more \in Seq(T), Len(more) = Len(s) + 1,
         \A k \in 1..Len(s) : more[k] = s[k], more[Len(s) + 1] = e,
         NEW f, NEW g, \A k \in DOMAIN s : g[s[k]] = f[s[k]]
  PROVE  Renamed(more, g) = Append(Renamed(s, f), g[e])
<1> DEFINE U == {f[s[k]] : k \in 1..Len(s)} \cup {g[e]}
           a == Renamed(more, g)
           old == Renamed(s, f)
           b == Append(old, g[e])
<1>1. Len(s) \in Nat
  OBVIOUS
<1>2. DOMAIN s = 1..Len(s) /\ \A k \in 1..Len(s) + 1 : k \in 1..Len(s) \/ k = Len(s) + 1
  BY <1>1
<1>3. /\ Len(a) = Len(s) + 1 /\ DOMAIN a = 1..Len(s) + 1
      /\ \A k \in 1..Len(s) + 1 : a[k] = g[more[k]]
  BY <1>1, RenamedFacts
<1>4. /\ Len(old) = Len(s) /\ DOMAIN old = 1..Len(s)
      /\ \A k \in 1..Len(s) : old[k] = f[s[k]]
  BY RenamedFacts
<1>5. a \in Seq(U) /\ old \in Seq(U) /\ g[e] \in U
  <2>1. \A k \in 1..Len(s) + 1 : a[k] \in U
    BY <1>1, <1>2, <1>3
  <2>2. \A k \in 1..Len(s) : old[k] \in U
    BY <1>4
  <2>3. g[e] \in U
    OBVIOUS
  <2>4. a = [k \in 1..Len(s) + 1 |-> a[k]] /\ old = [k \in 1..Len(s) |-> old[k]]
    BY <1>3, <1>4 DEF Renamed
  <2> HIDE DEF a, old, U
  <2>5. a \in [1..Len(s) + 1 -> U] /\ old \in [1..Len(s) -> U]
    BY <2>1, <2>2, <2>4
  <2> QED BY <1>1, <2>3, <2>5, FunctionIsSeq
<1> HIDE DEF a, old, U
<1>6. PICK last : last = g[e]
  OBVIOUS
<1>7. /\ b \in Seq(U) /\ Len(b) = Len(s) + 1
      /\ \A k \in 1..Len(s) : b[k] = old[k]
      /\ b[Len(s) + 1] = g[e]
  <2>1. last \in U
    BY <1>5, <1>6
  <2>2. /\ Append(old, last) \in Seq(U) /\ Len(Append(old, last)) = Len(old) + 1
        /\ \A k \in 1..Len(old) : Append(old, last)[k] = old[k]
        /\ Append(old, last)[Len(old) + 1] = last
    BY ONLY <1>5, <2>1, PushIsAppend
  <2> QED BY <1>4, <1>6, <2>2
<1> HIDE DEF b
<1>8. \A k \in 1..Len(s) + 1 : a[k] = b[k]
  BY <1>1, <1>2, <1>3, <1>4, <1>7
<1>9. a = b
  BY <1>3, <1>5, <1>7, <1>8, SameSeq
<1> QED BY <1>9 DEF a, b, old

\* So do renaming and RemoveAt.
LEMMA RenameRemove ==
  ASSUME NEW T, NEW s \in Seq(T), NEW i \in DOMAIN s, NEW f, NEW g,
         \A k \in DOMAIN s \ {i} : g[s[k]] = f[s[k]]
  PROVE  Renamed(RemoveAt(s, i), g) = RemoveAt(Renamed(s, f), i)
<1> DEFINE U == {f[s[k]] : k \in 1..Len(s)}
           less == RemoveAt(s, i)
           a == Renamed(less, g)
           old == Renamed(s, f)
           b == RemoveAt(old, i)
<1>1. Len(s) \in Nat \ {0} /\ i \in 1..Len(s) /\ DOMAIN s = 1..Len(s) /\ Len(s) - 1 \in Nat
  OBVIOUS
<1>2. /\ less \in Seq(T) /\ Len(less) = Len(s) - 1
      /\ \A k \in 1..i - 1 : less[k] = s[k]
      /\ \A k \in i..Len(s) - 1 : less[k] = s[k + 1]
  BY RemoveAtFacts
<1> HIDE DEF less
<1>3. /\ Len(a) = Len(s) - 1 /\ DOMAIN a = 1..Len(s) - 1
      /\ \A k \in 1..Len(s) - 1 : a[k] = g[less[k]]
  BY <1>2, RenamedFacts
<1>4. /\ Len(old) = Len(s) /\ DOMAIN old = 1..Len(s)
      /\ \A k \in 1..Len(s) : old[k] = f[s[k]]
  BY RenamedFacts
<1>5. \A k \in 1..Len(s) - 1 : /\ k \in 1..i - 1 \/ k \in i..Len(s) - 1
                               /\ k \in 1..i - 1 => k \in 1..Len(s) /\ k # i
                               /\ k \in i..Len(s) - 1 => k + 1 \in 1..Len(s) /\ k + 1 # i
  BY <1>1
<1>6. old \in Seq(U)
  <2>1. \A k \in 1..Len(s) : old[k] \in U
    BY <1>4
  <2>2. old = [k \in 1..Len(s) |-> old[k]]
    BY <1>4 DEF Renamed
  <2> HIDE DEF old, U
  <2>3. old \in [1..Len(s) -> U]
    BY <2>1, <2>2
  <2> QED BY <1>1, <2>3, FunctionIsSeq
<1>7. /\ b \in Seq(U) /\ Len(b) = Len(s) - 1
      /\ \A k \in 1..i - 1 : b[k] = old[k]
      /\ \A k \in i..Len(s) - 1 : b[k] = old[k + 1]
  <2> HIDE DEF old, U
  <2>1. i \in DOMAIN old
    BY <1>1, <1>4
  <2> QED BY <1>4, <1>6, <2>1, RemoveAtFacts
<1> HIDE DEF b, old
<1>8. \A k \in 1..Len(s) - 1 : a[k] = b[k]
  <2>1. ASSUME NEW k \in 1..Len(s) - 1 PROVE a[k] = b[k]
    <3>1. CASE k \in 1..i - 1
      <4>1. k \in 1..Len(s) /\ k \in DOMAIN s \ {i}
        BY <1>1, <1>5, <3>1
      <4>2. a[k] = g[less[k]] /\ less[k] = s[k] /\ g[s[k]] = f[s[k]]
        BY <1>2, <1>3, <3>1, <4>1
      <4>3. b[k] = old[k] /\ old[k] = f[s[k]]
        BY <1>4, <1>7, <3>1, <4>1
      <4> QED BY <4>2, <4>3
    <3>2. CASE k \in i..Len(s) - 1
      <4>1. k + 1 \in 1..Len(s) /\ k + 1 \in DOMAIN s \ {i}
        BY <1>1, <1>5, <3>2
      <4>2. a[k] = g[less[k]] /\ less[k] = s[k + 1] /\ g[s[k + 1]] = f[s[k + 1]]
        BY <1>2, <1>3, <3>2, <4>1
      <4>3. b[k] = old[k + 1] /\ old[k + 1] = f[s[k + 1]]
        BY <1>4, <1>7, <3>2, <4>1
      <4> QED BY <4>2, <4>3
    <3> QED BY <1>5, <3>1, <3>2
  <2> QED BY <2>1
<1>9. a \in Seq(U)
  <2>1. a = [k \in 1..Len(s) - 1 |-> b[k]]
    <3>1. a = [k \in 1..Len(s) - 1 |-> a[k]]
      BY <1>3 DEF Renamed
    <3> HIDE DEF a
    <3> QED BY <1>8, <3>1
  <2>2. DOMAIN b = 1..Len(s) - 1 /\ \A k \in 1..Len(s) - 1 : b[k] \in U
    <3> HIDE DEF U
    <3>1. DOMAIN b = 1..Len(s) - 1
      BY <1>7
    <3> QED BY <1>7, <3>1, ElementOfSeq
  <2> HIDE DEF a, U
  <2>3. a \in [1..Len(s) - 1 -> U]
    BY <2>1, <2>2
  <2> QED BY <1>1, <2>3, FunctionIsSeq
<1> HIDE DEF a, U
<1>10. a = b
  BY <1>3, <1>7, <1>8, <1>9, SameSeq
<1> QED BY <1>10 DEF a, b, less, old

\* To extend the last of the parts is to extend the whole.
LEMMA FlattenExtend ==
  ASSUME NEW T, NEW seqs \in Seq(Seq(T)), seqs # <<>>, NEW e \in T, NEW more \in Seq(Seq(T)),
         Len(more) = Len(seqs),
         \A k \in 1..Len(seqs) - 1 : more[k] = seqs[k],
         more[Len(seqs)] = Append(seqs[Len(seqs)], e)
  PROVE  FlattenSeq(more) = Append(FlattenSeq(seqs), e)
<1> DEFINE n == Len(seqs)
           front == [k \in 1..n - 1 |-> seqs[k]]
<1>1. n \in Nat \ {0} /\ n - 1 \in Nat /\ \A k \in 1..n : seqs[k] \in Seq(T) /\ more[k] \in Seq(T)
  OBVIOUS
<1>2. front \in Seq(Seq(T)) /\ Len(front) = n - 1 /\ \A k \in 1..n - 1 : front[k] = seqs[k]
  <2>1. front \in [1..n - 1 -> Seq(T)]
    BY <1>1
  <2>2. \A k \in 1..n - 1 : front[k] = seqs[k]
    OBVIOUS
  <2> HIDE DEF front
  <2> QED BY <1>1, <2>1, <2>2, FunctionIsSeq
<1> HIDE DEF front
<1>3. ASSUME NEW whole \in Seq(Seq(T)), Len(whole) = n, \A k \in 1..n - 1 : whole[k] = seqs[k]
      PROVE  whole = Append(front, whole[n]) /\ whole[n] \in Seq(T)
  <2>1. whole[n] \in Seq(T)
    BY <1>1, <1>3
  <2>2. PICK added : added = Append(front, whole[n])
    OBVIOUS
  <2>3. /\ added \in Seq(Seq(T)) /\ Len(added) = (n - 1) + 1
        /\ \A k \in 1..n - 1 : added[k] = front[k]
        /\ added[(n - 1) + 1] = whole[n]
    <3>1. /\ Append(front, whole[n]) \in Seq(Seq(T))
          /\ Len(Append(front, whole[n])) = Len(front) + 1
          /\ \A k \in 1..Len(front) : Append(front, whole[n])[k] = front[k]
          /\ Append(front, whole[n])[Len(front) + 1] = whole[n]
      BY ONLY <1>2, <2>1, PushIsAppend
    <3> QED BY <1>2, <2>2, <3>1
  <2>4. Len(added) = n /\ added[n] = whole[n]
    BY <1>1, <2>3
  <2>5. \A k \in 1..n : added[k] = whole[k]
    <3>1. \A k \in 1..n : k \in 1..n - 1 \/ k = n
      BY <1>1
    <3> QED BY <1>2, <1>3, <2>3, <2>4, <3>1
  <2>6. added = whole
    BY <1>3, <2>3, <2>4, <2>5, SameSeq
  <2> QED BY <2>1, <2>2, <2>6
<1>4. seqs = Append(front, seqs[n]) /\ more = Append(front, more[n])
  BY <1>3
<1>5. /\ FlattenSeq(seqs) = FlattenSeq(front) \o seqs[n]
      /\ FlattenSeq(more) = FlattenSeq(front) \o more[n]
  <2>1. \A last \in Seq(T) : FlattenSeq(Append(front, last)) = FlattenSeq(front) \o last
    BY <1>2, FlattenAppend
  <2>2. seqs[n] \in Seq(T) /\ more[n] \in Seq(T)
    BY <1>1
  <2> QED BY <1>4, <2>1, <2>2
<1>6. FlattenSeq(front) \in Seq(T)
  BY <1>2, FlattenIsUnion
<1>7. FlattenSeq(front) \o Append(seqs[n], e) = Append(FlattenSeq(front) \o seqs[n], e)
  <2>1. PICK f \in Seq(T) : f = FlattenSeq(front)
    BY <1>6
  <2>2. PICK s \in Seq(T) : s = seqs[n]
    BY <1>1
  <2>3. f \o Append(s, e) = Append(f \o s, e)
    OBVIOUS
  <2> QED BY <2>1, <2>2, <2>3
<1> QED BY <1>5, <1>7
===============================================================================
