------------------------- MODULE TopicMatchingProofs --------------------------
(***************************************************************************)
(* isTopicMatched stays within its two strings, and what it returns is     *)
(* MQTT's answer.                                                          *)
(*                                                                         *)
(* The levels of a string lie between the positions Cuts gives, and the    *)
(* first lemmas say that these are the separators in order.  The loop is   *)
(* always at some level of both strings (Reached): the levels before it    *)
(* are covered, and of this one as much as it has passed.                  *)
(***************************************************************************)
EXTENDS TopicMatching, FiniteSetTheorems, SequenceTheorems, TLAPS

----------------------------------------------------------------------------
(* The order of a finite set of numbers.                                   *)

\* InOrder lists all members of the set, each once and in increasing order.
LEMMA InOrderFacts ==
  ASSUME NEW S \in SUBSET Nat, IsFiniteSet(S)
  PROVE  /\ Cardinality(S) \in Nat
         /\ InOrder(S) \in [1 .. Cardinality(S) -> S]
         /\ \A i, j \in 1 .. Cardinality(S) : i < j => InOrder(S)[i] < InOrder(S)[j]
         /\ \A k \in S : \E i \in 1 .. Cardinality(S) : InOrder(S)[i] = k
<1> DEFINE n == Cardinality(S)
           UpTo(k) == {j \in S : j <= k}
           rank == [k \in S |-> Cardinality(UpTo(k))]
           c == InOrder(S)
<1>1. n \in Nat
  BY FS_CardinalityType
<1>2. \A k \in S : IsFiniteSet(UpTo(k)) /\ rank[k] \in Nat /\ rank[k] <= n /\ rank[k] > 0
  <2> SUFFICES ASSUME NEW k \in S
               PROVE  IsFiniteSet(UpTo(k)) /\ rank[k] \in Nat /\ rank[k] <= n /\ rank[k] > 0
    OBVIOUS
  <2>1. UpTo(k) \in SUBSET S
    OBVIOUS
  <2>2. IsFiniteSet(UpTo(k)) /\ Cardinality(UpTo(k)) <= n
    BY <2>1, FS_Subset
  <2>3. Cardinality(UpTo(k)) \in Nat
    BY <2>2, FS_CardinalityType
  <2>4. k \in UpTo(k)
    OBVIOUS
  <2>5. Cardinality(UpTo(k)) # 0
    BY <2>2, <2>4, FS_EmptySet
  <2>6. rank[k] = Cardinality(UpTo(k))
    OBVIOUS
  <2> HIDE DEF UpTo, rank, n
  <2> QED BY <2>2, <2>3, <2>5, <2>6
<1>3. \A k, l \in S : k < l => rank[k] < rank[l]
  <2> SUFFICES ASSUME NEW k \in S, NEW l \in S, k < l PROVE rank[k] < rank[l]
    OBVIOUS
  <2>1. UpTo(k) \in SUBSET UpTo(l) /\ UpTo(k) # UpTo(l)
    <3>1. l \in UpTo(l) /\ l \notin UpTo(k)
      OBVIOUS
    <3>2. UpTo(k) \in SUBSET UpTo(l)
      <4>1. \A j \in S : j <= k => j <= l
        OBVIOUS
      <4> QED BY <4>1
    <3> QED BY <3>1, <3>2
  <2>2. Cardinality(UpTo(k)) <= Cardinality(UpTo(l)) /\ Cardinality(UpTo(k)) # Cardinality(UpTo(l))
    BY <1>2, <2>1, FS_Subset
  <2>3. rank[k] = Cardinality(UpTo(k)) /\ rank[l] = Cardinality(UpTo(l))
    OBVIOUS
  <2> HIDE DEF UpTo, rank
  <2> QED BY <1>2, <2>2, <2>3
<1>4. \A k, l \in S : rank[k] = rank[l] => k = l
  <2> SUFFICES ASSUME NEW k \in S, NEW l \in S, rank[k] = rank[l] PROVE k = l
    OBVIOUS
  <2>1. k \in Nat /\ l \in Nat /\ rank[k] \in Nat /\ rank[l] \in Nat
    BY <1>2
  <2>2. ~(k < l) /\ ~(l < k)
    <3> HIDE DEF rank
    <3> QED BY <1>3, <2>1
  <2> QED BY <2>1, <2>2
<1>5. \A i \in 1 .. n : \E k \in S : rank[k] = i
  <2>1. rank \in [S -> 1 .. n]
    <3> SUFFICES ASSUME NEW k \in S PROVE rank[k] \in 1 .. n
      OBVIOUS
    <3> PICK r : r = rank[k]
      OBVIOUS
    <3> HIDE DEF rank, n, UpTo
    <3>1. r \in Nat /\ r <= n /\ r > 0
      BY <1>2
    <3> QED BY <1>1, <3>1
  <2>2. rank \in Injection(S, 1 .. n)
    <3> HIDE DEF rank
    <3> QED BY <1>4, <2>1 DEF Injection, IsInjective
  <2>3. IsFiniteSet(1 .. n) /\ Cardinality(1 .. n) = n
    <3> HIDE DEF n
    <3>1. /\ IsFiniteSet(1 .. n)
          /\ Cardinality(1 .. n) = IF 1 > n THEN 0 ELSE n - 1 + 1
      BY <1>1, FS_Interval
    <3> QED BY <1>1, <3>1
  <2>4. rank \in Surjection(S, 1 .. n)
    <3> HIDE DEF rank
    <3> QED BY <2>2, <2>3, FS_Injection
  <2> HIDE DEF rank, n
  <2> QED BY <2>4 DEF Surjection
<1>6. \A i \in 1 .. n : c[i] \in S /\ rank[c[i]] = i
  <2> SUFFICES ASSUME NEW i \in 1 .. n PROVE c[i] \in S /\ rank[c[i]] = i
    OBVIOUS
  <2>1. c[i] = CHOOSE k \in S : Cardinality({j \in S : j <= k}) = i
    BY DEF InOrder
  <2>2. \E k \in S : Cardinality({j \in S : j <= k}) = i
    BY <1>5
  <2>3. c[i] \in S /\ Cardinality({j \in S : j <= c[i]}) = i
    <3> HIDE DEF c
    <3> QED BY <2>1, <2>2
  <2> HIDE DEF c
  <2> QED BY <2>3
<1>7. c = [i \in 1 .. n |-> c[i]]
  BY DEF InOrder
<1> HIDE DEF c, rank, n
<1>8. c \in [1 .. n -> S]
  BY <1>6, <1>7
<1>9. \A i, j \in 1 .. n : i < j => c[i] < c[j]
  <2> SUFFICES ASSUME NEW i \in 1 .. n, NEW j \in 1 .. n, i < j PROVE c[i] < c[j]
    OBVIOUS
  <2>1. PICK x \in S, y \in S : x = c[i] /\ y = c[j] /\ rank[x] = i /\ rank[y] = j
    BY <1>6
  <2>2. x \in Nat /\ y \in Nat /\ i \in Nat /\ j \in Nat
    BY <1>1
  <2>3. x # y /\ ~(y < x)
    BY <1>3, <2>1, <2>2
  <2> QED BY <2>1, <2>2, <2>3
<1>10. \A k \in S : \E i \in 1 .. n : c[i] = k
  <2> SUFFICES ASSUME NEW k \in S PROVE \E i \in 1 .. n : c[i] = k
    OBVIOUS
  <2> HIDE DEF UpTo
  <2>1. PICK i : i = rank[k]
    OBVIOUS
  <2>2. i \in Nat /\ i <= n /\ i > 0
    BY <1>2, <2>1
  <2>3. i \in 1 .. n
    BY <1>1, <2>2
  <2>4. c[i] \in S /\ rank[c[i]] = rank[k]
    BY <1>6, <2>1, <2>3
  <2> QED BY <1>4, <2>3, <2>4
<1> QED BY <1>1, <1>8, <1>9, <1>10 DEF c, n

----------------------------------------------------------------------------
(* Levels.                                                                 *)

\* c holds the beginning of s, its separators in order, and its end.
IsCut(c, s) ==
  /\ c \in Seq(Nat) /\ Len(c) >= 2
  /\ c[1] = 0 /\ c[Len(c)] = Len(s) + 1
  /\ \A i, j \in 1 .. Len(c) : i < j => c[i] < c[j]
  /\ \A i \in 2 .. (Len(c) - 1) : c[i] \in 1 .. Len(s) /\ s[c[i]] = "/"
  /\ \A i \in 1 .. (Len(c) - 1), k \in 1 .. Len(s) : c[i] < k /\ k < c[i + 1] => s[k] # "/"

\* The cuts of a string: the first is its beginning, the last its end, and the others
\* are its separators, in order.
LEMMA CutsAreCut ==
  ASSUME NEW s \in Seq(Char)
  PROVE  IsCut(Cuts(s), s)
<1> DEFINE e == Len(s) + 1
           S == {0, e} \cup {k \in 1 .. Len(s) : s[k] = "/"}
           n == Cardinality(S)
           c == Cuts(s)
<1>1. e \in Nat /\ e > 0 /\ Len(s) \in Nat /\ e = Len(s) + 1
  OBVIOUS
<1>2. S \in SUBSET Nat /\ (\A k \in S : k <= e) /\ 0 \in S /\ e \in S
  BY <1>1
<1>3. \A k \in S : k # 0 /\ k # e => k \in 1 .. Len(s) /\ s[k] = "/"
  OBVIOUS
<1>4. \A k \in 1 .. Len(s) : s[k] = "/" => k \in S
  OBVIOUS
<1>5. c = InOrder(S)
  BY DEF Cuts
<1> HIDE DEF S, e, c
<1>6. IsFiniteSet(S)
  BY <1>1, <1>2, FS_BoundedSetOfNaturals
<1>7. /\ n \in Nat /\ c \in [1 .. n -> S]
      /\ \A i, j \in 1 .. n : i < j => c[i] < c[j]
      /\ \A k \in S : \E i \in 1 .. n : c[i] = k
  BY <1>2, <1>5, <1>6, InOrderFacts
<1> HIDE DEF n
<1>8. c \in Seq(Nat) /\ Len(c) = n
  <2>1. c \in [1 .. n -> Nat]
    BY <1>2, <1>7
  <2>2. c \in Seq(Nat)
    BY <1>7, <2>1, SeqDef
  <2>3. 1 .. n = 1 .. Len(c) /\ Len(c) \in Nat
    BY <2>1, <2>2, LenProperties
  <2> QED BY <1>7, <2>2, <2>3
<1>9. \A i \in 1 .. n : c[i] \in Nat /\ c[i] \in S /\ c[i] <= e
  BY <1>2, <1>7
<1>10. PICK b \in 1 .. n, z \in 1 .. n : c[b] = 0 /\ c[z] = e
  BY <1>2, <1>7
<1>11. b = 1
  <2>1. 1 \in 1 .. n /\ b \in Nat
    BY <1>7
  <2>2. ~(1 < b)
    BY <1>7, <1>9, <1>10, <2>1
  <2> QED BY <2>1, <2>2
<1>12. z = n
  <2>1. n \in 1 .. n /\ z \in Nat
    BY <1>7
  <2>2. ~(z < n)
    BY <1>1, <1>7, <1>9, <1>10, <2>1
  <2> QED BY <1>7, <2>1, <2>2
<1>13. n >= 2
  BY <1>1, <1>7, <1>10, <1>11, <1>12
<1>14. ASSUME NEW i \in 2 .. (n - 1)
       PROVE  c[i] \in 1 .. Len(s) /\ s[c[i]] = "/"
  <2>1. i \in 1 .. n /\ 1 < i /\ i < n /\ 1 \in 1 .. n /\ n \in 1 .. n
    BY <1>7
  <2>2. c[1] < c[i] /\ c[i] < c[n]
    BY <1>7, <2>1
  <2>3. c[i] # 0 /\ c[i] # e
    BY <1>1, <1>9, <1>10, <1>11, <1>12, <2>1, <2>2
  <2> QED BY <1>3, <1>9, <2>1, <2>3
<1>15. ASSUME NEW i \in 1 .. (n - 1), NEW k \in 1 .. Len(s), c[i] < k, k < c[i + 1], s[k] = "/"
       PROVE  FALSE
  <2>1. PICK j \in 1 .. n : c[j] = k
    BY <1>4, <1>7, <1>15
  <2>2. i \in 1 .. n /\ i + 1 \in 1 .. n /\ j \in Nat /\ i \in Nat
    BY <1>7
  <2>3. j # i /\ j # i + 1
    BY <1>9, <1>15, <2>1, <2>2
  <2>4. CASE j < i
    BY <1>7, <1>9, <1>15, <2>1, <2>2, <2>4
  <2>5. CASE i + 1 < j
    BY <1>7, <1>9, <1>15, <2>1, <2>2, <2>5
  <2> QED BY <2>2, <2>3, <2>4, <2>5
<1> QED BY <1>1, <1>7, <1>8, <1>10, <1>11, <1>12, <1>13, <1>14, <1>15 DEF IsCut, c

\* l is what s has between positions a and b.
IsText(l, s, a, b) ==
  /\ a \in Nat /\ b \in Nat /\ a < b /\ b <= Len(s) + 1
  /\ l \in Seq(Char) /\ Len(l) = b - a - 1
  /\ \A t \in 1 .. (b - a - 1) : l[t] = s[a + t]

\* SubSeq takes the text between two positions.
LEMMA Between ==
  ASSUME NEW s \in Seq(Char), NEW a \in Nat, NEW b \in Nat, a < b, b <= Len(s) + 1
  PROVE  IsText(SubSeq(s, a + 1, b - 1), s, a, b)
<1>1. Len(s) \in Nat
  OBVIOUS
<1>2. SubSeq(s, a + 1, b - 1) \in Seq(Char) /\ Len(SubSeq(s, a + 1, b - 1)) = b - a - 1
  BY <1>1
<1>3. \A t \in 1 .. (b - a - 1) : SubSeq(s, a + 1, b - 1)[t] = s[a + t]
  BY <1>1
<1> QED BY <1>2, <1>3 DEF IsText

\* The text of a level.
LEMMA LevelText ==
  ASSUME NEW s \in Seq(Char), NEW c, c = Cuts(s), NEW i \in 1 .. (Len(c) - 1)
  PROVE  IsText(Levels(s)[i], s, c[i], c[i + 1])
<1>1. Levels(s)[i] = SubSeq(s, c[i] + 1, c[i + 1] - 1)
  BY DEF Levels
<1>2. IsCut(c, s)
  BY CutsAreCut
<1>3. i \in 1 .. Len(c) /\ i + 1 \in 1 .. Len(c) /\ i < i + 1 /\ Len(c) \in Nat
  BY <1>2 DEF IsCut
<1>4. c[i] \in Nat /\ c[i + 1] \in Nat /\ c[i] < c[i + 1]
  BY <1>2, <1>3 DEF IsCut
<1>5. c[i + 1] <= Len(s) + 1
  <2>1. CASE i + 1 = Len(c)
    BY <1>2, <2>1 DEF IsCut
  <2>2. CASE i + 1 < Len(c)
    <3>1. i + 1 \in 2 .. (Len(c) - 1)
      BY <1>3, <2>2
    <3> QED BY <1>2, <3>1 DEF IsCut
  <2> QED BY <1>3, <2>1, <2>2
<1>6. IsText(SubSeq(s, c[i] + 1, c[i + 1] - 1), s, c[i], c[i + 1])
  BY <1>4, <1>5, Between
<1> QED BY <1>1, <1>6

\* Cuts are positions, in increasing order.
LEMMA CutStep ==
  ASSUME NEW s \in Seq(Char), NEW c, c = Cuts(s), NEW i \in 1 .. (Len(c) - 1)
  PROVE  c[i] \in Nat /\ c[i + 1] \in Nat /\ c[i] < c[i + 1]
  BY LevelText DEF IsText

\* There is one level less than there are cuts, and at least one.
LEMMA LevelCount ==
  ASSUME NEW s \in Seq(Char)
  PROVE  /\ Len(Levels(s)) \in Nat /\ Len(Levels(s)) = Len(Cuts(s)) - 1 /\ Len(Levels(s)) > 0
         /\ Len(Cuts(s)) \in Nat
<1>1. PICK c : c = Cuts(s)
  OBVIOUS
<1>2. IsCut(c, s)
  BY <1>1, CutsAreCut
<1>3. Len(c) \in Nat /\ Len(c) >= 2
  BY <1>2 DEF IsCut
<1>4. Levels(s) = [i \in 1 .. (Len(c) - 1) |-> SubSeq(s, c[i] + 1, c[i + 1] - 1)]
  BY <1>1 DEF Levels
<1>5. Len(Levels(s)) = Len(c) - 1
  BY <1>3, <1>4
<1> QED BY <1>1, <1>3, <1>5

\* Position k, in level i or at its end.
LEMMA Place ==
  ASSUME NEW s \in Seq(Char), NEW c, c = Cuts(s), NEW i \in 1 .. (Len(c) - 1),
         NEW k \in (c[i] + 1) .. c[i + 1]
  PROVE  /\ c[i] \in Nat /\ c[i + 1] \in Nat /\ c[i] < c[i + 1] /\ c[i + 1] <= Len(s) + 1
         /\ k \in 1 .. (Len(s) + 1)
         /\ k < c[i + 1] => k <= Len(s) /\ s[k] # "/"
         /\ k = c[i + 1] /\ k <= Len(s) => i + 1 \in 1 .. (Len(c) - 1) /\ s[k] = "/"
         /\ k = Len(s) + 1 => k = c[i + 1] /\ i = Len(c) - 1
<1>1. IsCut(c, s)
  BY CutsAreCut
<1>2. PICK m : m = Len(c)
  OBVIOUS
<1>3. /\ c \in Seq(Nat) /\ m \in Nat /\ m >= 2 /\ Len(s) \in Nat
      /\ i \in 1 .. m /\ i + 1 \in 1 .. m /\ i \in Nat /\ i < i + 1
  BY <1>1, <1>2 DEF IsCut
<1>4. PICK a, b : a = c[i] /\ b = c[i + 1]
  OBVIOUS
<1>5. a \in Nat /\ b \in Nat /\ a < b
  BY <1>1, <1>2, <1>3, <1>4 DEF IsCut
<1>6. \/ i + 1 = m /\ b = Len(s) + 1
      \/ i + 1 < m /\ i + 1 \in 1 .. (m - 1) /\ b \in 1 .. Len(s) /\ s[b] = "/"
  <2>1. CASE i + 1 = m
    BY <1>1, <1>2, <1>4, <2>1 DEF IsCut
  <2>2. CASE i + 1 < m
    <3>1. i + 1 \in 2 .. (m - 1) /\ i + 1 \in 1 .. (m - 1)
      BY <1>3, <2>2
    <3> QED BY <1>1, <1>2, <1>4, <2>2, <3>1 DEF IsCut
  <2> QED BY <1>3, <2>1, <2>2
<1>7. k \in Nat /\ a < k /\ k <= b
  BY <1>4, <1>5
<1>8. b <= Len(s) + 1 /\ k \in 1 .. (Len(s) + 1)
  BY <1>3, <1>5, <1>6, <1>7
<1>9. k < b => k \in 1 .. Len(s) /\ s[k] # "/"
  <2> SUFFICES ASSUME k < b PROVE k \in 1 .. Len(s) /\ s[k] # "/"
    OBVIOUS
  <2>1. k \in 1 .. Len(s)
    BY <1>3, <1>5, <1>7, <1>8
  <2> QED BY <1>1, <1>2, <1>4, <1>7, <2>1 DEF IsCut
<1>10. k = Len(s) + 1 => k = b /\ i + 1 = m
  BY <1>3, <1>5, <1>6, <1>7
<1>11. k = b /\ k <= Len(s) => i + 1 \in 1 .. (m - 1) /\ s[k] = "/"
  BY <1>3, <1>5, <1>6, <1>7
<1> QED BY <1>2, <1>3, <1>4, <1>5, <1>7, <1>8, <1>9, <1>10, <1>11

\* A level of one character, and an empty one.
LEMMA LevelOfOne ==
  ASSUME NEW s \in Seq(Char), NEW c, c = Cuts(s), NEW i \in 1 .. (Len(c) - 1), NEW w \in Char
  PROVE  /\ Levels(s)[i] = <<w>> <=> c[i + 1] = c[i] + 2 /\ s[c[i] + 1] = w
         /\ Levels(s)[i] = <<>> <=> c[i + 1] = c[i] + 1
<1>1. PICK l : l = Levels(s)[i]
  OBVIOUS
<1>2. PICK a, b : a = c[i] /\ b = c[i + 1]
  OBVIOUS
<1>3. IsText(l, s, a, b)
  BY <1>1, <1>2, LevelText
<1>4. /\ l \in Seq(Char) /\ Len(l) = b - a - 1
      /\ \A t \in 1 .. (b - a - 1) : l[t] = s[a + t]
  BY <1>3 DEF IsText
<1>5. a \in Nat /\ b \in Nat /\ a < b
  BY <1>3 DEF IsText
<1>6. l = <<w>> => b = a + 2 /\ s[a + 1] = w
  <2> SUFFICES ASSUME l = <<w>> PROVE b = a + 2 /\ s[a + 1] = w
    OBVIOUS
  <2>1. Len(l) = 1 /\ l[1] = w
    OBVIOUS
  <2>2. b = a + 2 /\ 1 \in 1 .. (b - a - 1)
    BY <1>4, <1>5, <2>1
  <2> QED BY <1>4, <2>1, <2>2
<1>7. b = a + 2 /\ s[a + 1] = w => l = <<w>>
  <2> SUFFICES ASSUME b = a + 2, s[a + 1] = w PROVE l = <<w>>
    OBVIOUS
  <2>1. Len(l) = 1 /\ 1 \in 1 .. (b - a - 1)
    BY <1>4, <1>5
  <2>2. l[1] = w
    BY <1>4, <2>1
  <2>3. <<w>> \in Seq(Char) /\ Len(<<w>>) = 1 /\ <<w>>[1] = w
    OBVIOUS
  <2>4. \A t \in 1 .. Len(l) : l[t] = <<w>>[t]
    BY <2>1, <2>2, <2>3
  <2> QED BY <1>4, <2>1, <2>3, <2>4, SeqEqual
<1>8. l = <<>> <=> b = a + 1
  BY <1>4, <1>5
<1> QED BY <1>1, <1>2, <1>6, <1>7, <1>8

\* Two levels that are the same, character by character.
LEMMA LevelsAlike ==
  ASSUME NEW s \in Seq(Char), NEW c, c = Cuts(s), NEW i \in 1 .. (Len(c) - 1),
         NEW u \in Seq(Char), NEW d, d = Cuts(u), NEW j \in 1 .. (Len(d) - 1)
  PROVE  Levels(s)[i] = Levels(u)[j] <=>
           /\ c[i + 1] - c[i] = d[j + 1] - d[j]
           /\ \A t \in 1 .. (c[i + 1] - c[i] - 1) : s[c[i] + t] = u[d[j] + t]
<1>1. PICK l, r : l = Levels(s)[i] /\ r = Levels(u)[j]
  OBVIOUS
<1>2. PICK a, b, x, y : a = c[i] /\ b = c[i + 1] /\ x = d[j] /\ y = d[j + 1]
  OBVIOUS
<1>3. IsText(l, s, a, b) /\ IsText(r, u, x, y)
  BY <1>1, <1>2, LevelText
<1>4. /\ l \in Seq(Char) /\ Len(l) = b - a - 1
      /\ \A t \in 1 .. (b - a - 1) : l[t] = s[a + t]
      /\ a \in Nat /\ b \in Nat
  BY <1>3 DEF IsText
<1>5. /\ r \in Seq(Char) /\ Len(r) = y - x - 1
      /\ \A t \in 1 .. (y - x - 1) : r[t] = u[x + t]
      /\ x \in Nat /\ y \in Nat
  BY <1>3 DEF IsText
<1>6. l = r => b - a = y - x /\ \A t \in 1 .. (b - a - 1) : s[a + t] = u[x + t]
  <2> SUFFICES ASSUME l = r PROVE b - a = y - x /\ \A t \in 1 .. (b - a - 1) : s[a + t] = u[x + t]
    OBVIOUS
  <2>1. b - a = y - x
    BY <1>4, <1>5
  <2> QED BY <1>4, <1>5, <2>1
<1>7. ASSUME b - a = y - x, \A t \in 1 .. (b - a - 1) : s[a + t] = u[x + t]
      PROVE  l = r
  <2>1. Len(l) = Len(r)
    BY <1>4, <1>5, <1>7
  <2>2. \A t \in 1 .. Len(l) : l[t] = r[t]
    BY <1>4, <1>5, <1>7
  <2> QED BY <1>4, <1>5, <2>1, <2>2, SeqEqual
<1> QED BY <1>1, <1>2, <1>6, <1>7

\* In a well-formed filter a wildcard is alone in its level, and `#' in the last one.
LEMMA WildcardAlone ==
  ASSUME NEW s \in Seq(Char), WellFormed(s), NEW c, c = Cuts(s), NEW i \in 1 .. (Len(c) - 1),
         NEW k \in (c[i] + 1) .. (c[i + 1] - 1)
  PROVE  /\ s[k] = "+" => k = c[i] + 1 /\ Levels(s)[i] = Plus
         /\ s[k] = "#" => k = c[i] + 1 /\ Levels(s)[i] = Hash /\ i = Len(c) - 1
<1>1. PICK l : l = Levels(s)[i]
  OBVIOUS
<1>2. PICK a, b : a = c[i] /\ b = c[i + 1]
  OBVIOUS
<1>3. IsText(l, s, a, b)
  BY <1>1, <1>2, LevelText
<1>4. /\ l \in Seq(Char) /\ Len(l) = b - a - 1
      /\ \A t \in 1 .. (b - a - 1) : l[t] = s[a + t]
  BY <1>3 DEF IsText
<1>5. a \in Nat /\ b \in Nat /\ k \in Nat /\ a < k /\ k < b
  <2>1. a \in Nat /\ b \in Nat
    BY <1>3 DEF IsText
  <2> QED BY <1>2, <2>1
<1>6. Len(Levels(s)) = Len(c) - 1
  BY LevelCount
<1>7. /\ l = Plus \/ ~Contains(l, "+")
      /\ (l = Hash /\ i = Len(c) - 1) \/ ~Contains(l, "#")
  BY <1>1, <1>6 DEF WellFormed
<1>8. k - a \in 1 .. (b - a - 1) /\ a + (k - a) = k
  BY <1>5
<1>9. l[k - a] = s[k] /\ k - a \in 1 .. Len(l)
  BY <1>4, <1>8
<1>10. \A w : s[k] = w => Contains(l, w)
  BY <1>9 DEF Contains
<1>11. \A w : l = <<w>> => k = a + 1
  <2> SUFFICES ASSUME NEW w, l = <<w>> PROVE k = a + 1
    OBVIOUS
  <2>1. Len(l) = 1
    OBVIOUS
  <2> QED BY <1>4, <1>5, <2>1
<1> QED BY <1>1, <1>2, <1>7, <1>10, <1>11 DEF Plus, Hash

----------------------------------------------------------------------------
(* Where the loop is.  f and n are filter and name, x and y the positions  *)
(* curf and curn.                                                          *)

Covered(f, n, i) == Levels(f)[i] = Plus \/ Levels(f)[i] = Levels(n)[i]

\* In level i, after equal characters that are no wildcards.
Alike(f, n, x, y, i) ==
  /\ x - Cuts(f)[i] = y - Cuts(n)[i]
  /\ \A t \in 1 .. (x - Cuts(f)[i] - 1) :
       f[Cuts(f)[i] + t] = n[Cuts(n)[i] + t] /\ f[Cuts(f)[i] + t] \notin {"+", "#"}

\* In the inner loop, and behind it: `+' is all of level i.
AtPlus(f, n, x, y, i) ==
  Levels(f)[i] = Plus /\ x = Cuts(f)[i] + 1 /\ y < Cuts(n)[i + 1]
PastPlus(f, n, x, y, i) ==
  Levels(f)[i] = Plus /\ x = Cuts(f)[i] + 2 /\ y = Cuts(n)[i + 1]

\* The loop is in level i of filter and name, and all before is covered.
Reached(f, n, x, y, skips, i) ==
  /\ i \in 1 .. (Len(Cuts(f)) - 1) /\ i \in 1 .. (Len(Cuts(n)) - 1)
  /\ x \in (Cuts(f)[i] + 1) .. Cuts(f)[i + 1]
  /\ y \in (Cuts(n)[i] + 1) .. Cuts(n)[i + 1]
  /\ \A j \in 1 .. (i - 1) : Covered(f, n, j)
  /\ \/ ~skips /\ Alike(f, n, x, y, i)
     \/ skips /\ AtPlus(f, n, x, y, i)
     \/ ~skips /\ PastPlus(f, n, x, y, i)

\* The numbers and characters around level i, which begins behind a and ends in front
\* of b in the filter, and behind u and in front of v in the name.
Around(f, n, x, y, i, a, b, u, v) ==
  /\ a \in Nat /\ b \in Nat /\ a < b /\ b <= Len(f) + 1
  /\ u \in Nat /\ v \in Nat /\ u < v /\ v <= Len(n) + 1
  /\ x \in Nat /\ a < x /\ x <= b /\ y \in Nat /\ u < y /\ y <= v
  /\ x < b => x <= Len(f) /\ f[x] # "/"
  /\ x = b /\ x <= Len(f) => i + 1 \in 1 .. (Len(Cuts(f)) - 1) /\ f[x] = "/"
  /\ x = Len(f) + 1 => x = b /\ i = Len(Cuts(f)) - 1
  /\ y < v => y <= Len(n) /\ n[y] # "/"
  /\ y = v /\ y <= Len(n) => i + 1 \in 1 .. (Len(Cuts(n)) - 1) /\ n[y] = "/"
  /\ y = Len(n) + 1 => y = v /\ i = Len(Cuts(n)) - 1

\* What Reached says of the two positions and the cuts around them.
LEMMA AtLevel ==
  ASSUME NEW f \in Seq(Char), NEW n \in Seq(Char), NEW x, NEW y, NEW skips, NEW i,
         Reached(f, n, x, y, skips, i)
  PROVE  Around(f, n, x, y, i, Cuts(f)[i], Cuts(f)[i + 1], Cuts(n)[i], Cuts(n)[i + 1])
<1>1. PICK a, b, u, v : a = Cuts(f)[i] /\ b = Cuts(f)[i + 1] /\ u = Cuts(n)[i] /\ v = Cuts(n)[i + 1]
  OBVIOUS
<1>2. /\ i \in 1 .. (Len(Cuts(f)) - 1) /\ i \in 1 .. (Len(Cuts(n)) - 1)
      /\ x \in (a + 1) .. b /\ y \in (u + 1) .. v
  BY <1>1 DEF Reached
<1>3. /\ a \in Nat /\ b \in Nat /\ a < b /\ b <= Len(f) + 1
      /\ x < b => x <= Len(f) /\ f[x] # "/"
      /\ x = b /\ x <= Len(f) => i + 1 \in 1 .. (Len(Cuts(f)) - 1) /\ f[x] = "/"
      /\ x = Len(f) + 1 => x = b /\ i = Len(Cuts(f)) - 1
  BY <1>1, <1>2, Place
<1>4. /\ u \in Nat /\ v \in Nat /\ u < v /\ v <= Len(n) + 1
      /\ y < v => y <= Len(n) /\ n[y] # "/"
      /\ y = v /\ y <= Len(n) => i + 1 \in 1 .. (Len(Cuts(n)) - 1) /\ n[y] = "/"
      /\ y = Len(n) + 1 => y = v /\ i = Len(Cuts(n)) - 1
  BY <1>1, <1>2, Place
<1>5. x \in Nat /\ a < x /\ x <= b
  BY <1>2, <1>3
<1>6. y \in Nat /\ u < y /\ y <= v
  BY <1>2, <1>4
<1>7. Around(f, n, x, y, i, a, b, u, v)
  BY <1>3, <1>4, <1>5, <1>6 DEF Around
<1> QED BY <1>1, <1>7

\* The first level.
LEMMA ReachedFirst ==
  ASSUME NEW f \in Seq(Char), NEW n \in Seq(Char)
  PROVE  Reached(f, n, 1, 1, FALSE, 1)
<1>1. PICK c, d : c = Cuts(f) /\ d = Cuts(n)
  OBVIOUS
<1>2. IsCut(c, f) /\ IsCut(d, n)
  BY <1>1, CutsAreCut
<1>3. /\ Len(c) \in Nat /\ Len(c) >= 2 /\ c[1] = 0 /\ c[1] < c[2] /\ c[2] \in Nat
  <2>1. Len(c) \in Nat /\ Len(c) >= 2 /\ c[1] = 0
    BY <1>2 DEF IsCut
  <2>2. 1 \in 1 .. (Len(c) - 1) /\ 1 + 1 = 2
    BY <2>1
  <2> QED BY <1>1, <2>1, <2>2, CutStep
<1>4. /\ Len(d) \in Nat /\ Len(d) >= 2 /\ d[1] = 0 /\ d[1] < d[2] /\ d[2] \in Nat
  <2>1. Len(d) \in Nat /\ Len(d) >= 2 /\ d[1] = 0
    BY <1>2 DEF IsCut
  <2>2. 1 \in 1 .. (Len(d) - 1) /\ 1 + 1 = 2
    BY <2>1
  <2> QED BY <1>1, <2>1, <2>2, CutStep
<1>5. /\ 1 \in 1 .. (Len(c) - 1) /\ 1 \in 1 .. (Len(d) - 1)
      /\ 1 \in (c[1] + 1) .. c[1 + 1] /\ 1 \in (d[1] + 1) .. d[1 + 1]
  BY <1>3, <1>4
<1>6. 1 .. (1 - 1) = {} /\ 1 - c[1] = 1 - d[1] /\ 1 .. (1 - c[1] - 1) = {}
  BY <1>3, <1>4
<1> QED BY <1>1, <1>5, <1>6 DEF Reached, Alike

\* Both strings have a separator behind level i, which is covered: on to the next one.
LEMMA ReachedNext ==
  ASSUME NEW f \in Seq(Char), NEW n \in Seq(Char), NEW i \in Nat, i > 0,
         i + 1 \in 1 .. (Len(Cuts(f)) - 1), i + 1 \in 1 .. (Len(Cuts(n)) - 1),
         \A j \in 1 .. (i - 1) : Covered(f, n, j), Covered(f, n, i)
  PROVE  Reached(f, n, Cuts(f)[i + 1] + 1, Cuts(n)[i + 1] + 1, FALSE, i + 1)
<1>1. PICK c, d, k : c = Cuts(f) /\ d = Cuts(n) /\ k = i + 1
  OBVIOUS
<1>2. IsCut(c, f) /\ IsCut(d, n)
  BY <1>1, CutsAreCut
<1>3. c[k] \in Nat /\ c[k + 1] \in Nat /\ c[k] < c[k + 1]
  BY <1>1, CutStep
<1>4. d[k] \in Nat /\ d[k + 1] \in Nat /\ d[k] < d[k + 1]
  BY <1>1, CutStep
<1>5. PICK a, b, u, v : a = c[k] /\ b = c[k + 1] /\ u = d[k] /\ v = d[k + 1]
  OBVIOUS
<1>6. a \in Nat /\ b \in Nat /\ a < b /\ u \in Nat /\ v \in Nat /\ u < v
  BY <1>3, <1>4, <1>5
<1>7. /\ a + 1 \in (a + 1) .. b /\ u + 1 \in (u + 1) .. v
      /\ (a + 1) - a = (u + 1) - u /\ 1 .. ((a + 1) - a - 1) = {}
  BY <1>6
<1>8. \A j \in 1 .. (k - 1) : Covered(f, n, j)
  <2> SUFFICES ASSUME NEW j \in 1 .. (k - 1) PROVE Covered(f, n, j)
    OBVIOUS
  <2>1. j = i \/ j \in 1 .. (i - 1)
    BY <1>1
  <2> QED BY <2>1
<1> QED BY <1>1, <1>5, <1>7, <1>8 DEF Reached, Alike

\* A whole level of equal characters.
LEMMA AlikeCovers ==
  ASSUME NEW f \in Seq(Char), NEW n \in Seq(Char), NEW x, NEW y, NEW i,
         Reached(f, n, x, y, FALSE, i), Alike(f, n, x, y, i),
         x = Cuts(f)[i + 1], y = Cuts(n)[i + 1]
  PROVE  Covered(f, n, i)
  BY LevelsAlike DEF Covered, Alike, Reached

----------------------------------------------------------------------------
(* What the steps of the loop do to its place.                             *)

\* StepOver: equal characters, both separators or neither.
LEMMA OverOne ==
  ASSUME NEW f \in Seq(Char), NEW n \in Seq(Char), NEW x, NEW y, NEW i,
         Reached(f, n, x, y, FALSE, i), x <= Len(f), y <= Len(n),
         f[x] = n[y], f[x] \notin {"+", "#"}
  PROVE  \E j : Reached(f, n, x + 1, y + 1, FALSE, j)
<1>1. PICK a, b, u, v : a = Cuts(f)[i] /\ b = Cuts(f)[i + 1] /\ u = Cuts(n)[i] /\ v = Cuts(n)[i + 1]
  OBVIOUS
<1>2. /\ a \in Nat /\ b \in Nat /\ u \in Nat /\ v \in Nat
      /\ x \in Nat /\ a < x /\ x <= b /\ y \in Nat /\ u < y /\ y <= v
      /\ x < b => f[x] # "/"
      /\ x = b => i + 1 \in 1 .. (Len(Cuts(f)) - 1) /\ f[x] = "/"
      /\ y < v => n[y] # "/"
      /\ y = v => i + 1 \in 1 .. (Len(Cuts(n)) - 1) /\ n[y] = "/"
  <2>1. Around(f, n, x, y, i, a, b, u, v)
    BY <1>1, AtLevel
  <2> QED BY <2>1 DEF Around
<1>3. /\ i \in 1 .. (Len(Cuts(f)) - 1) /\ i \in 1 .. (Len(Cuts(n)) - 1) /\ i \in Nat /\ i > 0
      /\ \A j \in 1 .. (i - 1) : Covered(f, n, j)
      /\ Alike(f, n, x, y, i) \/ PastPlus(f, n, x, y, i)
  BY DEF Reached
<1>4. x = b <=> y = v
  BY <1>2
<1>5. CASE x = b
  <2>1. Covered(f, n, i)
    <3>1. CASE Alike(f, n, x, y, i)
      BY <1>1, <1>4, <1>5, <3>1, AlikeCovers
    <3>2. CASE PastPlus(f, n, x, y, i)
      BY <3>2 DEF PastPlus, Covered
    <3> QED BY <1>3, <3>1, <3>2
  <2>2. Reached(f, n, b + 1, v + 1, FALSE, i + 1)
    BY <1>1, <1>2, <1>3, <1>4, <1>5, <2>1, ReachedNext
  <2> QED BY <1>4, <1>5, <2>2
<1>6. CASE x < b
  <2>1. y < v /\ x + 1 \in (a + 1) .. b /\ y + 1 \in (u + 1) .. v
    BY <1>2, <1>4, <1>6
  <2>2. x - a = y - u /\ \A t \in 1 .. (x - a - 1) : f[a + t] = n[u + t] /\ f[a + t] \notin {"+", "#"}
    <3>1. ~PastPlus(f, n, x, y, i)
      BY <1>1, <1>2, <2>1 DEF PastPlus
    <3> QED BY <1>1, <1>3, <3>1 DEF Alike
  <2>3. (x + 1) - a = (y + 1) - u
    BY <1>2, <2>2
  <2>4. ASSUME NEW t \in 1 .. ((x + 1) - a - 1)
        PROVE  f[a + t] = n[u + t] /\ f[a + t] \notin {"+", "#"}
    <3>1. CASE t \in 1 .. (x - a - 1)
      BY <2>2, <3>1
    <3>2. CASE t = x - a
      <4>1. a + t = x /\ u + t = y
        BY <1>2, <2>2, <3>2
      <4> QED BY <4>1
    <3> QED BY <1>2, <3>1, <3>2
  <2>5. Alike(f, n, x + 1, y + 1, i)
    BY <1>1, <2>3, <2>4 DEF Alike
  <2>6. Reached(f, n, x + 1, y + 1, FALSE, i)
    BY <1>1, <1>3, <2>1, <2>5 DEF Reached
  <2> QED BY <2>6
<1>7. x = b \/ x < b
  BY <1>2
<1> QED BY <1>5, <1>6, <1>7

\* A wildcard the loop comes to in a well-formed filter begins its level, and no
\* wildcard stands behind a level.
IsWildcard(f, n, x, y, i, w) ==
  /\ x = Cuts(f)[i] + 1 /\ x + 1 = Cuts(f)[i + 1] /\ y = Cuts(n)[i] + 1
  /\ Levels(f)[i] = <<w>> /\ (w = "#" => i = Len(Cuts(f)) - 1)

\* At a wildcard of a well-formed filter the loop is at the beginning of a level.
LEMMA AtWildcard ==
  ASSUME NEW f \in Seq(Char), WellFormed(f), NEW n \in Seq(Char), NEW x, NEW y, NEW i,
         Reached(f, n, x, y, FALSE, i), x <= Len(f), NEW w, w = f[x], w \in {"+", "#"}
  PROVE  IsWildcard(f, n, x, y, i, w)
<1>1. PICK a, b, u, v : a = Cuts(f)[i] /\ b = Cuts(f)[i + 1] /\ u = Cuts(n)[i] /\ v = Cuts(n)[i + 1]
  OBVIOUS
<1>2. /\ a \in Nat /\ b \in Nat /\ u \in Nat /\ v \in Nat
      /\ x \in Nat /\ a < x /\ x <= b /\ y \in Nat
      /\ x = b => f[x] = "/"
  <2>1. Around(f, n, x, y, i, a, b, u, v)
    BY <1>1, AtLevel
  <2> QED BY <2>1 DEF Around
<1>3. x < b
  BY <1>2
<1>4. i \in 1 .. (Len(Cuts(f)) - 1)
  BY DEF Reached
<1>5. x \in (a + 1) .. (b - 1)
  BY <1>2, <1>3
<1>6. x = a + 1 /\ Levels(f)[i] = <<w>> /\ (w = "#" => i = Len(Cuts(f)) - 1)
  <2>1. /\ f[x] = "+" => x = a + 1 /\ Levels(f)[i] = Plus
        /\ f[x] = "#" => x = a + 1 /\ Levels(f)[i] = Hash /\ i = Len(Cuts(f)) - 1
    BY <1>1, <1>4, <1>5, WildcardAlone
  <2> QED BY <2>1 DEF Plus, Hash
<1>7. w \in Char
  BY CharAssumption
<1>8. b = a + 2
  <2>1. Levels(f)[i] = <<w>> <=> Cuts(f)[i + 1] = Cuts(f)[i] + 2 /\ f[Cuts(f)[i] + 1] = w
    BY <1>4, <1>7, LevelOfOne
  <2> QED BY <1>1, <1>6, <2>1
<1>9. Alike(f, n, x, y, i)
  <2>1. ~PastPlus(f, n, x, y, i)
    BY <1>1, <1>2, <1>3, <1>8 DEF PastPlus
  <2> QED BY <2>1 DEF Reached
<1>10. y = u + 1
  <2>1. x - a = y - u
    BY <1>1, <1>9 DEF Alike
  <2> QED BY <1>2, <1>6, <2>1
<1>11. x + 1 = b
  BY <1>2, <1>6, <1>8
<1> QED BY <1>1, <1>6, <1>10, <1>11 DEF IsWildcard

\* EnterPlus.
LEMMA IntoPlus ==
  ASSUME NEW f \in Seq(Char), WellFormed(f), NEW n \in Seq(Char), NEW x, NEW y, NEW i,
         Reached(f, n, x, y, FALSE, i), x <= Len(f), y <= Len(n), f[x] = "+", n[y] # "/"
  PROVE  Reached(f, n, x, y, TRUE, i)
<1>1. PICK a, b, u, v : a = Cuts(f)[i] /\ b = Cuts(f)[i + 1] /\ u = Cuts(n)[i] /\ v = Cuts(n)[i + 1]
  OBVIOUS
<1>2. y \in Nat /\ v \in Nat /\ y <= v /\ (y = v => n[y] = "/")
  <2>1. Around(f, n, x, y, i, a, b, u, v)
    BY <1>1, AtLevel
  <2> QED BY <2>1 DEF Around
<1>3. y < v
  BY <1>2
<1>4. IsWildcard(f, n, x, y, i, f[x])
  BY AtWildcard
<1>5. x = Cuts(f)[i] + 1 /\ Levels(f)[i] = Plus
  BY <1>4 DEF IsWildcard, Plus
<1>6. AtPlus(f, n, x, y, i)
  BY <1>1, <1>3, <1>5 DEF AtPlus
<1> QED BY <1>6 DEF Reached

\* Skip.
LEMMA AlongPlus ==
  ASSUME NEW f \in Seq(Char), NEW n \in Seq(Char), NEW x, NEW y, NEW i,
         Reached(f, n, x, y, TRUE, i), y + 1 <= Len(n), n[y + 1] # "/"
  PROVE  Reached(f, n, x, y + 1, TRUE, i)
<1>1. PICK c, u, v : c = Cuts(n) /\ u = c[i] /\ v = c[i + 1]
  OBVIOUS
<1>2. u \in Nat /\ v \in Nat /\ y \in Nat /\ u < y /\ y <= v
  <2>1. Around(f, n, x, y, i, Cuts(f)[i], Cuts(f)[i + 1], u, v)
    BY <1>1, AtLevel
  <2> QED BY <2>1 DEF Around
<1>3. AtPlus(f, n, x, y, i) /\ y < v /\ i \in 1 .. (Len(c) - 1)
  BY <1>1 DEF Reached, AtPlus
<1>4. y + 1 \in (u + 1) .. v
  BY <1>2, <1>3
<1>5. y + 1 = v => n[y + 1] = "/"
  BY <1>1, <1>3, <1>4, Place
<1>6. y + 1 < v
  BY <1>2, <1>3, <1>5
<1>7. AtPlus(f, n, x, y + 1, i)
  BY <1>1, <1>3, <1>6 DEF AtPlus
<1> QED BY <1>1, <1>4, <1>7 DEF Reached

\* LeavePlus.
LEMMA OutOfPlus ==
  ASSUME NEW f \in Seq(Char), NEW n \in Seq(Char), NEW x, NEW y, NEW i,
         Reached(f, n, x, y, TRUE, i), y + 1 > Len(n) \/ n[y + 1] = "/"
  PROVE  Reached(f, n, x + 1, y + 1, FALSE, i)
<1>1. PICK c, u, v : c = Cuts(n) /\ u = c[i] /\ v = c[i + 1]
  OBVIOUS
<1>2. u \in Nat /\ v \in Nat /\ y \in Nat /\ u < y /\ y <= v
  <2>1. Around(f, n, x, y, i, Cuts(f)[i], Cuts(f)[i + 1], u, v)
    BY <1>1, AtLevel
  <2> QED BY <2>1 DEF Around
<1>3. AtPlus(f, n, x, y, i) /\ y < v /\ i \in 1 .. (Len(c) - 1) /\ i \in 1 .. (Len(Cuts(f)) - 1)
  BY <1>1 DEF Reached, AtPlus
<1>4. y + 1 \in (u + 1) .. v
  BY <1>2, <1>3
<1>5. y + 1 < v => y + 1 <= Len(n) /\ n[y + 1] # "/"
  BY <1>1, <1>3, <1>4, Place
<1>6. y + 1 = v
  <2>1. y + 1 \in Nat /\ Len(n) \in Nat
    BY <1>2
  <2> QED BY <1>2, <1>3, <1>5, <2>1
<1>7. PICK a, b : a = Cuts(f)[i] /\ b = Cuts(f)[i + 1]
  OBVIOUS
<1>8. a \in Nat /\ x = a + 1 /\ b = a + 2 /\ Levels(f)[i] = Plus
  <2>1. a \in Nat /\ x = a + 1 /\ Levels(f)[i] = Plus
    BY <1>3, <1>7, CutStep DEF AtPlus
  <2>2. "+" \in Char
    BY CharAssumption
  <2> QED BY <1>3, <1>7, <2>1, <2>2, LevelOfOne DEF Plus
<1>9. x + 1 \in (a + 1) .. b /\ x + 1 = a + 2
  BY <1>8
<1>10. PastPlus(f, n, x + 1, y + 1, i)
  BY <1>1, <1>6, <1>7, <1>8, <1>9 DEF PastPlus
<1> QED BY <1>1, <1>4, <1>7, <1>9, <1>10 DEF Reached

\* StepOverHash: the rest of the name is covered.
LEMMA OverHash ==
  ASSUME NEW f \in Seq(Char), WellFormed(f), NEW n \in Seq(Char), NEW x, NEW y, NEW i,
         Reached(f, n, x, y, FALSE, i), x <= Len(f), f[x] = "#"
  PROVE  x + 1 = Len(f) + 1 /\ MQTTMatches(f, n)
<1>1. Levels(f)[i] = Hash /\ i = Len(Cuts(f)) - 1 /\ x + 1 = Cuts(f)[i + 1]
  <2>1. IsWildcard(f, n, x, y, i, f[x])
    BY AtWildcard
  <2> QED BY <2>1 DEF IsWildcard, Hash
<1>2. Len(Levels(f)) = Len(Cuts(f)) - 1 /\ Len(Levels(n)) = Len(Cuts(n)) - 1
      /\ Len(Cuts(f)) \in Nat /\ Len(Cuts(n)) \in Nat
  BY LevelCount
<1>3. Cuts(f)[i + 1] = Len(f) + 1
  <2>1. i + 1 = Len(Cuts(f))
    BY <1>1, <1>2
  <2> QED BY <2>1, CutsAreCut DEF IsCut
<1>4. i \in 1 .. (Len(Cuts(n)) - 1) /\ \A j \in 1 .. (i - 1) : Covered(f, n, j)
  BY DEF Reached
<1>5. PICK k, m : k = Len(Levels(f)) /\ m = Len(Levels(n))
  OBVIOUS
<1>6. i = k /\ m >= k - 1
  BY <1>1, <1>2, <1>4, <1>5
<1>7. Last(Levels(f)) = Hash
  BY <1>1, <1>5, <1>6 DEF Last
<1>8. \A j \in 1 .. (k - 1) : Levels(f)[j] = Plus \/ Levels(f)[j] = Levels(n)[j]
  BY <1>4, <1>6 DEF Covered
<1> QED BY <1>1, <1>3, <1>5, <1>6, <1>7, <1>8 DEF MQTTMatches

----------------------------------------------------------------------------
(* What the loop has found out when it ends.                               *)

\* Both strings were passed to their ends: they match.
LEMMA PassedAll ==
  ASSUME NEW f \in Seq(Char), NEW n \in Seq(Char), NEW i,
         Reached(f, n, Len(f) + 1, Len(n) + 1, FALSE, i)
  PROVE  MQTTMatches(f, n)
<1>1. PICK x, y : x = Len(f) + 1 /\ y = Len(n) + 1
  OBVIOUS
<1>2. Reached(f, n, x, y, FALSE, i)
  BY <1>1
<1>3. PICK a, b, u, v : a = Cuts(f)[i] /\ b = Cuts(f)[i + 1] /\ u = Cuts(n)[i] /\ v = Cuts(n)[i + 1]
  OBVIOUS
<1>4. Around(f, n, x, y, i, a, b, u, v)
  BY <1>2, <1>3, AtLevel
<1>5. x = b /\ y = v /\ i = Len(Cuts(f)) - 1 /\ i = Len(Cuts(n)) - 1
  BY <1>1, <1>4 DEF Around
<1>6. Alike(f, n, x, y, i) \/ PastPlus(f, n, x, y, i)
  BY <1>2 DEF Reached
<1>7. Covered(f, n, i)
  <2>1. CASE Alike(f, n, x, y, i)
    BY <1>2, <1>3, <1>5, <2>1, AlikeCovers
  <2>2. CASE PastPlus(f, n, x, y, i)
    BY <2>2 DEF PastPlus, Covered
  <2> QED BY <1>6, <2>1, <2>2
<1>8. PICK k, m : k = Len(Levels(f)) /\ m = Len(Levels(n))
  OBVIOUS
<1>9. k = i /\ m = i /\ k \in Nat
  BY <1>5, <1>8, LevelCount
<1>10. \A j \in 1 .. k : Covered(f, n, j)
  <2> SUFFICES ASSUME NEW j \in 1 .. k PROVE Covered(f, n, j)
    OBVIOUS
  <2>1. j = i \/ j \in 1 .. (i - 1)
    BY <1>9
  <2>2. \A t \in 1 .. (i - 1) : Covered(f, n, t)
    BY <1>2 DEF Reached
  <2> QED BY <1>7, <2>1, <2>2
<1>11. /\ \A j \in 1 .. k : Levels(f)[j] = Plus \/ Levels(f)[j] = Levels(n)[j]
       /\ \A j \in 1 .. (k - 1) : Levels(f)[j] = Plus \/ Levels(f)[j] = Levels(n)[j]
       /\ m = k /\ m >= k - 1
  BY <1>9, <1>10 DEF Covered
<1> QED BY <1>8, <1>11 DEF MQTTMatches

Ongoing(f, n, x, y) ==
  /\ x <= Len(f) /\ y <= Len(n)
  /\ ~(n[y] = "/" /\ f[x] # "/")
  /\ f[x] \in {"+", "#", n[y]}

\* Filter and name are at the end of their i-th level.
AtEnds(f, n, x, y, i) == x = Cuts(f)[i + 1] /\ y = Cuts(n)[i + 1]

\* In a level that is covered the loop goes on, up to the end of the level in both strings.
LEMMA GoesOn ==
  ASSUME NEW f \in Seq(Char), NEW n \in Seq(Char), NEW x, NEW y, NEW i,
         Reached(f, n, x, y, FALSE, i), Covered(f, n, i), Levels(n)[i] # <<>>,
         ~Ongoing(f, n, x, y)
  PROVE  AtEnds(f, n, x, y, i)
<1>1. PICK a, b, u, v : a = Cuts(f)[i] /\ b = Cuts(f)[i + 1] /\ u = Cuts(n)[i] /\ v = Cuts(n)[i + 1]
  OBVIOUS
<1>2. Around(f, n, x, y, i, a, b, u, v)
  BY <1>1, AtLevel
<1>3. /\ a \in Nat /\ b \in Nat /\ u \in Nat /\ v \in Nat /\ a < b /\ u < v
      /\ x \in Nat /\ a < x /\ x <= b /\ y \in Nat /\ u < y /\ y <= v
      /\ x < b => x <= Len(f) /\ f[x] # "/"
      /\ y < v => y <= Len(n) /\ n[y] # "/"
  BY <1>2 DEF Around
<1>4. i \in 1 .. (Len(Cuts(f)) - 1) /\ i \in 1 .. (Len(Cuts(n)) - 1)
  BY DEF Reached
<1>5. Alike(f, n, x, y, i) \/ PastPlus(f, n, x, y, i)
  BY DEF Reached
<1>6. "+" \in Char
  BY CharAssumption
<1>7. v # u + 1
  BY <1>1, <1>4, <1>6, LevelOfOne
<1>8. CASE Alike(f, n, x, y, i)
  <2>1. x - a = y - u /\ \A t \in 1 .. (x - a - 1) : f[a + t] \notin {"+", "#"}
    BY <1>1, <1>8 DEF Alike
  <2>2. CASE Levels(f)[i] = Levels(n)[i]
    <3>1. b - a = v - u /\ \A t \in 1 .. (b - a - 1) : f[a + t] = n[u + t]
      BY <1>1, <1>4, <2>2, LevelsAlike
    <3>2. CASE x < b
      <4>1. y < v
        BY <1>3, <2>1, <3>1, <3>2
      <4>2. x - a \in 1 .. (b - a - 1) /\ a + (x - a) = x /\ u + (x - a) = y
        BY <1>3, <2>1, <3>2
      <4>3. f[x] = n[y]
        BY <3>1, <4>2
      <4> QED BY <1>3, <3>2, <4>1, <4>3 DEF Ongoing
    <3>3. CASE x = b
      BY <1>1, <1>3, <2>1, <3>1, <3>3 DEF AtEnds
    <3> QED BY <1>3, <3>2, <3>3
  <2>3. CASE Levels(f)[i] = Plus
    <3>1. b = a + 2 /\ f[a + 1] = "+"
      <4>1. Levels(f)[i] = <<"+">> <=> Cuts(f)[i + 1] = Cuts(f)[i] + 2 /\ f[Cuts(f)[i] + 1] = "+"
        BY <1>4, <1>6, LevelOfOne
      <4> QED BY <1>1, <2>3, <4>1 DEF Plus
    <3>2. x = a + 1
      <4>1. 1 \notin 1 .. (x - a - 1)
        BY <2>1, <3>1
      <4> QED BY <1>3, <3>1, <4>1
    <3>3. y < v /\ x < b
      <4>1. x < b
        BY <1>3, <3>1, <3>2
      <4>2. y = u + 1
        BY <1>3, <2>1, <3>2
      <4> QED BY <1>3, <1>7, <4>1, <4>2
    <3> QED BY <1>3, <3>1, <3>2, <3>3 DEF Ongoing
  <2> QED BY <2>2, <2>3 DEF Covered
<1>9. CASE PastPlus(f, n, x, y, i)
  <2>1. Levels(f)[i] = Plus /\ x = a + 2 /\ y = v
    BY <1>1, <1>9 DEF PastPlus
  <2>2. b = a + 2
    BY <1>1, <1>4, <1>6, <2>1, LevelOfOne DEF Plus
  <2> QED BY <1>1, <2>1, <2>2 DEF AtEnds
<1> QED BY <1>5, <1>8, <1>9

\* Where a match was to be found, the loop does not stop before the ends.
LEMMA StopsAtEnd ==
  ASSUME NEW f \in Seq(Char), NEW n \in Seq(Char), NEW x, NEW y, NEW i,
         Reached(f, n, x, y, FALSE, i), ~Ongoing(f, n, x, y),
         MQTTMatches(f, n), ~HashForNothing(f, n),
         \A j \in 1 .. Len(Levels(n)) : Levels(n)[j] # <<>>
  PROVE  x = Len(f) + 1 /\ y = Len(n) + 1
<1>1. PICK a, b, u, v : a = Cuts(f)[i] /\ b = Cuts(f)[i + 1] /\ u = Cuts(n)[i] /\ v = Cuts(n)[i + 1]
  OBVIOUS
<1>2. Around(f, n, x, y, i, a, b, u, v)
  BY <1>1, AtLevel
<1>3. PICK k, m : k = Len(Levels(f)) /\ m = Len(Levels(n))
  OBVIOUS
<1>4. /\ k \in Nat /\ m \in Nat /\ k = Len(Cuts(f)) - 1 /\ m = Len(Cuts(n)) - 1
      /\ i \in 1 .. k /\ i \in 1 .. m /\ i \in Nat
  <2>1. k \in Nat /\ k = Len(Cuts(f)) - 1
    BY <1>3, LevelCount
  <2>2. m \in Nat /\ m = Len(Cuts(n)) - 1
    BY <1>3, LevelCount
  <2>3. i \in 1 .. k /\ i \in 1 .. m
    BY <2>1, <2>2 DEF Reached
  <2> QED BY <2>1, <2>2, <2>3
<1>5. \/ Levels(f)[k] # Hash /\ m = k /\ \A j \in 1 .. k : Covered(f, n, j)
      \/ Levels(f)[k] = Hash /\ m >= k /\ \A j \in 1 .. (k - 1) : Covered(f, n, j)
  <2>1. CASE Levels(f)[k] # Hash
    BY <1>3, <2>1 DEF MQTTMatches, Last, Covered
  <2>2. CASE Levels(f)[k] = Hash
    <3>1. ~(m < k)
      BY <1>3, <2>2 DEF HashForNothing, Last
    <3>2. \A j \in 1 .. (k - 1) : Covered(f, n, j)
      BY <1>3, <2>2 DEF MQTTMatches, Last, Covered
    <3> QED BY <1>4, <2>2, <3>1, <3>2
  <2> QED BY <2>1, <2>2
<1>6. Levels(n)[i] # <<>>
  BY <1>3, <1>4
<1>7. CASE Covered(f, n, i) /\ (i < k \/ m = k)
  <2>1. x = b /\ y = v
    <3>1. Covered(f, n, i)
      BY <1>7
    <3>2. AtEnds(f, n, x, y, i)
      BY <1>6, <3>1, GoesOn
    <3> QED BY <1>1, <3>2 DEF AtEnds
  <2>2. /\ x \in Nat /\ y \in Nat /\ x <= Len(f) + 1 /\ y <= Len(n) + 1
        /\ x <= Len(f) => i + 1 \in 1 .. k /\ f[x] = "/"
        /\ x = Len(f) + 1 => i = k
        /\ y <= Len(n) => i + 1 \in 1 .. m /\ n[y] = "/"
        /\ y = Len(n) + 1 => i = m
    BY <1>2, <1>4, <2>1 DEF Around
  <2>3. Len(f) \in Nat /\ Len(n) \in Nat
    OBVIOUS
  <2>4. ~(x <= Len(f) /\ y <= Len(n))
    BY <2>2 DEF Ongoing
  <2>5. (x <= Len(f) => i < k) /\ (y <= Len(n) => i < m)
    BY <1>4, <2>2
  <2>6. k <= m
    BY <1>4, <1>5
  <2>7. CASE x <= Len(f)
    BY <1>4, <2>2, <2>3, <2>4, <2>5, <2>6, <2>7
  <2>8. CASE x = Len(f) + 1
    BY <1>4, <1>7, <2>2, <2>3, <2>5, <2>8
  <2> QED BY <2>2, <2>3, <2>7, <2>8
<1>8. CASE Levels(f)[k] = Hash /\ i = k
  <2>1. "#" \in Char /\ "+" \in Char
    BY CharAssumption
  <2>2. i \in 1 .. (Len(Cuts(f)) - 1) /\ i \in 1 .. (Len(Cuts(n)) - 1)
    BY <1>4
  <2>3. b = a + 2 /\ f[a + 1] = "#"
    <3>1. Levels(f)[i] = <<"#">> <=> Cuts(f)[i + 1] = Cuts(f)[i] + 2 /\ f[Cuts(f)[i] + 1] = "#"
      BY <2>1, <2>2, LevelOfOne
    <3> QED BY <1>1, <1>8, <3>1 DEF Hash
  <2>4. v # u + 1
    <3>1. Levels(n)[i] = <<>> <=> Cuts(n)[i + 1] = Cuts(n)[i] + 1
      BY <2>1, <2>2, LevelOfOne
    <3> QED BY <1>1, <1>6, <3>1
  <2>5. Alike(f, n, x, y, i)
    <3>1. Levels(f)[i] # Plus
      BY <1>8 DEF Hash, Plus
    <3> QED BY <3>1 DEF Reached, PastPlus
  <2>6. x - a = y - u /\ \A t \in 1 .. (x - a - 1) : f[a + t] \notin {"+", "#"}
    BY <1>1, <2>5 DEF Alike
  <2>7. /\ a \in Nat /\ b \in Nat /\ u \in Nat /\ v \in Nat /\ u < v
        /\ x \in Nat /\ a < x /\ x <= b /\ y \in Nat /\ u < y /\ y <= v
        /\ x < b => x <= Len(f) /\ f[x] # "/"
        /\ y < v => y <= Len(n) /\ n[y] # "/"
    BY <1>2 DEF Around
  <2>8. x = a + 1
    <3>1. 1 \notin 1 .. (x - a - 1)
      BY <2>3, <2>6
    <3> QED BY <2>3, <2>7, <3>1
  <2>9. y < v /\ x < b
    BY <2>3, <2>4, <2>6, <2>7, <2>8
  <2> QED BY <2>3, <2>7, <2>8, <2>9 DEF Ongoing
<1>9. \/ Covered(f, n, i) /\ (i < k \/ m = k)
      \/ Levels(f)[k] = Hash /\ i = k
  <2>1. i = k \/ i \in 1 .. (k - 1)
    BY <1>4
  <2>2. i \in 1 .. (k - 1) => i < k
    BY <1>4
  <2> QED BY <1>4, <1>5, <2>1, <2>2
<1> QED BY <1>7, <1>8, <1>9

----------------------------------------------------------------------------
(* The theorems.                                                           *)

\* InBounds is an invariant for all filters and names, well-formed or not: the
\* pointers of isTopicMatched never leave the filter and the name.
THEOREM PointersInBounds == Spec => []InBounds
<1>1. Init => InBounds
  <2> SUFFICES ASSUME Init PROVE InBounds
    OBVIOUS
  <2>1. Len(topicFilter) \in Nat /\ Len(topicName) \in Nat
    BY CharAssumption DEF Init
  <2>2. curf \in 1..Len(topicFilter) + 1 /\ curn \in 1..curn_end
    BY <2>1 DEF Init, curn_end
  <2>3. skipping \in BOOLEAN /\ ~skipping /\ result \in {"none", "match", "differ"}
    BY DEF Init
  <2> QED BY <2>2, <2>3 DEF Init, InBounds
<1>2. InBounds /\ [Next]_vars => InBounds'
  <2> SUFFICES ASSUME InBounds, [Next]_vars PROVE InBounds'
    OBVIOUS
  <2> USE DEF InBounds, curn_end
  <2>1. Len(topicFilter) \in Nat /\ Len(topicName) \in Nat
    BY CharAssumption
  <2>2. CASE StepOver
    BY <2>1, <2>2 DEF StepOver, Looping, StepPast
  <2>3. CASE StepOverHash
    BY <2>1, <2>3 DEF StepOverHash, Looping, StepPast
  <2>4. CASE EnterPlus
    BY <2>1, <2>4 DEF EnterPlus, Looping
  <2>5. CASE Skip
    BY <2>1, <2>5 DEF Skip, SkipsOn
  <2>6. CASE LeavePlus
    <3>1. curf' \in 1..Len(topicFilter') + 1 /\ curn' \in 1..curn_end'
      BY <2>1, <2>6 DEF LeavePlus, StepPast
    <3>2. skipping' \in BOOLEAN /\ ~skipping'
      BY <2>6 DEF LeavePlus
    <3> QED BY <2>6, <3>1, <3>2 DEF LeavePlus
  <2>7. CASE Return
    BY <2>7 DEF Return
  <2>8. CASE UNCHANGED vars
    BY <2>8 DEF vars
  <2> QED BY <2>2, <2>3, <2>4, <2>5, <2>6, <2>7, <2>8 DEF Next
<1> QED BY <1>1, <1>2, PTL DEF Spec

Ended == curf = Len(topicFilter) + 1 /\ curn = Len(topicName) + 1

\* The inductive invariant: on a well-formed filter the loop is in some level, or past
\* a `#' that has covered the rest; and a result was returned where the loop had stopped.
MatchInv ==
  /\ WellFormed(topicFilter) =>
       \/ ~skipping /\ Ended /\ MQTTMatches(topicFilter, topicName)
       \/ \E i : Reached(topicFilter, topicName, curf, curn, skipping, i)
  /\ skipping => result = "none"
  /\ result # "none" => ~Ongoing(topicFilter, topicName, curf, curn)
  /\ result # "none" => (result = "match" <=> Ended)

\* The condition of the loop and its two breaks, as a function of the positions.
LEMMA GuardOfLoop ==
  ASSUME InBounds
  PROVE  Looping /\ ~Breaks <=>
           result = "none" /\ ~skipping /\ Ongoing(topicFilter, topicName, curf, curn)
<1>1. Len(topicName) \in Nat /\ curn \in Nat
  BY CharAssumption DEF InBounds, curn_end
<1>2. curn < curn_end <=> curn <= Len(topicName)
  BY <1>1 DEF curn_end
<1> QED BY <1>2 DEF Looping, Breaks, Ongoing

\* MatchInv holds at the beginning, ...
LEMMA MatchInvInit ==
  ASSUME Init PROVE MatchInv
<1>1. topicFilter \in Seq(Char) /\ topicName \in Seq(Char)
  BY CharAssumption DEF Init
<1>2. Reached(topicFilter, topicName, 1, 1, FALSE, 1)
  BY <1>1, ReachedFirst
<1>3. skipping = FALSE /\ curf = 1 /\ curn = 1 /\ result = "none"
  BY DEF Init
<1>4. Reached(topicFilter, topicName, curf, curn, skipping, 1)
  BY <1>2, <1>3
<1> QED BY <1>3, <1>4 DEF MatchInv

\* ... and every step preserves it.
LEMMA MatchInvNext ==
  ASSUME InBounds, MatchInv, [Next]_vars PROVE MatchInv'
<1>1. topicFilter \in Seq(Char) /\ topicName \in Seq(Char) /\ skipping \in BOOLEAN
  BY CharAssumption DEF InBounds
<1>2. PICK f \in Seq(Char), n \in Seq(Char) : f = topicFilter /\ n = topicName
  BY <1>1
<1>3. /\ WellFormed(f) =>
           \/ ~skipping /\ Ended /\ MQTTMatches(f, n)
           \/ \E i : Reached(f, n, curf, curn, skipping, i)
      /\ skipping => result = "none"
      /\ result # "none" => ~Ongoing(f, n, curf, curn)
      /\ result # "none" => (result = "match" <=> Ended)
  BY <1>2 DEF MatchInv
<1>4. f = topicFilter' /\ n = topicName'
  BY <1>2 DEF Next, vars, StepOver, StepOverHash, EnterPlus, Skip, LeavePlus, Return
<1>5. SUFFICES
        /\ WellFormed(f) =>
             \/ ~skipping' /\ Ended' /\ MQTTMatches(f, n)
             \/ \E i : Reached(f, n, curf', curn', skipping', i)
        /\ skipping' => result' = "none"
        /\ result' # "none" => ~Ongoing(f, n, curf', curn')
        /\ result' # "none" => (result' = "match" <=> Ended')
  BY <1>4 DEF MatchInv
<1>6. Ended => ~Ongoing(f, n, curf, curn)
  <2>1. Len(f) \in Nat
    OBVIOUS
  <2> QED BY <1>2, <2>1 DEF Ended, Ongoing
<1>7. Looping /\ ~Breaks => result = "none" /\ skipping = FALSE /\ Ongoing(f, n, curf, curn)
  BY <1>1, <1>2, GuardOfLoop
<1>8. ASSUME WellFormed(f), Looping, ~Breaks
      PROVE  \E i : Reached(f, n, curf, curn, FALSE, i)
  BY <1>3, <1>6, <1>7, <1>8
<1>9. CASE StepOver
  <2>1. /\ Looping /\ ~Breaks /\ f[curf] \notin {"+", "#"}
        /\ curf' = curf + 1 /\ curn' = curn + 1 /\ skipping' = skipping /\ result' = result
    BY <1>2, <1>9 DEF StepOver, StepPast
  <2>2. curf <= Len(f) /\ curn <= Len(n) /\ f[curf] = n[curn] /\ result' = "none" /\ skipping' = FALSE
    BY <1>7, <2>1 DEF Ongoing
  <2>3. ASSUME WellFormed(f) PROVE \E i : Reached(f, n, curf', curn', FALSE, i)
    <3>1. PICK i : Reached(f, n, curf, curn, FALSE, i)
      BY <1>8, <2>1, <2>3
    <3>2. \E j : Reached(f, n, curf + 1, curn + 1, FALSE, j)
      BY <2>1, <2>2, <3>1, OverOne
    <3> QED BY <2>1, <3>2
  <2> QED BY <2>2, <2>3
<1>10. CASE StepOverHash
  <2>1. /\ Looping /\ ~Breaks /\ f[curf] = "#" /\ skipping' = skipping /\ result' = result
        /\ curf' = curf + 1 /\ curn' = curn_end - 1 + 1
    BY <1>2, <1>10 DEF StepOverHash, StepPast
  <2>2. curf <= Len(f) /\ result' = "none" /\ skipping' = FALSE
    BY <1>7, <2>1 DEF Ongoing
  <2>3. ASSUME WellFormed(f) PROVE Ended' /\ MQTTMatches(f, n)
    <3>1. PICK i : Reached(f, n, curf, curn, FALSE, i)
      BY <1>8, <2>1, <2>3
    <3>2. curf + 1 = Len(f) + 1 /\ MQTTMatches(f, n)
      BY <2>1, <2>2, <2>3, <3>1, OverHash
    <3>3. curn' = Len(n) + 1
      <4>1. Len(n) \in Nat
        OBVIOUS
      <4> QED BY <1>2, <2>1, <4>1 DEF curn_end
    <3> QED BY <1>4, <2>1, <3>2, <3>3 DEF Ended
  <2> QED BY <2>2, <2>3
<1>11. CASE EnterPlus
  <2>1. /\ Looping /\ ~Breaks /\ f[curf] = "+" /\ skipping' = TRUE /\ result' = result
        /\ curf' = curf /\ curn' = curn
    BY <1>2, <1>11 DEF EnterPlus
  <2>2. curf <= Len(f) /\ curn <= Len(n) /\ n[curn] # "/" /\ result' = "none"
    BY <1>7, <2>1 DEF Ongoing
  <2>3. ASSUME WellFormed(f) PROVE \E i : Reached(f, n, curf', curn', TRUE, i)
    <3>1. PICK i : Reached(f, n, curf, curn, FALSE, i)
      BY <1>8, <2>1, <2>3
    <3>2. Reached(f, n, curf, curn, TRUE, i)
      BY <2>1, <2>2, <2>3, <3>1, IntoPlus
    <3> QED BY <2>1, <3>2
  <2> QED BY <2>1, <2>2, <2>3
<1>12. skipping /\ WellFormed(f) => \E i : Reached(f, n, curf, curn, TRUE, i)
  BY <1>1, <1>3
<1>13. Len(n) \in Nat /\ curn \in Nat /\ (curn + 1 < curn_end <=> curn + 1 <= Len(n))
  <2>1. Len(n) \in Nat
    OBVIOUS
  <2> QED BY <1>2, <2>1 DEF InBounds, curn_end
<1>14. CASE Skip
  <2>1. /\ skipping /\ curn + 1 <= Len(n) /\ n[curn + 1] # "/" /\ skipping' = skipping
        /\ curf' = curf /\ curn' = curn + 1 /\ result' = result
    BY <1>2, <1>13, <1>14 DEF Skip, SkipsOn
  <2>2. result' = "none" /\ skipping' = TRUE
    BY <1>1, <1>3, <2>1
  <2>3. ASSUME WellFormed(f) PROVE \E i : Reached(f, n, curf', curn', TRUE, i)
    <3>1. PICK i : Reached(f, n, curf, curn, TRUE, i)
      BY <1>12, <2>1, <2>3
    <3>2. Reached(f, n, curf, curn + 1, TRUE, i)
      BY <2>1, <3>1, AlongPlus
    <3> QED BY <2>1, <3>2
  <2> QED BY <2>2, <2>3
<1>15. CASE LeavePlus
  <2>1. /\ skipping /\ (curn + 1 > Len(n) \/ n[curn + 1] = "/") /\ skipping' = FALSE
        /\ curf' = curf + 1 /\ curn' = curn + 1 /\ result' = result
    BY <1>2, <1>13, <1>15 DEF LeavePlus, SkipsOn, StepPast
  <2>2. result' = "none"
    BY <1>3, <2>1
  <2>3. ASSUME WellFormed(f) PROVE \E i : Reached(f, n, curf', curn', FALSE, i)
    <3>1. PICK i : Reached(f, n, curf, curn, TRUE, i)
      BY <1>12, <2>1, <2>3
    <3>2. Reached(f, n, curf + 1, curn + 1, FALSE, i)
      BY <2>1, <3>1, OutOfPlus
    <3> QED BY <2>1, <3>2
  <2> QED BY <2>1, <2>2, <2>3
<1>16. CASE Return
  <2>1. /\ result = "none" /\ ~skipping /\ (Looping => Breaks)
        /\ result' = IF curn = curn_end /\ curf = Len(topicFilter) + 1 THEN "match" ELSE "differ"
        /\ curf' = curf /\ curn' = curn /\ skipping' = skipping
    BY <1>16 DEF Return
  <2>2. ~Ongoing(f, n, curf, curn)
    BY <1>2, <2>1, GuardOfLoop
  <2>3. (Ended <=> Ended') /\ (result' = "match" <=> Ended) /\ result' # "none"
    BY <1>2, <1>4, <2>1 DEF Ended, curn_end
  <2> QED BY <1>3, <2>1, <2>2, <2>3
<1>17. CASE UNCHANGED vars
  <2>1. curf' = curf /\ curn' = curn /\ skipping' = skipping /\ result' = result /\ (Ended <=> Ended')
    BY <1>17 DEF vars, Ended
  <2> QED BY <1>3, <2>1
<1> QED BY <1>9, <1>10, <1>11, <1>14, <1>15, <1>16, <1>17 DEF Next

\* The loops of isTopicMatched, which know no levels, go through filter and name level by
\* level: MatchInv holds in every state.
THEOREM LevelByLevel == Spec => []MatchInv
<1>1. InBounds /\ MatchInv /\ [Next]_vars => MatchInv'
  BY MatchInvNext
<1> QED BY <1>1, MatchInvInit, PointersInBounds, PTL DEF Spec

\* isTopicMatched matches nothing that MQTT's rules do not match, for all filters and
\* names: NoFalseMatch is an invariant.
THEOREM MatchesAreReal == Spec => []NoFalseMatch
<1>1. InBounds /\ MatchInv => NoFalseMatch
  <2> SUFFICES ASSUME InBounds, MatchInv, result = "match", WellFormed(topicFilter)
               PROVE  MQTTMatches(topicFilter, topicName)
    BY DEF NoFalseMatch
  <2>1. topicFilter \in Seq(Char) /\ topicName \in Seq(Char) /\ Ended /\ skipping = FALSE
    BY CharAssumption DEF InBounds, MatchInv
  <2>2. CASE \E i : Reached(topicFilter, topicName, curf, curn, skipping, i)
    <3>1. PICK i : Reached(topicFilter, topicName, curf, curn, skipping, i)
      BY <2>2
    <3>2. Reached(topicFilter, topicName, Len(topicFilter) + 1, Len(topicName) + 1, FALSE, i)
      BY <2>1, <3>1 DEF Ended
    <3> QED BY <2>1, <3>2, PassedAll
  <2> QED BY <2>2 DEF MatchInv
<1> QED BY <1>1, LevelByLevel, PointersInBounds, PTL

\* isTopicMatched misses no match, for all filters and names, but those that
\* NoMissedMatch names: NoMissedMatch is an invariant.
THEOREM NoMatchIsMissed == Spec => []NoMissedMatch
<1>1. InBounds /\ MatchInv => NoMissedMatch
  <2> SUFFICES ASSUME InBounds, MatchInv, result = "differ", WellFormed(topicFilter),
                      MQTTMatches(topicFilter, topicName),
                      ~HashForNothing(topicFilter, topicName),
                      \A j \in 1 .. Len(Levels(topicName)) : Levels(topicName)[j] # <<>>
               PROVE  FALSE
    BY DEF NoMissedMatch
  <2>1. /\ topicFilter \in Seq(Char) /\ topicName \in Seq(Char) /\ ~Ended /\ skipping = FALSE
        /\ ~Ongoing(topicFilter, topicName, curf, curn)
    BY CharAssumption DEF InBounds, MatchInv
  <2>2. PICK i : Reached(topicFilter, topicName, curf, curn, FALSE, i)
    BY <2>1 DEF MatchInv
  <2>3. curf = Len(topicFilter) + 1 /\ curn = Len(topicName) + 1
    BY <2>1, <2>2, StopsAtEnd
  <2> QED BY <2>1, <2>3 DEF Ended
<1> QED BY <1>1, LevelByLevel, PointersInBounds, PTL

\* What isTopicMatched has left to do at most.
StepsLeft ==
  (Len(topicFilter) + 1 - curf) + (Len(topicName) + 1 - curn)
    + (IF skipping THEN 0 ELSE 1) + (IF result = "none" THEN 1 ELSE 0)

\* Both loops of isTopicMatched end, for all filters and names, well-formed or not: every
\* step leaves fewer to do.
Dwindles == [][StepsLeft' \in Nat /\ StepsLeft' < StepsLeft]_vars

\* Every step of isTopicMatched brings it closer to its return: Dwindles holds.
THEOREM LoopsEnd == Spec => Dwindles
<1>1. InBounds /\ InBounds' /\ [Next]_vars => [StepsLeft' \in Nat /\ StepsLeft' < StepsLeft]_vars
  <2> SUFFICES ASSUME InBounds, InBounds', Next PROVE StepsLeft' \in Nat /\ StepsLeft' < StepsLeft
    OBVIOUS
  <2> DEFINE one == IF skipping THEN 0 ELSE 1
             last == IF result = "none" THEN 1 ELSE 0
  <2>1. /\ topicFilter' = topicFilter /\ topicName' = topicName
    BY DEF Next, StepOver, StepOverHash, EnterPlus, Skip, LeavePlus, Return
  <2>2. PICK F \in Nat, N \in Nat : F = Len(topicFilter) /\ N = Len(topicName)
    BY CharAssumption DEF InBounds
  <2>3. /\ curf \in 1 .. (F + 1) /\ curn \in 1 .. (N + 1)
        /\ curf' \in 1 .. (F + 1) /\ curn' \in 1 .. (N + 1)
    BY <2>1, <2>2 DEF InBounds, curn_end
  <2>4. StepsLeft = (F + 1 - curf) + (N + 1 - curn) + one + last
    BY <2>2 DEF StepsLeft
  <2>5. StepsLeft' = (F + 1 - curf') + (N + 1 - curn') + one' + last'
    BY <2>1, <2>2 DEF StepsLeft
  <2>6. one \in 0 .. 1 /\ one' \in 0 .. 1 /\ last \in 0 .. 1 /\ last' \in 0 .. 1
    OBVIOUS
  <2>7. \/ curf' = curf + 1 /\ curn' >= curn /\ one' = one /\ last' = last
        \/ curf' = curf /\ curn' = curn /\ one = 1 /\ one' = 0 /\ last' = last
        \/ curf' = curf /\ curn' = curn + 1 /\ one' = one /\ last' = last
        \/ curf' = curf + 1 /\ curn' = curn + 1 /\ last' = last
        \/ curf' = curf /\ curn' = curn /\ one' = one /\ last = 1 /\ last' = 0
    <3>1. CASE StepOver
      BY <2>2, <2>3, <3>1 DEF StepOver, StepPast
    <3>2. CASE StepOverHash
      BY <2>2, <2>3, <3>2 DEF StepOverHash, StepPast, curn_end
    <3>3. CASE EnterPlus
      BY <3>3 DEF EnterPlus, Looping
    <3>4. CASE Skip
      BY <3>4 DEF Skip
    <3>5. CASE LeavePlus
      BY <3>5 DEF LeavePlus, StepPast
    <3>6. CASE Return
      BY <3>6 DEF Return
    <3> QED BY <3>1, <3>2, <3>3, <3>4, <3>5, <3>6 DEF Next
  <2> HIDE DEF one, last
  <2>8. PICK c, d, o, l, r : c = curf /\ d = curn /\ o = one /\ l = last /\ r = StepsLeft
    OBVIOUS
  <2>9. PICK cc, dd, oo, ll, rr :
          cc = curf' /\ dd = curn' /\ oo = one' /\ ll = last' /\ rr = StepsLeft'
    OBVIOUS
  <2>10. /\ c \in 1 .. (F + 1) /\ d \in 1 .. (N + 1) /\ cc \in 1 .. (F + 1) /\ dd \in 1 .. (N + 1)
         /\ o \in 0 .. 1 /\ l \in 0 .. 1 /\ oo \in 0 .. 1 /\ ll \in 0 .. 1
         /\ r = (F + 1 - c) + (N + 1 - d) + o + l
         /\ rr = (F + 1 - cc) + (N + 1 - dd) + oo + ll
    BY <2>3, <2>4, <2>5, <2>6, <2>8, <2>9
  <2>11. \/ cc = c + 1 /\ dd >= d /\ oo = o /\ ll = l
         \/ cc = c /\ dd = d /\ o = 1 /\ oo = 0 /\ ll = l
         \/ cc = c /\ dd = d + 1 /\ oo = o /\ ll = l
         \/ cc = c + 1 /\ dd = d + 1 /\ ll = l
         \/ cc = c /\ dd = d /\ oo = o /\ l = 1 /\ ll = 0
    BY <2>7, <2>8, <2>9
  <2>12. rr \in Nat /\ rr < r
    BY <2>2, <2>10, <2>11
  <2> QED BY <2>8, <2>9, <2>12
<1> QED BY <1>1, PointersInBounds, PTL DEF Spec, Dwindles
=============================================================================
