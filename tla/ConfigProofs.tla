--------------------------- MODULE ConfigProofs ----------------------------
(***************************************************************************)
(* Theorems about CConfig: what is stored is what was accepted, in its     *)
(* order, a line is read by its meaning, and what toString writes is       *)
(* loaded as it was; for all files of lines of codes, and whatever lies in *)
(* memory before a line.                                                   *)
(***************************************************************************)
EXTENDS Config, SequenceTheorems, FiniteSetTheorems, WellFoundedInduction, TLAPS

-----------------------------------------------------------------------------
(* Least, greatest and k-th elements.                                      *)

LEMMA LeastNat ==
    ASSUME NEW S \in SUBSET Nat, S # {}
    PROVE  \E x \in S : \A y \in S : x <= y
<1>1. PICK x \in S : \A y \in S : ~ (<<y, x>> \in OpToRel(<, Nat))
  BY WFMin, NatLessThanWellFounded
<1>2. \A y \in S : ~ (y < x) /\ y \in Nat /\ x \in Nat
  BY <1>1 DEF OpToRel
<1> QED
  BY <1>2

(* A set of numbers up to n has a greatest one.                            *)
LEMMA GreatestNat ==
    ASSUME NEW n \in Nat, NEW S \in SUBSET (0 .. n), S # {}
    PROVE  \E x \in S : \A y \in S : y <= x
<1> DEFINE T == {k \in Nat : n - k \in S}
<1>1. PICK e \in S : TRUE
  OBVIOUS
<1>2. n - e \in Nat /\ n - (n - e) = e
  OBVIOUS
<1>3. T \in SUBSET Nat /\ T # {}
  BY <1>2
<1>4. PICK k \in T : \A j \in T : k <= j
  <2> HIDE DEF T
  <2> QED
    BY <1>3, LeastNat
<1>5. ASSUME NEW y \in S
      PROVE  y <= n - k
  <2>1. n - y \in Nat /\ n - (n - y) = y
    OBVIOUS
  <2>2. n - y \in T
    BY <2>1
  <2>3. k <= n - y /\ k \in Nat
    BY <1>4, <2>2
  <2> QED
    BY <2>3
<1> QED
  BY <1>4, <1>5

LEMMA MinIs ==
    ASSUME NEW S \in SUBSET Int, NEW m \in S, \A j \in S : j >= m
    PROVE  Min(S) = m
<1>1. \A x \in S : (\A y \in S : x <= y) => x = m
  OBVIOUS
<1>2. \A y \in S : m <= y
  OBVIOUS
<1> QED
  BY <1>1, <1>2 DEF Min

LEMMA MaxIs ==
    ASSUME NEW S \in SUBSET Int, NEW m \in S, \A j \in S : j <= m
    PROVE  Max(S) = m
<1>1. \A x \in S : (\A y \in S : x >= y) => x = m
  OBVIOUS
<1>2. \A y \in S : m >= y
  OBVIOUS
<1> QED
  BY <1>1, <1>2 DEF Max

LEMMA MinOf ==
    ASSUME NEW S \in SUBSET Nat, S # {}
    PROVE  Min(S) \in S /\ \A j \in S : Min(S) <= j
<1>1. PICK x \in S : \A y \in S : x <= y
  BY LeastNat
<1>2. Min(S) = x
  BY <1>1, MinIs
<1> QED
  BY <1>1, <1>2

LEMMA MaxOf ==
    ASSUME NEW n \in Nat, NEW S \in SUBSET (0 .. n), S # {}
    PROVE  Max(S) \in S /\ \A j \in S : j <= Max(S)
<1>1. PICK x \in S : \A y \in S : y <= x
  BY GreatestNat
<1>2. Max(S) = x
  BY <1>1, MaxIs
<1> QED
  BY <1>1, <1>2

(* The elements of S up to i.                                              *)
UpTo(S, i) == {j \in S : j <= i}

LEMMA UpToFinite ==
    ASSUME NEW L \in Nat, NEW S \in SUBSET (1 .. L), NEW i
    PROVE  /\ IsFiniteSet(S) /\ Cardinality(S) \in Nat
           /\ IsFiniteSet(UpTo(S, i)) /\ Cardinality(UpTo(S, i)) \in Nat
<1>1. IsFiniteSet(1 .. L)
  BY FS_Interval
<1>2. IsFiniteSet(S)
  BY <1>1, FS_Subset
<1>3. UpTo(S, i) \in SUBSET S
  BY DEF UpTo
<1>4. IsFiniteSet(UpTo(S, i))
  BY <1>2, <1>3, FS_Subset
<1> QED
  BY <1>2, <1>4, FS_CardinalityType

(* Different elements have different ranks.                                *)
LEMMA RankGrows ==
    ASSUME NEW L \in Nat, NEW S \in SUBSET (1 .. L), NEW a \in S, NEW b \in S, a < b
    PROVE  Cardinality(UpTo(S, a)) # Cardinality(UpTo(S, b))
<1>1. IsFiniteSet(UpTo(S, b))
  BY UpToFinite
<1>2. UpTo(S, a) \in SUBSET UpTo(S, b)
  <2>1. \A j \in S : j \in Int
    OBVIOUS
  <2>2. \A j \in S : j <= a => j <= b
    BY <2>1
  <2> QED
    BY <2>2 DEF UpTo
<1>3. b \in UpTo(S, b) /\ b \notin UpTo(S, a)
  BY DEF UpTo
<1> QED
  BY <1>1, <1>2, <1>3, FS_Subset

LEMMA NthIs ==
    ASSUME NEW L \in Nat, NEW S \in SUBSET (1 .. L), NEW r \in S
    PROVE  Nth(S, Cardinality(UpTo(S, r))) = r
<1> DEFINE k == Cardinality(UpTo(S, r))
<1>1. ASSUME NEW i \in S, Cardinality(UpTo(S, i)) = k
      PROVE  i = r
  <2>1. ~ (i < r) /\ ~ (r < i)
    BY <1>1, RankGrows
  <2> QED
    BY <2>1
<1>2. Nth(S, k) = CHOOSE i \in S : Cardinality(UpTo(S, i)) = k
  BY DEF Nth, UpTo
<1> QED
  BY <1>1, <1>2

(* A set of n numbers has a k-th one, for every k from 1 to n.             *)
LEMMA Ranked ==
    ASSUME NEW L \in Nat, NEW S \in SUBSET (1 .. L), NEW k \in 1 .. Cardinality(S)
    PROVE  \E r \in S : Cardinality(UpTo(S, r)) = k
<1> DEFINE IsRanked(T) == \A c \in 1 .. Cardinality(T) : \E r \in T : Cardinality(UpTo(T, r)) = c
           Bad == {n \in Nat : \E T \in SUBSET (1 .. L) : Cardinality(T) = n /\ ~IsRanked(T)}
<1>1. ASSUME Bad # {}
      PROVE  FALSE
  <2>1. Bad \in SUBSET Nat
    OBVIOUS
  <2>2. PICK n \in Bad : \A j \in Bad : n <= j
    <3> HIDE DEF Bad
    <3> QED
      BY <1>1, <2>1, LeastNat
  <2>3. PICK T \in SUBSET (1 .. L) : Cardinality(T) = n /\ ~IsRanked(T)
    BY <2>2
  <2>4. PICK c \in 1 .. n : \A r \in T : Cardinality(UpTo(T, r)) # c
    BY <2>3
  <2>5. IsFiniteSet(T) /\ n \in Nat
    BY <2>2, <2>3, UpToFinite
  <2>6. T # {}
    BY <2>3, <2>4, <2>5, FS_EmptySet
  <2>7. PICK m \in T : \A y \in T : y <= m
    <3>1. T \in SUBSET (0 .. L)
      OBVIOUS
    <3> QED
      BY <2>6, <3>1, GreatestNat
  <2>8. UpTo(T, m) = T
    BY <2>7 DEF UpTo
  <2>9. c # n
    BY <2>3, <2>4, <2>8
  <2> DEFINE U == T \ {m}
  <2>10. U \in SUBSET (1 .. L) /\ Cardinality(U) = n - 1
    BY <2>3, <2>5, FS_RemoveElement
  <2>11. n - 1 \in Nat /\ n - 1 \notin Bad /\ c \in 1 .. n - 1
    <3>1. n \in Nat /\ c \in 1 .. n - 1
      BY <2>5, <2>9
    <3>2. n - 1 \in Nat /\ ~ (n <= n - 1)
      BY <3>1
    <3> QED
      BY <2>2, <3>1, <3>2
  <2>12. IsRanked(U)
    BY <2>10, <2>11
  <2>13. PICK r \in U : Cardinality(UpTo(U, r)) = c
    BY <2>10, <2>11, <2>12
  <2>14. UpTo(U, r) = UpTo(T, r)
    <3>1. r \in T /\ r # m /\ r \in Int /\ m \in Int
      OBVIOUS
    <3>2. r <= m
      BY <2>7, <3>1
    <3>3. ~ (m <= r)
      BY <3>1, <3>2
    <3> QED
      BY <3>3 DEF UpTo
  <2> QED
    BY <2>4, <2>13, <2>14
<1>2. Cardinality(S) \in Nat
  BY UpToFinite
<1>3. IsRanked(S)
  BY <1>1, <1>2
<1> QED
  BY <1>3

LEMMA NthOf ==
    ASSUME NEW L \in Nat, NEW S \in SUBSET (1 .. L), NEW k \in 1 .. Cardinality(S)
    PROVE  Nth(S, k) \in S /\ Cardinality(UpTo(S, Nth(S, k))) = k
<1>1. PICK r \in S : Cardinality(UpTo(S, r)) = k
  BY Ranked
<1>2. Nth(S, k) = r
  BY <1>1, NthIs
<1> QED
  BY <1>1, <1>2

(* A number above all others is added behind them.                         *)
LEMMA NthBehind ==
    ASSUME NEW L \in Nat, NEW S \in SUBSET (1 .. L), NEW x \in 1 .. L, \A y \in S : y < x
    PROVE  /\ Cardinality(S) \in Nat
           /\ Cardinality(S \cup {x}) = Cardinality(S) + 1
           /\ \A k \in 1 .. Cardinality(S) : Nth(S \cup {x}, k) = Nth(S, k)
           /\ Nth(S \cup {x}, Cardinality(S) + 1) = x
<1> DEFINE T == S \cup {x}
<1>0. x \in Int /\ x <= x /\ \A y \in S : y \in Int /\ y <= x /\ ~ (x <= y)
  OBVIOUS
<1>1. IsFiniteSet(S) /\ Cardinality(S) \in Nat /\ x \notin S
  BY <1>0, UpToFinite
<1>2. Cardinality(T) = Cardinality(S) + 1
  BY <1>1, FS_AddElement
<1>3. UpTo(T, x) = T
  BY <1>0 DEF UpTo
<1>4. Nth(T, Cardinality(S) + 1) = x
  <2>1. T \in SUBSET (1 .. L) /\ x \in T
    OBVIOUS
  <2> QED
    BY <1>2, <1>3, <2>1, NthIs
<1>5. ASSUME NEW k \in 1 .. Cardinality(S)
      PROVE  Nth(T, k) = Nth(S, k)
  <2>1. Nth(S, k) \in S /\ Cardinality(UpTo(S, Nth(S, k))) = k
    BY NthOf
  <2>2. UpTo(T, Nth(S, k)) = UpTo(S, Nth(S, k))
    BY <1>0, <2>1 DEF UpTo
  <2>3. T \in SUBSET (1 .. L) /\ Nth(S, k) \in T
    BY <2>1
  <2> QED
    BY <2>1, <2>2, <2>3, NthIs
<1> QED
  BY <1>1, <1>2, <1>4, <1>5

-----------------------------------------------------------------------------
(* Parts of sequences.                                                     *)

(* Sequences are equal if they are equally long and have the same elements. *)
LEMMA SameSeq ==
    ASSUME NEW X, NEW s \in Seq(X), NEW t \in Seq(X), Len(s) = Len(t),
           \A i \in 1 .. Len(s) : s[i] = t[i]
    PROVE  s = t
OBVIOUS

LEMMA AppendIs ==
    ASSUME NEW n \in Nat, NEW f, f = [k \in 1 .. n |-> f[k]], NEW e
    PROVE  Append(f, e) = [k \in 1 .. n + 1 |-> IF k = n + 1 THEN e ELSE f[k]]
<1> DEFINE X == {f[k] : k \in 1 .. n} \cup {e}
           g == [k \in 1 .. n + 1 |-> IF k = n + 1 THEN e ELSE f[k]]
<1>1. f \in [1 .. n -> X] /\ e \in X
  <2>1. \A k \in 1 .. n : f[k] \in X
    OBVIOUS
  <2> HIDE DEF X
  <2>2. [k \in 1 .. n |-> f[k]] \in [1 .. n -> X]
    BY <2>1
  <2>3. e \in X
    BY DEF X
  <2> QED
    BY <2>2, <2>3
<1> HIDE DEF X
<1>2. f \in Seq(X) /\ Len(f) = n
  BY <1>1
<1>3. /\ Append(f, e) \in Seq(X) /\ Len(Append(f, e)) = n + 1
      /\ \A k \in 1 .. n : Append(f, e)[k] = f[k]
      /\ Append(f, e)[n + 1] = e
  BY <1>1, <1>2, AppendProperties
<1>4. \A k \in 1 .. n + 1 : k # n + 1 => k \in 1 .. n
  OBVIOUS
<1>5. g \in [1 .. n + 1 -> X]
  BY <1>1, <1>4
<1>6. g \in Seq(X) /\ Len(g) = n + 1
  <2> HIDE DEF g
  <2> QED
    BY <1>5
<1>7. \A k \in 1 .. n + 1 : Append(f, e)[k] = g[k]
  BY <1>3, <1>4
<1> HIDE DEF g
<1>8. Append(f, e) = g
  BY <1>3, <1>6, <1>7, SameSeq
<1> QED
  BY <1>8 DEF g

(* A part of a part of a sequence, which may be empty.                     *)
LEMMA SubOfSub ==
    ASSUME NEW X, NEW s \in Seq(X), NEW m \in Nat \ {0}, NEW n \in Int, n <= Len(s),
           NEW a \in Nat \ {0}, NEW b \in Int, b <= n - m + 1
    PROVE  SubSeq(SubSeq(s, m, n), a, b) = SubSeq(s, m + a - 1, m + b - 1)
<1> DEFINE t == SubSeq(s, m, n)
           u == SubSeq(t, a, b)
           v == SubSeq(s, m + a - 1, m + b - 1)
<1>1. \A i \in m .. n : s[i] \in X
  OBVIOUS
<1>2. t \in Seq(X) /\ \A i \in 1 .. n - m + 1 : t[i] = s[m + i - 1]
  BY <1>1, SubSeqProperties
<1>3. Len(t) = IF m <= n THEN n - m + 1 ELSE 0
  BY <1>1, SubSeqProperties
<1> HIDE DEF t
<1>4. \A i \in a .. b : t[i] \in X
  BY <1>2, <1>3
<1>5. u \in Seq(X) /\ \A i \in 1 .. b - a + 1 : u[i] = t[a + i - 1]
  BY <1>4, SubSeqProperties
<1>6. Len(u) = IF a <= b THEN b - a + 1 ELSE 0
  BY <1>4, SubSeqProperties
<1>7. \A i \in m + a - 1 .. m + b - 1 : s[i] \in X
  OBVIOUS
<1>8. m + a - 1 \in Int /\ m + b - 1 \in Int
  OBVIOUS
<1>9. /\ v \in Seq(X)
      /\ Len(v) = IF m + a - 1 <= m + b - 1 THEN (m + b - 1) - (m + a - 1) + 1 ELSE 0
      /\ \A i \in 1 .. (m + b - 1) - (m + a - 1) + 1 : v[i] = s[(m + a - 1) + i - 1]
  BY <1>7, <1>8, SubSeqProperties
<1> HIDE DEF u, v
<1>10. Len(u) = Len(v)
  BY <1>6, <1>9
<1>11. ASSUME NEW i \in 1 .. Len(u)
       PROVE  u[i] = v[i]
  <2>1. i \in 1 .. b - a + 1
    BY <1>6
  <2>2. a + i - 1 \in 1 .. n - m + 1
    BY <2>1
  <2>3. u[i] = s[m + (a + i - 1) - 1]
    BY <1>2, <1>5, <2>1, <2>2
  <2>4. v[i] = s[(m + a - 1) + i - 1]
    BY <1>9, <2>1
  <2>5. m + (a + i - 1) - 1 = (m + a - 1) + i - 1
    BY <2>1
  <2> QED
    BY <2>3, <2>4, <2>5
<1>12. u = v
  BY <1>5, <1>9, <1>10, <1>11, SameSeq
<1> QED
  BY <1>12 DEF t, u, v

(* The part of data that begins at i, up to the next NUL.                  *)
Part(data, i) == CString(SubSeq(data, i, Len(data)))

LEMMA PartIs ==
    ASSUME NEW data \in Seq(Int), NEW i \in 1 .. Len(data) + 1, NEW e \in i .. Len(data) + 1,
           e = Len(data) + 1 \/ data[e] = 0, \A j \in i .. e - 1 : data[j] # 0
    PROVE  Part(data, i) = SubSeq(data, i, e - 1)
<1> DEFINE t == SubSeq(data, i, Len(data))
           nuls == {j \in DOMAIN t : t[j] = 0} \cup {Len(t) + 1}
<1>1. \A j \in i .. Len(data) : data[j] \in Int
  OBVIOUS
<1>2. /\ t \in Seq(Int)
      /\ Len(t) = IF i <= Len(data) THEN Len(data) - i + 1 ELSE 0
      /\ \A j \in 1 .. Len(data) - i + 1 : t[j] = data[i + j - 1]
  BY <1>1, SubSeqProperties
<1> HIDE DEF t
<1>3. Len(t) = Len(data) + 1 - i /\ DOMAIN t = 1 .. Len(t)
  BY <1>2
<1>4. nuls \in SUBSET Int
  BY <1>3
<1>5. e - i + 1 \in nuls
  <2>1. CASE e = Len(data) + 1
    BY <2>1, <1>3
  <2>2. CASE e # Len(data) + 1
    <3>1. e - i + 1 \in 1 .. Len(data) - i + 1
      BY <2>2
    <3>2. t[e - i + 1] = data[i + (e - i + 1) - 1]
      BY <1>2, <3>1
    <3>3. i + (e - i + 1) - 1 = e
      OBVIOUS
    <3> QED
      BY <2>2, <3>1, <3>2, <3>3, <1>3
  <2> QED
    BY <2>1, <2>2
<1>6. ASSUME NEW j \in nuls
      PROVE  j >= e - i + 1
  <2>1. CASE j = Len(t) + 1
    BY <2>1, <1>3
  <2>2. CASE j # Len(t) + 1
    <3>1. j \in 1 .. Len(data) - i + 1 /\ t[j] = 0
      BY <2>2, <1>3
    <3>2. data[i + j - 1] = 0
      BY <1>2, <3>1
    <3>3. i + j - 1 \notin i .. e - 1
      BY <3>2
    <3>4. i \in Int /\ e \in Int /\ j \in Int /\ j >= 1
      BY <3>1
    <3> QED
      BY <3>3, <3>4
  <2> QED
    BY <2>1, <2>2
<1>7. Min(nuls) = e - i + 1
  <2> HIDE DEF nuls
  <2> QED
    BY <1>4, <1>5, <1>6, MinIs
<1>8. CString(t) = SubSeq(t, 1, (e - i + 1) - 1)
  BY <1>7 DEF CString
<1>9. SubSeq(SubSeq(data, i, Len(data)), 1, (e - i + 1) - 1)
        = SubSeq(data, i + 1 - 1, i + ((e - i + 1) - 1) - 1)
  <2>1. /\ i \in Nat \ {0} /\ Len(data) \in Int /\ Len(data) <= Len(data)
        /\ (e - i + 1) - 1 \in Int /\ (e - i + 1) - 1 <= Len(data) - i + 1
    OBVIOUS
  <2> QED
    BY <2>1, SubOfSub
<1>10. i + 1 - 1 = i /\ i + ((e - i + 1) - 1) - 1 = e - 1
  OBVIOUS
<1> QED
  BY <1>8, <1>9, <1>10 DEF Part, t

(* There is a next NUL, or the end.                                        *)
LEMMA NextNul ==
    ASSUME NEW data \in Seq(Int), NEW i \in 1 .. Len(data) + 1
    PROVE  \E e \in i .. Len(data) + 1 :
               (e = Len(data) + 1 \/ data[e] = 0) /\ \A j \in i .. e - 1 : data[j] # 0
<1> DEFINE S == {e \in i .. Len(data) + 1 : e = Len(data) + 1 \/ data[e] = 0}
<1>1. S \in SUBSET Nat /\ Len(data) + 1 \in S
  OBVIOUS
<1>2. PICK e \in S : \A y \in S : e <= y
  BY <1>1, LeastNat
<1>3. \A j \in i .. e - 1 : data[j] # 0
  BY <1>2
<1> QED
  BY <1>2, <1>3

-----------------------------------------------------------------------------
(* The list of a value.                                                    *)

(* C strings: sequences of codes without NUL.                              *)
Codes == Int \ {0}
CStrings == Seq(Codes)

Starts(data) == {1} \cup {i + 1 : i \in {j \in DOMAIN data : data[j] = 0}}

LEMMA PartsDef ==
    ASSUME NEW data
    PROVE  Parts(data) = [k \in 1 .. Cardinality(Starts(data)) |-> Part(data, Nth(Starts(data), k))]
BY DEF Parts, Starts, Part

LEMMA StartsIn ==
    ASSUME NEW data \in Seq(Int)
    PROVE  Starts(data) \in SUBSET (1 .. Len(data) + 1) /\ Starts(data) # {}
BY DEF Starts

(* A list is not empty, and its first string is what c_str shows.          *)
LEMMA PartsFirst ==
    ASSUME NEW data \in Seq(Int)
    PROVE  /\ Cardinality(Starts(data)) \in Nat \ {0}
           /\ Parts(data)[1] = CString(data)
<1> DEFINE S == Starts(data)
<1>1. S \in SUBSET (1 .. Len(data) + 1) /\ 1 \in S
  BY StartsIn DEF Starts
<1>2. Len(data) + 1 \in Nat
  OBVIOUS
<1> HIDE DEF S
<1>3. UpTo(S, 1) = {1}
  <2>1. \A j \in S : j \in Int /\ j >= 1
    BY <1>1
  <2>2. \A j \in S : j <= 1 <=> j = 1
    BY <2>1
  <2> QED
    BY <1>1, <2>2 DEF UpTo
<1>4. Cardinality(UpTo(S, 1)) = 1
  BY <1>3, FS_Singleton
<1>5. Nth(S, 1) = 1
  BY <1>1, <1>2, <1>4, NthIs
<1>6. IsFiniteSet(S) /\ Cardinality(S) \in Nat /\ Cardinality(S) # 0
  BY <1>1, <1>2, UpToFinite, FS_EmptySet
<1>7. 1 \in 1 .. Cardinality(S)
  BY <1>6
<1>8. Parts(data)[1] = Part(data, 1)
  BY <1>5, <1>7, PartsDef DEF S
<1>9. SubSeq(data, 1, Len(data)) = data
  BY SubSeqFull
<1> QED
  BY <1>6, <1>8, <1>9 DEF S, Part

(* A string without NUL is a list of one.                                  *)
LEMMA PartsOne ==
    ASSUME NEW val \in CStrings
    PROVE  Parts(val) = <<val>>
<1>1. val \in Seq(Int) /\ \A j \in 1 .. Len(val) : val[j] # 0
  BY DEF CStrings, Codes
<1>2. Starts(val) = {1}
  BY <1>1 DEF Starts
<1>3. Cardinality(Starts(val)) = 1
  BY <1>2, FS_Singleton
<1>4. Nth(Starts(val), 1) = 1
  <2>1. Starts(val) \in SUBSET (1 .. 1) /\ 1 \in Starts(val) /\ UpTo(Starts(val), 1) = Starts(val)
    BY <1>2 DEF UpTo
  <2> QED
    BY <2>1, <1>3, NthIs
<1>5. Part(val, 1) = val
  <2>1. Part(val, 1) = SubSeq(val, 1, (Len(val) + 1) - 1)
    <3>1. 1 \in 1 .. Len(val) + 1 /\ Len(val) + 1 \in 1 .. Len(val) + 1
      BY <1>1
    <3>2. \A j \in 1 .. (Len(val) + 1) - 1 : val[j] # 0
      BY <1>1
    <3> QED
      BY <1>1, <3>1, <3>2, PartIs
  <2>2. (Len(val) + 1) - 1 = Len(val)
    BY <1>1
  <2> QED
    BY <1>1, <2>1, <2>2, SubSeqFull
<1>6. Parts(val) = [k \in 1 .. 1 |-> Part(val, Nth(Starts(val), k))]
  BY <1>3, PartsDef
<1>7. \A k \in 1 .. 1 : Part(val, Nth(Starts(val), k)) = val
  BY <1>4, <1>5
<1>8. Parts(val) = [k \in 1 .. 1 |-> val]
  BY <1>6, <1>7
<1> QED
  BY <1>8

(* What is appended behind a NUL is one more string of the list.           *)
LEMMA PartsAppend ==
    ASSUME NEW data \in Seq(Int), NEW val \in CStrings
    PROVE  Parts(data \o <<0>> \o val) = Append(Parts(data), val)
<1> DEFINE d == data \o <<0>> \o val
           S == Starts(data)
           T == Starts(d)
           n == Len(data)
<1>1. val \in Seq(Int) /\ \A j \in 1 .. Len(val) : val[j] # 0
  BY DEF CStrings, Codes
<1>2. /\ d \in Seq(Int) /\ Len(d) = n + 1 + Len(val) /\ n \in Nat /\ Len(val) \in Nat
      /\ d[n + 1] = 0
      /\ \A j \in 1 .. n : d[j] = data[j]
      /\ \A j \in 1 .. Len(val) : d[n + 1 + j] = val[j]
  BY <1>1
<1> HIDE DEF d
<1>3. ASSUME NEW j \in n + 2 .. Len(d)
      PROVE  d[j] # 0
  <2>1. j - n - 1 \in 1 .. Len(val) /\ j = n + 1 + (j - n - 1)
    BY <1>2
  <2> QED
    BY <1>1, <1>2, <2>1
<1>4. T = S \cup {n + 2}
  <2> DEFINE A == {j \in DOMAIN data : data[j] = 0}
             B == {j \in DOMAIN d : d[j] = 0}
  <2>1. B = A \cup {n + 1}
    <3>1. DOMAIN d = 1 .. n + 1 + Len(val) /\ DOMAIN data = 1 .. n
      BY <1>2
    <3>2. ASSUME NEW j \in DOMAIN d, d[j] = 0
          PROVE  j \in A \cup {n + 1}
      BY <1>2, <1>3, <3>1, <3>2
    <3>3. ASSUME NEW j \in DOMAIN data, data[j] = 0
          PROVE  j \in DOMAIN d /\ d[j] = 0
      BY <1>2, <3>1, <3>3
    <3>4. n + 1 \in DOMAIN d
      BY <1>2, <3>1
    <3> QED
      BY <1>2, <3>2, <3>3, <3>4
  <2>2. (n + 1) + 1 = n + 2
    BY <1>2
  <2>3. S = {1} \cup {i + 1 : i \in A} /\ T = {1} \cup {i + 1 : i \in B}
    BY DEF Starts
  <2> HIDE DEF A, B
  <2>4. {i + 1 : i \in A \cup {n + 1}} = {i + 1 : i \in A} \cup {(n + 1) + 1}
    OBVIOUS
  <2> HIDE DEF S, T
  <2> QED
    BY <2>1, <2>2, <2>3, <2>4
<1>5. S \in SUBSET (1 .. n + 1)
  BY StartsIn
<1> HIDE DEF S, T
<1>6. /\ Cardinality(S) \in Nat /\ Cardinality(T) = Cardinality(S) + 1
      /\ \A k \in 1 .. Cardinality(S) : Nth(T, k) = Nth(S, k)
      /\ Nth(T, Cardinality(S) + 1) = n + 2
  <2>1. S \in SUBSET (1 .. n + 2) /\ n + 2 \in 1 .. n + 2 /\ n + 2 \in Nat /\ \A y \in S : y < n + 2
    BY <1>2, <1>5
  <2> QED
    BY <1>4, <2>1, NthBehind
<1>7. ASSUME NEW k \in 1 .. Cardinality(S)
      PROVE  Part(d, Nth(T, k)) = Part(data, Nth(S, k))
  <2> DEFINE i == Nth(S, k)
  <2>1. i \in 1 .. n + 1 /\ Nth(T, k) = i
    <3>1. n + 1 \in Nat
      BY <1>2
    <3> QED
      BY <1>5, <1>6, <3>1, NthOf
  <2> HIDE DEF i
  <2>2. PICK e \in i .. n + 1 : (e = n + 1 \/ data[e] = 0) /\ \A j \in i .. e - 1 : data[j] # 0
    BY <2>1, NextNul
  <2>3. Part(data, i) = SubSeq(data, i, e - 1)
    BY <2>1, <2>2, PartIs
  <2>4. Part(d, i) = SubSeq(d, i, e - 1)
    <3>0. i \in Int /\ e \in Int /\ 1 <= i /\ i <= e /\ e <= n + 1 /\ n + 1 <= Len(d)
      BY <1>2, <2>1
    <3>1. i \in 1 .. Len(d) + 1 /\ e \in i .. Len(d) + 1 /\ i \in Int /\ e \in Int
      BY <1>2, <3>0
    <3>2. d[e] = 0
      <4>1. e # n + 1 => e \in 1 .. n
        BY <1>2, <3>0
      <4> QED
        BY <1>2, <2>2, <4>1
    <3>3. \A j \in i .. e - 1 : d[j] # 0
      <4>1. \A j \in i .. e - 1 : j \in 1 .. n
        BY <1>2, <2>1
      <4> QED
        BY <1>2, <2>2, <4>1
    <3> QED
      BY <1>2, <3>1, <3>2, <3>3, PartIs
  <2>5. SubSeq(d, i, e - 1) = SubSeq(data, i, e - 1)
    <3>0. i \in Int /\ e \in Int /\ 1 <= i /\ i <= e /\ e <= n + 1 /\ n \in Int
      BY <1>2, <2>1
    <3>1. i \in Int /\ e - 1 \in Int /\ \A j \in i .. e - 1 : j \in 1 .. n /\ d[j] = data[j]
      BY <1>2, <3>0
    <3>2. \A j \in i .. e - 1 : data[j] \in Int /\ d[j] \in Int
      BY <3>1
    <3>3. /\ SubSeq(d, i, e - 1) \in Seq(Int)
          /\ Len(SubSeq(d, i, e - 1)) = IF i <= e - 1 THEN (e - 1) - i + 1 ELSE 0
          /\ \A j \in 1 .. (e - 1) - i + 1 : SubSeq(d, i, e - 1)[j] = d[i + j - 1]
      BY <3>1, <3>2, SubSeqProperties
    <3>4. /\ SubSeq(data, i, e - 1) \in Seq(Int)
          /\ Len(SubSeq(data, i, e - 1)) = IF i <= e - 1 THEN (e - 1) - i + 1 ELSE 0
          /\ \A j \in 1 .. (e - 1) - i + 1 : SubSeq(data, i, e - 1)[j] = data[i + j - 1]
      BY <3>1, <3>2, SubSeqProperties
    <3>5. \A j \in 1 .. Len(SubSeq(d, i, e - 1)) : j \in 1 .. (e - 1) - i + 1 /\ i + j - 1 \in i .. e - 1
      BY <3>1, <3>3
    <3>6. \A j \in 1 .. Len(SubSeq(d, i, e - 1)) : SubSeq(d, i, e - 1)[j] = SubSeq(data, i, e - 1)[j]
      BY <3>1, <3>3, <3>4, <3>5
    <3> QED
      BY <3>3, <3>4, <3>6, SameSeq
  <2> QED
    BY <2>1, <2>3, <2>4, <2>5 DEF i
<1>8. Part(d, n + 2) = val
  <2>1. n + 2 \in 1 .. Len(d) + 1 /\ Len(d) + 1 \in n + 2 .. Len(d) + 1
    BY <1>2
  <2>2. \A j \in n + 2 .. (Len(d) + 1) - 1 : d[j] # 0
    BY <1>2, <1>3
  <2>3. Part(d, n + 2) = SubSeq(d, n + 2, (Len(d) + 1) - 1)
    BY <1>2, <2>1, <2>2, PartIs
  <2>4. (Len(d) + 1) - 1 = Len(d)
    BY <1>2
  <2>5. n + 2 \in Int /\ Len(d) \in Int /\ \A j \in n + 2 .. Len(d) : d[j] \in Int
    BY <1>2
  <2>6. /\ SubSeq(d, n + 2, Len(d)) \in Seq(Int)
        /\ Len(SubSeq(d, n + 2, Len(d))) = IF n + 2 <= Len(d) THEN Len(d) - (n + 2) + 1 ELSE 0
        /\ \A j \in 1 .. Len(d) - (n + 2) + 1 : SubSeq(d, n + 2, Len(d))[j] = d[(n + 2) + j - 1]
    BY <2>5, SubSeqProperties
  <2>7. Len(SubSeq(d, n + 2, Len(d))) = Len(val)
    BY <1>2, <2>6
  <2>8. ASSUME NEW j \in 1 .. Len(val)
        PROVE  SubSeq(d, n + 2, Len(d))[j] = val[j]
    <3>1. j \in 1 .. Len(d) - (n + 2) + 1 /\ (n + 2) + j - 1 = n + 1 + j
      BY <1>2
    <3> QED
      BY <1>2, <2>6, <3>1
  <2>9. SubSeq(d, n + 2, Len(d)) = val
    BY <1>1, <2>6, <2>7, <2>8, SameSeq
  <2> QED
    BY <2>3, <2>4, <2>9
<1>9. /\ Parts(d) = [k \in 1 .. Cardinality(S) + 1 |-> Part(d, Nth(T, k))]
      /\ Parts(data) = [k \in 1 .. Cardinality(S) |-> Part(data, Nth(S, k))]
  BY <1>6, PartsDef DEF S, T
<1>10. Append(Parts(data), val)
         = [k \in 1 .. Cardinality(S) + 1 |->
               IF k = Cardinality(S) + 1 THEN val ELSE Part(data, Nth(S, k))]
  <2> DEFINE f == [k \in 1 .. Cardinality(S) |-> Part(data, Nth(S, k))]
  <2>1. Append(f, val)
          = [k \in 1 .. Cardinality(S) + 1 |-> IF k = Cardinality(S) + 1 THEN val ELSE f[k]]
    <3> HIDE DEF f
    <3>1. Cardinality(S) \in Nat /\ f = [k \in 1 .. Cardinality(S) |-> f[k]]
      BY <1>6 DEF f
    <3> QED
      BY <3>1, AppendIs
  <2>2. \A k \in 1 .. Cardinality(S) + 1 : k # Cardinality(S) + 1 => k \in 1 .. Cardinality(S)
    BY <1>6
  <2>3. \A k \in 1 .. Cardinality(S) + 1 :
            k # Cardinality(S) + 1 => f[k] = Part(data, Nth(S, k))
    BY <2>2
  <2> HIDE DEF f
  <2>4. Append(f, val)
          = [k \in 1 .. Cardinality(S) + 1 |->
                IF k = Cardinality(S) + 1 THEN val ELSE Part(data, Nth(S, k))]
    BY <2>1, <2>3
  <2> QED
    BY <1>9, <2>4 DEF f
<1>11. ASSUME NEW k \in 1 .. Cardinality(S) + 1
       PROVE  Part(d, Nth(T, k)) = IF k = Cardinality(S) + 1 THEN val ELSE Part(data, Nth(S, k))
  <2>1. k # Cardinality(S) + 1 => k \in 1 .. Cardinality(S)
    BY <1>6
  <2> QED
    BY <1>6, <1>7, <1>8, <2>1
<1>12. Parts(d) = Append(Parts(data), val)
  BY <1>9, <1>10, <1>11
<1> QED
  BY <1>12 DEF d

(* What was accepted for key k of section s, as ListsInOrder has it.       *)
Given(acc, s, k) == {i \in DOMAIN acc : acc[i][1] = s /\ acc[i][2] = k}
Values(acc, s, k) == [n \in 1 .. Cardinality(Given(acc, s, k)) |-> acc[Nth(Given(acc, s, k), n)][3]]

(* A value that is accepted comes behind those of its key.                 *)
LEMMA ValuesAppend ==
    ASSUME NEW X, NEW acc \in Seq(X), NEW a \in X, NEW s, NEW k
    PROVE  Values(Append(acc, a), s, k) =
               IF a[1] = s /\ a[2] = k THEN Append(Values(acc, s, k), a[3]) ELSE Values(acc, s, k)
<1> DEFINE acc2 == Append(acc, a)
           n == Len(acc)
           S == Given(acc, s, k)
           T == Given(acc2, s, k)
<1>1. /\ acc2 \in Seq(X) /\ n \in Nat /\ Len(acc2) = n + 1
      /\ DOMAIN acc = 1 .. n /\ DOMAIN acc2 = 1 .. n + 1
      /\ \A j \in 1 .. n : acc2[j] = acc[j]
      /\ acc2[n + 1] = a
  BY AppendProperties
<1> HIDE DEF acc2
<1>2. S \in SUBSET (1 .. n)
  BY <1>1 DEF Given
<1>3. \A j \in 1 .. n + 1 : j # n + 1 => j \in 1 .. n
  BY <1>1
<1>4. ASSUME NEW m \in 1 .. Cardinality(S)
      PROVE  Nth(S, m) \in 1 .. n /\ acc2[Nth(S, m)] = acc[Nth(S, m)]
  <2> HIDE DEF S
  <2>1. Nth(S, m) \in S
    BY <1>1, <1>2, NthOf
  <2> QED
    BY <1>1, <1>2, <2>1
<1>5. CASE ~ (a[1] = s /\ a[2] = k)
  <2>1. T = S
    BY <1>1, <1>3, <1>5 DEF Given
  <2> QED
    BY <1>4, <1>5, <2>1 DEF Values, acc2
<1>6. CASE a[1] = s /\ a[2] = k
  <2>1. T = S \cup {n + 1}
    <3>1. n + 1 \in 1 .. n + 1
      BY <1>1
    <3>2. \A j \in 1 .. n : j \in 1 .. n + 1
      BY <1>1
    <3> QED
      BY <1>1, <1>3, <1>6, <3>1, <3>2 DEF Given
  <2> HIDE DEF S, T
  <2>2. /\ Cardinality(S) \in Nat /\ Cardinality(T) = Cardinality(S) + 1
        /\ \A m \in 1 .. Cardinality(S) : Nth(T, m) = Nth(S, m)
        /\ Nth(T, Cardinality(S) + 1) = n + 1
    <3>1. n + 1 \in Nat /\ n + 1 \in 1 .. n + 1 /\ S \in SUBSET (1 .. n + 1) /\ \A y \in S : y < n + 1
      BY <1>1, <1>2
    <3> QED
      BY <2>1, <3>1, NthBehind
  <2> DEFINE f == [m \in 1 .. Cardinality(S) |-> acc[Nth(S, m)][3]]
  <2>3. f = [m \in 1 .. Cardinality(S) |-> f[m]]
    OBVIOUS
  <2>4. \A m \in 1 .. Cardinality(S) + 1 : m # Cardinality(S) + 1 => m \in 1 .. Cardinality(S)
    BY <2>2
  <2>5. ASSUME NEW m \in 1 .. Cardinality(S) + 1
        PROVE  acc2[Nth(T, m)][3] = IF m = Cardinality(S) + 1 THEN a[3] ELSE f[m]
    <3>1. CASE m = Cardinality(S) + 1
      BY <1>1, <2>2, <3>1
    <3>2. CASE m # Cardinality(S) + 1
      <4>1. m \in 1 .. Cardinality(S)
        BY <2>4, <3>2
      <4> QED
        BY <1>4, <2>2, <3>2, <4>1
    <3> QED
      BY <3>1, <3>2
  <2> HIDE DEF f
  <2>6. Append(f, a[3]) = [m \in 1 .. Cardinality(S) + 1 |-> IF m = Cardinality(S) + 1 THEN a[3] ELSE f[m]]
    BY <2>2, <2>3, AppendIs
  <2>7. [m \in 1 .. Cardinality(T) |-> acc2[Nth(T, m)][3]] = Append(f, a[3])
    BY <2>2, <2>5, <2>6
  <2> QED
    BY <1>6, <2>7 DEF Values, S, T, f, acc2
<1> QED
  BY <1>5, <1>6

LEMMA NoValues ==
    ASSUME NEW acc, NEW s, NEW k, Given(acc, s, k) = {}
    PROVE  Values(acc, s, k) = <<>>
<1>1. Cardinality(Given(acc, s, k)) = 0
  BY FS_EmptySet
<1>2. 1 .. 0 = {}
  OBVIOUS
<1> QED
  BY <1>1, <1>2 DEF Values

-----------------------------------------------------------------------------
(* The positions parseValue finds in a line.                               *)

Ink(s) == {i \in DOMAIN s : s[i] \notin Blanks}
EqualSigns(s) == {i \in DOMAIN s : s[i] = Equals}
Eq(s) == Min(EqualSigns(s))
End(s) == Max(Ink(s)) + 1
Chr(s, stray, i) == IF i = 0 THEN stray ELSE s[i]
Cut(s, stray) == Max({i \in 0 .. Eq(s) : i = 0 \/ Chr(s, stray, i - 1) # Space})
ValueAt(s) == Min({i \in Eq(s) + 1 .. End(s) : i = End(s) \/ s[i] # Space})
CommentAt(s) == Comment(s, ValueAt(s), End(s))
Stop(s, stray) ==
    Max({i \in 0 .. CommentAt(s) :
            i = 0 \/ (IF i - 1 = Cut(s, stray) THEN 0 ELSE Chr(s, stray, i - 1)) > Space})
From(s, stray, i) == SubSeq(s, i, Min({k \in {End(s), Cut(s, stray), Stop(s, stray)} : k >= i}) - 1)

LEMMA ParseValueDef ==
    ASSUME NEW s, NEW stray
    PROVE  /\ Ink(s) = {} \/ s[Min(Ink(s))] = Hash => ParseValue(s, stray) = [ret |-> -1]
           /\ Ink(s) # {} /\ s[Min(Ink(s))] # Hash =>
                IF EqualSigns(s) = {} \/ From(s, stray, Min(Ink(s))) = <<>>
                THEN ParseValue(s, stray) = [ret |-> -2]
                ELSE ParseValue(s, stray) = [ret |-> 0, key |-> From(s, stray, Min(Ink(s))),
                                             val |-> From(s, stray, ValueAt(s))]
<1>1. ParseValue(s, stray) =
        CASE Ink(s) = {} \/ (Ink(s) # {} /\ s[Min(Ink(s))] = Hash) -> [ret |-> -1]
          [] Ink(s) # {} /\ s[Min(Ink(s))] # Hash /\ EqualSigns(s) = {} -> [ret |-> -2]
          [] OTHER -> IF From(s, stray, Min(Ink(s))) = <<>> THEN [ret |-> -2]
                      ELSE [ret |-> 0, key |-> From(s, stray, Min(Ink(s))),
                            val |-> From(s, stray, ValueAt(s))]
  BY DEF ParseValue, Ink, EqualSigns, Eq, End, Chr, Cut, ValueAt, CommentAt, Stop, From
<1> QED
  BY <1>1

(* Where they lie.                                                         *)
LEMMA Positions ==
    ASSUME NEW s \in CStrings, Ink(s) # {}
    PROVE  /\ Min(Ink(s)) \in Ink(s) /\ \A i \in Ink(s) : Min(Ink(s)) <= i
           /\ End(s) - 1 \in Ink(s) /\ \A i \in Ink(s) : i < End(s)
           /\ Ink(s) \in SUBSET (1 .. Len(s)) /\ End(s) \in 2 .. Len(s) + 1
<1>1. DOMAIN s = 1 .. Len(s) /\ Len(s) \in Nat
  BY DEF CStrings
<1>2. Ink(s) \in SUBSET (1 .. Len(s)) /\ Ink(s) \in SUBSET Nat /\ Ink(s) \in SUBSET (0 .. Len(s))
  BY <1>1 DEF Ink
<1>3. Min(Ink(s)) \in Ink(s) /\ \A i \in Ink(s) : Min(Ink(s)) <= i
  BY <1>2, MinOf
<1>4. Max(Ink(s)) \in Ink(s) /\ \A i \in Ink(s) : i <= Max(Ink(s))
  BY <1>1, <1>2, MaxOf
<1>5. Max(Ink(s)) \in 1 .. Len(s) /\ \A i \in Ink(s) : i \in Int
  BY <1>2, <1>4
<1>6. Max(Ink(s)) = End(s) - 1 /\ End(s) \in 2 .. Len(s) + 1
  BY <1>1, <1>5 DEF End
<1>7. \A i \in Ink(s) : i < End(s)
  BY <1>4, <1>5 DEF End
<1> QED
  BY <1>2, <1>3, <1>4, <1>6, <1>7

LEMMA Cuts ==
    ASSUME NEW s \in CStrings, NEW stray \in Int, EqualSigns(s) # {}
    PROVE  /\ Ink(s) # {} /\ Eq(s) \in Ink(s) /\ s[Eq(s)] = Equals
           /\ \A i \in DOMAIN s : s[i] = Equals => Eq(s) <= i
           /\ Cut(s, stray) \in 0 .. Eq(s)
           /\ ValueAt(s) \in Eq(s) + 1 .. End(s)
           /\ CommentAt(s) \in ValueAt(s) .. End(s)
           /\ Stop(s, stray) \in 0 .. CommentAt(s)
<1>1. DOMAIN s = 1 .. Len(s) /\ Len(s) \in Nat
  BY DEF CStrings
<1>2. EqualSigns(s) \in SUBSET Nat
  BY <1>1 DEF EqualSigns
<1>3. Eq(s) \in EqualSigns(s) /\ \A i \in EqualSigns(s) : Eq(s) <= i
  BY <1>2, MinOf DEF Eq
<1>4. Eq(s) \in Ink(s) /\ s[Eq(s)] = Equals /\ \A i \in DOMAIN s : s[i] = Equals => Eq(s) <= i
  BY <1>3 DEF EqualSigns, Ink, Equals, Blanks
<1>5. Ink(s) # {}
  BY <1>4
<1>6. End(s) \in Nat /\ Eq(s) \in Nat /\ Eq(s) + 1 \in Nat /\ Eq(s) + 1 <= End(s)
  <2>1. Eq(s) < End(s) /\ End(s) \in 2 .. Len(s) + 1 /\ Eq(s) \in 1 .. Len(s)
    BY <1>4, <1>5, Positions
  <2> QED
    BY <1>1, <2>1
<1>7. Cut(s, stray) \in 0 .. Eq(s)
  <2> DEFINE S == {i \in 0 .. Eq(s) : i = 0 \/ Chr(s, stray, i - 1) # Space}
  <2>1. S \in SUBSET (0 .. Eq(s)) /\ 0 \in S
    BY <1>6
  <2> HIDE DEF S
  <2>2. Max(S) \in S
    BY <1>6, <2>1, MaxOf
  <2> QED
    BY <2>1, <2>2 DEF Cut, S
<1>8. ValueAt(s) \in Eq(s) + 1 .. End(s)
  <2> DEFINE S == {i \in Eq(s) + 1 .. End(s) : i = End(s) \/ s[i] # Space}
  <2>1. S \in SUBSET Nat /\ S \in SUBSET (Eq(s) + 1 .. End(s)) /\ End(s) \in S
    BY <1>6
  <2> HIDE DEF S
  <2>2. Min(S) \in S
    BY <2>1, MinOf
  <2> QED
    BY <2>1, <2>2 DEF ValueAt, S
<1>9. CommentAt(s) \in ValueAt(s) .. End(s) /\ CommentAt(s) \in Nat
  <2> DEFINE S == {i \in ValueAt(s) .. End(s) : i = End(s) \/ s[i] = Hash}
  <2>0. ValueAt(s) \in Nat /\ ValueAt(s) <= End(s)
    BY <1>6, <1>8
  <2>1. S \in SUBSET Nat /\ S \in SUBSET (ValueAt(s) .. End(s)) /\ End(s) \in S
    BY <1>6, <2>0
  <2> HIDE DEF S
  <2>2. Min(S) \in S
    BY <2>1, MinOf
  <2> QED
    BY <2>1, <2>2 DEF CommentAt, Comment, S
<1>10. Stop(s, stray) \in 0 .. CommentAt(s)
  <2> DEFINE S == {i \in 0 .. CommentAt(s) :
                      i = 0 \/ (IF i - 1 = Cut(s, stray) THEN 0 ELSE Chr(s, stray, i - 1)) > Space}
  <2>1. S \in SUBSET (0 .. CommentAt(s)) /\ 0 \in S
    BY <1>9
  <2> HIDE DEF S
  <2>2. Max(S) \in S
    BY <1>9, <2>1, MaxOf
  <2> QED
    BY <2>1, <2>2 DEF Stop, S
<1> QED
  BY <1>4, <1>5, <1>7, <1>8, <1>9, <1>10

LEMMA CutsAreNumbers ==
    ASSUME NEW s \in CStrings, NEW stray \in Int, EqualSigns(s) # {}
    PROVE  /\ Len(s) \in Nat /\ DOMAIN s = 1 .. Len(s)
           /\ End(s) \in Nat /\ 2 <= End(s) /\ End(s) <= Len(s) + 1
           /\ Eq(s) \in 1 .. Len(s) /\ Eq(s) < End(s)
           /\ {End(s), Cut(s, stray), Stop(s, stray)} \subseteq Int
<1>1. Len(s) \in Nat /\ DOMAIN s = 1 .. Len(s)
  BY DEF CStrings
<1>2. Ink(s) # {}
  BY Cuts
<1>3. End(s) \in 2 .. Len(s) + 1
  BY <1>2, Positions
<1>4. Eq(s) \in 1 .. Len(s) /\ Eq(s) < End(s)
  <2>1. Eq(s) \in Ink(s)
    BY Cuts
  <2> QED
    BY <1>2, <2>1, Positions
<1>5. Cut(s, stray) \in 0 .. Eq(s)
  BY Cuts
<1>6. /\ CommentAt(s) \in ValueAt(s) .. End(s)
      /\ Stop(s, stray) \in 0 .. CommentAt(s)
  BY Cuts
<1>7. End(s) \in Int /\ Cut(s, stray) \in Int /\ Stop(s, stray) \in Int
  BY <1>1, <1>3, <1>4, <1>5, <1>6
<1>8. {End(s), Cut(s, stray), Stop(s, stray)} \subseteq Int
  BY <1>7
<1> QED
  BY <1>1, <1>3, <1>4, <1>8

LEMMA ValueNumbers ==
    ASSUME NEW s \in CStrings, EqualSigns(s) # {}
    PROVE  /\ Len(s) \in Nat /\ End(s) \in Int /\ 2 <= End(s) /\ End(s) <= Len(s) + 1
           /\ Eq(s) \in Int /\ 1 <= Eq(s) /\ Eq(s) <= Len(s) /\ Eq(s) < End(s)
           /\ ValueAt(s) \in Int /\ Eq(s) + 1 <= ValueAt(s) /\ ValueAt(s) <= End(s)
           /\ CommentAt(s) \in Int /\ ValueAt(s) <= CommentAt(s) /\ CommentAt(s) <= End(s)
<1>1. \A stray \in Int :
          /\ Len(s) \in Nat /\ End(s) \in Nat /\ 2 <= End(s) /\ End(s) <= Len(s) + 1
          /\ Eq(s) \in 1 .. Len(s) /\ Eq(s) < End(s)
  BY CutsAreNumbers
<1>2. \A stray \in Int :
          /\ ValueAt(s) \in Eq(s) + 1 .. End(s)
          /\ CommentAt(s) \in ValueAt(s) .. End(s)
  BY Cuts
<1>3. 0 \in Int
  OBVIOUS
<1>4. /\ Len(s) \in Nat /\ End(s) \in Nat /\ 2 <= End(s) /\ End(s) <= Len(s) + 1
      /\ Eq(s) \in 1 .. Len(s) /\ Eq(s) < End(s)
      /\ ValueAt(s) \in Eq(s) + 1 .. End(s)
      /\ CommentAt(s) \in ValueAt(s) .. End(s)
  BY <1>1, <1>2, <1>3
<1>5. Eq(s) \in Int /\ End(s) \in Int /\ 1 <= Eq(s) /\ Eq(s) <= Len(s)
  BY <1>4
<1>6. ValueAt(s) \in Int /\ Eq(s) + 1 <= ValueAt(s) /\ ValueAt(s) <= End(s)
  BY <1>4, <1>5
<1>7. CommentAt(s) \in Int /\ ValueAt(s) <= CommentAt(s) /\ CommentAt(s) <= End(s)
  BY <1>4, <1>5, <1>6
<1> QED
  BY <1>4, <1>5, <1>6, <1>7

(* What begins at i ends before the next of the three NULs.                *)
LEMMA FromIs ==
    ASSUME NEW s \in CStrings, NEW stray \in Int, EqualSigns(s) # {},
           NEW i \in 1 .. End(s), NEW e \in {End(s), Cut(s, stray), Stop(s, stray)}, i <= e,
           \A k \in {End(s), Cut(s, stray), Stop(s, stray)} : k < i \/ e <= k
    PROVE  From(s, stray, i) = SubSeq(s, i, e - 1)
<1> DEFINE K == {k \in {End(s), Cut(s, stray), Stop(s, stray)} : k >= i}
<1>1. \A k \in {End(s), Cut(s, stray), Stop(s, stray)} : k \in Int
  BY CutsAreNumbers
<1>2. K \in SUBSET Int /\ e \in K /\ \A k \in K : k >= e
  BY <1>1
<1> HIDE DEF K
<1>3. Min(K) = e
  BY <1>2, MinIs
<1> QED
  BY <1>3 DEF From, K

LEMMA SubString ==
    ASSUME NEW s \in CStrings, NEW i \in Nat \ {0}, NEW j \in Int, j <= Len(s)
    PROVE  SubSeq(s, i, j) \in CStrings
<1>1. i \in Int /\ \A k \in i .. j : s[k] \in Codes
  BY DEF CStrings
<1> QED
  BY <1>1, SubSeqProperties DEF CStrings

LEMMA FromType ==
    ASSUME NEW s \in CStrings, NEW stray \in Int, EqualSigns(s) # {}, NEW i \in 1 .. End(s)
    PROVE  /\ From(s, stray, i) \in CStrings
           /\ From(s, stray, i) # <<>> => From(s, stray, i)[1] = s[i]
<1> DEFINE M == {End(s), Cut(s, stray), Stop(s, stray)}
           K == {k \in M : k >= i}
<1>0. M \in SUBSET Int /\ End(s) \in M
  BY CutsAreNumbers
<1>1. End(s) \in 2 .. Len(s) + 1 /\ Len(s) \in Nat /\ DOMAIN s = 1 .. Len(s)
  BY CutsAreNumbers
<1> HIDE DEF M
<1>2. K \in SUBSET Nat /\ End(s) \in K
  <2>1. i \in Nat /\ 1 <= i /\ End(s) >= i
    BY <1>1
  <2>2. \A k \in K : k \in Int /\ k >= i
    BY <1>0
  <2>3. End(s) \in K
    BY <1>0, <2>1
  <2> HIDE DEF K
  <2>4. \A k \in K : k \in Nat
    BY <2>1, <2>2
  <2> QED
    BY <2>3, <2>4
<1> HIDE DEF K
<1>3. Min(K) \in K /\ Min(K) <= End(s)
  BY <1>2, MinOf
<1>4. Min(K) \in i .. End(s)
  <2>1. Min(K) \in Int /\ Min(K) >= i
    BY <1>0, <1>3 DEF K
  <2> QED
    BY <1>1, <1>3, <2>1
<1>5. From(s, stray, i) = SubSeq(s, i, Min(K) - 1)
  BY DEF From, K, M
<1>6. /\ i \in Nat \ {0} /\ Min(K) - 1 \in Int /\ Min(K) - 1 <= Len(s)
      /\ i \in Int /\ \A k \in i .. Min(K) - 1 : k \in 1 .. Len(s)
  BY <1>1, <1>4
<1>7. SubSeq(s, i, Min(K) - 1) \in CStrings
  BY <1>6, SubString
<1>8. ASSUME SubSeq(s, i, Min(K) - 1) # <<>>
      PROVE  SubSeq(s, i, Min(K) - 1)[1] = s[i]
  <2>1. \A k \in i .. Min(K) - 1 : s[k] \in Codes
    BY <1>1, <1>6 DEF CStrings
  <2>2. i <= Min(K) - 1
    <3>1. i > Min(K) - 1 => SubSeq(s, i, Min(K) - 1) = <<>>
      BY <1>6, SubSeqEmpty
    <3> QED
      BY <1>6, <1>8, <3>1
  <2>3. 1 \in 1 .. (Min(K) - 1) - i + 1
    BY <1>6, <2>2
  <2>4. SubSeq(s, i, Min(K) - 1)[1] = s[i + 1 - 1]
    BY <1>6, <2>1, <2>3, SubSeqProperties
  <2>5. i + 1 - 1 = i
    BY <1>6
  <2> QED
    BY <2>4, <2>5
<1> QED
  BY <1>5, <1>7, <1>8

(* What parseValue returns.                                                *)
LEMMA Parsed ==
    ASSUME NEW s \in CStrings, NEW stray \in Int
    PROVE  LET r == ParseValue(s, stray)
           IN  \/ r.ret = -1 /\ (Ink(s) = {} \/ s[Min(Ink(s))] = Hash)
               \/ r.ret = -2
               \/ r.ret = 0 /\ r.key \in CStrings /\ r.val \in CStrings
<1> DEFINE p == Min(Ink(s))
<1>1. CASE Ink(s) = {} \/ s[p] = Hash
  BY <1>1, ParseValueDef
<1>2. CASE Ink(s) # {} /\ s[p] # Hash
  <2>1. CASE EqualSigns(s) = {} \/ From(s, stray, p) = <<>>
    BY <1>2, <2>1, ParseValueDef
  <2>2. CASE ~ (EqualSigns(s) = {} \/ From(s, stray, p) = <<>>)
    <3>1. p \in 1 .. End(s) /\ ValueAt(s) \in 1 .. End(s)
      <4>1. p \in Ink(s) /\ Ink(s) \in SUBSET (1 .. Len(s)) /\ p < End(s) /\ End(s) \in 2 .. Len(s) + 1
        BY <1>2, Positions
      <4>2. ValueAt(s) \in Eq(s) + 1 .. End(s) /\ Eq(s) \in Ink(s)
        BY <2>2, Cuts
      <4>3. Len(s) \in Nat
        BY DEF CStrings
      <4>4. p \in 1 .. Len(s) /\ Eq(s) \in 1 .. Len(s)
        BY <4>1, <4>2
      <4> HIDE DEF p
      <4> QED
        BY <4>1, <4>2, <4>3, <4>4
    <3>2. From(s, stray, p) \in CStrings /\ From(s, stray, ValueAt(s)) \in CStrings
      BY <2>2, <3>1, FromType
    <3>3. ParseValue(s, stray) = [ret |-> 0, key |-> From(s, stray, p), val |-> From(s, stray, ValueAt(s))]
      BY <1>2, <2>2, ParseValueDef
    <3> QED
      BY <3>2, <3>3
  <2> QED
    BY <2>1, <2>2
<1> QED
  BY <1>1, <1>2

LEMMA BracketedAt ==
    ASSUME NEW line \in CStrings, Bracketed(line)
    PROVE  LastInk(line) \in 2 .. Len(line)
<1>1. Len(line) \in Nat /\ Len(line) > 2 /\ line[1] = Open /\ line[LastInk(line)] = Close /\ DOMAIN line = 1 .. Len(line)
  BY DEF Bracketed, CStrings
<1>2. Ink(line) \in SUBSET (0 .. Len(line)) /\ 1 \in Ink(line)
  BY <1>1 DEF Ink, Open, Blanks
<1>3. LastInk(line) = Max(Ink(line))
  BY DEF LastInk, Ink
<1>4. LastInk(line) \in Ink(line) /\ 1 <= LastInk(line)
  BY <1>1, <1>2, <1>3, MaxOf
<1>5. LastInk(line) # 1
  BY <1>1 DEF Open, Close
<1>6. LastInk(line) \in 0 .. Len(line)
  BY <1>2, <1>4
<1> QED
  BY <1>1, <1>4, <1>5, <1>6

(* A section line is cut before its last bracket.                          *)
LEMMA Section ==
    ASSUME NEW line \in CStrings
    PROVE  /\ IsSectionName(line) \in Seq(CStrings)
           /\ AfterIsSectionName(line) \in CStrings
<1>1. CASE Bracketed(line)
  <2>1. LastInk(line) \in 2 .. Len(line) /\ Len(line) \in Nat
    BY <1>1, BracketedAt DEF CStrings
  <2>2. LastInk(line) - 1 \in Int /\ LastInk(line) - 1 <= Len(line)
    BY <2>1
  <2>3. SubSeq(line, 2, LastInk(line) - 1) \in CStrings
    BY <2>2, SubString
  <2>4. SubSeq(line, 1, LastInk(line) - 1) \in CStrings
    BY <2>2, SubString
  <2>5. <<SubSeq(line, 2, LastInk(line) - 1)>> \in Seq(CStrings) /\ <<>> \in Seq(CStrings)
    BY <2>3
  <2> QED
    BY <1>1, <2>4, <2>5 DEF IsSectionName, AfterIsSectionName
<1>2. CASE ~Bracketed(line)
  <2>1. <<>> \in Seq(CStrings)
    OBVIOUS
  <2> QED
    BY <1>2, <2>1 DEF IsSectionName, AfterIsSectionName
<1> QED
  BY <1>1, <1>2

-----------------------------------------------------------------------------
(* The store                                                               *)

Accepted == CStrings \X CStrings \X CStrings

(* Every value of the store is the list of what was accepted for its key,  *)
(* and nothing was accepted that has no value.                             *)
Stored(map, acc) ==
    /\ \A s \in DOMAIN map : \A k \in DOMAIN map[s] :
           map[s][k] \in Seq(Int) /\ Parts(map[s][k]) = Values(acc, s, k)
    /\ \A i \in DOMAIN acc : Has(map, acc[i][1], acc[i][2])

StoreInv(c) ==
    /\ c = [m |-> c.m, configMap |-> c.configMap, accepted |-> c.accepted, reading |-> c.reading]
    /\ c.m \in Seq(CStrings) /\ c.accepted \in Seq(Accepted) /\ c.reading \in BOOLEAN
    /\ c.m # <<>> => c.m[1] \in DOMAIN c.configMap
    /\ Stored(c.configMap, c.accepted)

(* A new section is empty.                                                 *)
LEMMA SectionAdded ==
    ASSUME NEW map, NEW acc, Stored(map, acc), NEW name, name \notin DOMAIN map
    PROVE  Stored(With(map, name, <<>>), acc)
<1> DEFINE map2 == With(map, name, <<>>)
<1>1. /\ DOMAIN map2 = DOMAIN map \cup {name} /\ map2[name] = <<>>
      /\ \A s \in DOMAIN map : map2[s] = map[s]
  <2>1. \A s \in DOMAIN map : s # name
    OBVIOUS
  <2>2. /\ DOMAIN map2 = DOMAIN map \cup {name} /\ map2[name] = <<>>
        /\ \A s \in DOMAIN map : s # name => map2[s] = map[s]
    BY DEF With
  <2> QED
    BY <2>1, <2>2
<1>2. DOMAIN <<>> = {}
  OBVIOUS
<1> HIDE DEF map2
<1> QED
  BY <1>1, <1>2 DEF Stored, Has, map2

(* A value is added to its key, or to a new key of its section.            *)
LEMMA ValueAdded ==
    ASSUME NEW map, NEW acc \in Seq(Accepted), Stored(map, acc),
           NEW name \in CStrings, name \in DOMAIN map, NEW key \in CStrings, NEW val \in CStrings
    PROVE  Stored([map EXCEPT ![name] = Insert(map[name], key, val)], Append(acc, <<name, key, val>>))
<1> DEFINE section == Insert(map[name], key, val)
           map2 == [map EXCEPT ![name] = section]
           a == <<name, key, val>>
           acc2 == Append(acc, a)
           data == IF key \in DOMAIN map[name] THEN map[name][key] \o <<0>> \o val ELSE val
<1>1. a \in Accepted /\ a[1] = name /\ a[2] = key /\ a[3] = val
  BY DEF Accepted
<1>2. /\ DOMAIN section = DOMAIN map[name] \cup {key} /\ section[key] = data
      /\ \A k \in DOMAIN map[name] : k # key => section[k] = map[name][k]
  <2>1. section = With(map[name], key, data)
    BY DEF Insert
  <2> HIDE DEF section, data
  <2> QED
    BY <2>1 DEF With
<1> HIDE DEF section, data
<1>3. /\ DOMAIN map2 = DOMAIN map /\ map2[name] = section
      /\ \A s \in DOMAIN map : s # name => map2[s] = map[s]
  OBVIOUS
<1>4. \A s, k : Values(acc2, s, k) = IF name = s /\ key = k THEN Append(Values(acc, s, k), val)
                                     ELSE Values(acc, s, k)
  <2> HIDE DEF a
  <2> QED
    BY <1>1, ValuesAppend
<1>5. /\ DOMAIN acc2 = 1 .. Len(acc) + 1 /\ acc2[Len(acc) + 1] = a /\ DOMAIN acc = 1 .. Len(acc)
      /\ \A i \in 1 .. Len(acc) : acc2[i] = acc[i]
      /\ Len(acc) \in Nat
  <2> HIDE DEF a
  <2>1. acc2 \in Seq(Accepted) /\ Len(acc2) = Len(acc) + 1
    BY <1>1, AppendProperties
  <2>2. DOMAIN acc2 = 1 .. Len(acc) + 1 /\ DOMAIN acc = 1 .. Len(acc) /\ Len(acc) \in Nat
    BY <2>1
  <2> QED
    BY <1>1, <2>2, AppendProperties
<1> HIDE DEF map2, acc2
<1>6. data \in Seq(Int) /\ Parts(data) = Append(Values(acc, name, key), val)
  <2>1. CASE key \in DOMAIN map[name]
    <3>1. map[name][key] \in Seq(Int) /\ Parts(map[name][key]) = Values(acc, name, key)
      BY <2>1 DEF Stored
    <3>2. data = map[name][key] \o <<0>> \o val
      BY <2>1 DEF data
    <3>3. Parts(data) = Append(Values(acc, name, key), val)
      BY <3>1, <3>2, PartsAppend
    <3>4. val \in Seq(Int)
      BY DEF CStrings, Codes
    <3> QED
      BY <3>1, <3>2, <3>3, <3>4
  <2>2. CASE key \notin DOMAIN map[name]
    <3>1. data = val /\ val \in Seq(Int)
      BY <2>2 DEF data, CStrings, Codes
    <3>2. Given(acc, name, key) = {}
      BY <2>2 DEF Given, Stored, Has
    <3>3. Values(acc, name, key) = <<>>
      BY <3>2, NoValues
    <3>4. Append(<<>>, val) = <<val>>
      OBVIOUS
    <3> QED
      BY <3>1, <3>3, <3>4, PartsOne
  <2> QED
    BY <2>1, <2>2
<1>7. ASSUME NEW s \in DOMAIN map2, NEW k \in DOMAIN map2[s]
      PROVE  map2[s][k] \in Seq(Int) /\ Parts(map2[s][k]) = Values(acc2, s, k)
  <2>1. CASE s # name
    <3>1. s \in DOMAIN map /\ k \in DOMAIN map[s] /\ map2[s] = map[s] /\ Values(acc2, s, k) = Values(acc, s, k)
      BY <1>3, <1>4, <2>1
    <3> QED
      BY <3>1 DEF Stored
  <2>2. CASE s = name /\ k # key
    <3>1. /\ s \in DOMAIN map /\ k \in DOMAIN map[s] /\ map2[s][k] = map[s][k]
          /\ Values(acc2, s, k) = Values(acc, s, k)
      BY <1>2, <1>3, <1>4, <2>2
    <3> QED
      BY <3>1 DEF Stored
  <2>3. CASE s = name /\ k = key
    BY <1>2, <1>3, <1>4, <1>6, <2>3
  <2> QED
    BY <2>1, <2>2, <2>3
<1>8. ASSUME NEW i \in DOMAIN acc2
      PROVE  Has(map2, acc2[i][1], acc2[i][2])
  <2>1. CASE i = Len(acc) + 1
    BY <1>1, <1>2, <1>3, <1>5, <2>1 DEF Has
  <2>2. CASE i # Len(acc) + 1
    <3>1. i \in DOMAIN acc /\ acc2[i] = acc[i]
      BY <1>5, <2>2
    <3>2. Has(map, acc2[i][1], acc2[i][2])
      BY <3>1 DEF Stored
    <3> HIDE DEF a
    <3> QED
      BY <1>2, <1>3, <3>2 DEF Has
  <2> QED
    BY <2>1, <2>2
<1> QED
  BY <1>7, <1>8 DEF Stored, map2, acc2, section

LEMMA LineKept ==
    ASSUME NEW c, StoreInv(c), NEW line \in CStrings, NEW stray \in Int
    PROVE  StoreInv(LoadLine(c, line, stray))
<1> DEFINE section == IsSectionName(line)
           r == ParseValue(AfterIsSectionName(line), stray)
           c2 == LoadLine(c, line, stray)
<1>1. section \in Seq(CStrings)
  BY Section
<1>2. \/ r.ret = -1
      \/ r.ret = -2
      \/ r.ret = 0 /\ r.key \in CStrings /\ r.val \in CStrings
  BY Section, Parsed
<1>3. c = [m |-> c.m, configMap |-> c.configMap, accepted |-> c.accepted, reading |-> c.reading]
  BY DEF StoreInv
<1> HIDE DEF section, r
<1>4. CASE section # <<>>
  <2>1. c2 = [c EXCEPT !.m = section,
                       !.configMap = IF section[1] \in DOMAIN @ THEN @ ELSE With(@, section[1], <<>>)]
    BY <1>4 DEF LoadLine, section
  <2>2. /\ c2.m = section /\ c2.accepted = c.accepted /\ c2.reading = c.reading
        /\ c2.configMap = IF section[1] \in DOMAIN c.configMap THEN c.configMap
                          ELSE With(c.configMap, section[1], <<>>)
        /\ c2 = [m |-> c2.m, configMap |-> c2.configMap, accepted |-> c2.accepted, reading |-> c2.reading]
    BY <1>3, <2>1
  <2> HIDE DEF c2
  <2>3. Stored(c2.configMap, c2.accepted)
    BY <2>2, SectionAdded DEF StoreInv
  <2>4. section[1] \in DOMAIN c2.configMap
    <3>1. CASE section[1] \in DOMAIN c.configMap
      BY <2>2, <3>1
    <3>2. CASE section[1] \notin DOMAIN c.configMap
      <4>1. c2.configMap = With(c.configMap, section[1], <<>>)
        BY <2>2, <3>2
      <4>2. DOMAIN With(c.configMap, section[1], <<>>) = DOMAIN c.configMap \cup {section[1]}
        BY DEF With
      <4> QED
        BY <4>1, <4>2
    <3> QED
      BY <3>1, <3>2
  <2> QED
    BY <1>1, <2>2, <2>3, <2>4 DEF StoreInv, c2
<1>5. CASE section = <<>> /\ r.ret = -1
  <2>1. c2 = c
    BY <1>5 DEF LoadLine, section, r
  <2> QED
    BY <2>1
<1>6. CASE section = <<>> /\ (r.ret = -2 \/ (r.ret = 0 /\ c.m = <<>>))
  <2>1. c2 = [c EXCEPT !.reading = FALSE]
    BY <1>6 DEF LoadLine, section, r
  <2>2. /\ c2.m = c.m /\ c2.accepted = c.accepted /\ c2.reading = FALSE /\ c2.configMap = c.configMap
        /\ c2 = [m |-> c2.m, configMap |-> c2.configMap, accepted |-> c2.accepted, reading |-> c2.reading]
    BY <1>3, <2>1
  <2> HIDE DEF c2
  <2> QED
    BY <2>2 DEF StoreInv, c2
<1>7. CASE section = <<>> /\ r.ret = 0 /\ c.m # <<>>
  <2>1. c2 = [c EXCEPT !.configMap[c.m[1]] = Insert(@, r.key, r.val),
                       !.accepted = Append(@, <<c.m[1], r.key, r.val>>)]
    BY <1>7 DEF LoadLine, section, r
  <2>2. c.m[1] \in DOMAIN c.configMap /\ c.m[1] \in CStrings /\ c.accepted \in Seq(Accepted)
    <3>1. c.m \in Seq(CStrings) /\ c.m # <<>>
      BY <1>7 DEF StoreInv
    <3> QED
      BY <1>7, <3>1 DEF StoreInv
  <2>3. /\ c2.m = c.m /\ c2.accepted = Append(c.accepted, <<c.m[1], r.key, r.val>>)
        /\ c2.reading = c.reading
        /\ c2.configMap = [c.configMap EXCEPT ![c.m[1]] = Insert(c.configMap[c.m[1]], r.key, r.val)]
        /\ c2 = [m |-> c2.m, configMap |-> c2.configMap, accepted |-> c2.accepted, reading |-> c2.reading]
    BY <1>3, <2>1
  <2> HIDE DEF c2
  <2>4. r.key \in CStrings /\ r.val \in CStrings
    BY <1>2, <1>7
  <2>5. Stored(c2.configMap, c2.accepted)
    BY <2>2, <2>3, <2>4, ValueAdded DEF StoreInv
  <2>6. c2.accepted \in Seq(Accepted)
    <3>1. <<c.m[1], r.key, r.val>> \in Accepted
      BY <2>2, <2>4 DEF Accepted
    <3> QED
      BY <2>2, <2>3, <3>1
  <2>7. c.m[1] \in DOMAIN c2.configMap
    BY <2>2, <2>3
  <2> QED
    BY <2>3, <2>5, <2>6, <2>7 DEF StoreInv, c2
<1> QED
  BY <1>2, <1>4, <1>5, <1>6, <1>7

-----------------------------------------------------------------------------
(* The loads                                                               *)

ConfigSpec(lists) == ConfigInit(lists) /\ [][ConfigNext]_configVars

ConfigTypeOK ==
    /\ files \in Seq(Seq(CStrings)) /\ fileNo \in 0 .. Len(files)
    /\ fileNo > 0 => lineNo \in 0 .. Len(files[fileNo])
    /\ config.reading => fileNo > 0
    /\ fileNo = 0 => lineNo = 0

ConfigIInv == ConfigTypeOK /\ StoreInv(config)

LEMMA ConfigStart ==
    ASSUME NEW lists \in SUBSET Seq(Seq(CStrings)), ConfigInit(lists)
    PROVE  ConfigIInv
<1>1. /\ files \in Seq(Seq(CStrings)) /\ fileNo = 0 /\ lineNo = 0
      /\ config = [m |-> <<>>, configMap |-> <<>>, accepted |-> <<>>, reading |-> FALSE]
  BY DEF ConfigInit, NoConfig
<1>2. ConfigTypeOK
  BY <1>1 DEF ConfigTypeOK
<1>3. DOMAIN <<>> = {} /\ <<>> \in Seq(CStrings) /\ <<>> \in Seq(Accepted)
  OBVIOUS
<1>4. Stored(<<>>, <<>>)
  BY <1>3 DEF Stored
<1>5. /\ config.m = <<>> /\ config.configMap = <<>> /\ config.accepted = <<>> /\ config.reading = FALSE
      /\ config = [m |-> config.m, configMap |-> config.configMap,
                   accepted |-> config.accepted, reading |-> config.reading]
  BY <1>1
<1>6. StoreInv(config)
  BY <1>3, <1>4, <1>5 DEF StoreInv
<1> QED
  BY <1>2, <1>6 DEF ConfigIInv

LEMMA ConfigStep ==
    ASSUME ConfigIInv, [ConfigNext]_configVars
    PROVE  ConfigIInv'
<1> USE DEF ConfigIInv
<1>0. /\ files \in Seq(Seq(CStrings)) /\ fileNo \in 0 .. Len(files) /\ Len(files) \in Nat
      /\ \A n \in 1 .. Len(files) : files[n] \in Seq(CStrings) /\ Len(files[n]) \in Nat
  BY DEF ConfigTypeOK
<1>1. CASE LoadOpen
  <2>1. /\ files' = files /\ fileNo' = fileNo + 1 /\ lineNo' = 0 /\ fileNo' \in 1 .. Len(files)
    BY <1>0, <1>1 DEF LoadOpen
  <2>2. ConfigTypeOK'
    BY <1>0, <2>1 DEF ConfigTypeOK
  <2>3. CASE config' = [config EXCEPT !.m = <<>>, !.reading = TRUE]
    <3>1. /\ config'.m = <<>> /\ config'.reading = TRUE
          /\ config'.configMap = config.configMap /\ config'.accepted = config.accepted
          /\ config' = [m |-> config'.m, configMap |-> config'.configMap,
                        accepted |-> config'.accepted, reading |-> config'.reading]
      BY <2>3 DEF StoreInv
    <3>2. <<>> \in Seq(CStrings)
      OBVIOUS
    <3> QED
      BY <2>2, <3>1, <3>2 DEF StoreInv
  <2>4. CASE UNCHANGED config
    BY <2>2, <2>4 DEF StoreInv
  <2> QED
    BY <1>1, <2>3, <2>4 DEF LoadOpen
<1>2. CASE LoadNext
  <2>1. /\ files' = files /\ fileNo' = fileNo /\ lineNo' = lineNo + 1
        /\ config.reading /\ lineNo < Len(files[fileNo])
    BY <1>2 DEF LoadNext
  <2>2. fileNo \in 1 .. Len(files) /\ lineNo \in 0 .. Len(files[fileNo])
    BY <1>0, <2>1 DEF ConfigTypeOK
  <2>3. lineNo + 1 \in 1 .. Len(files[fileNo])
    BY <1>0, <2>1, <2>2
  <2>4. files[fileNo][lineNo + 1] \in CStrings
    BY <1>0, <2>2, <2>3
  <2>5. ConfigTypeOK'
    BY <1>0, <2>1, <2>2, <2>3 DEF ConfigTypeOK
  <2>6. PICK stray \in StrayBytes : config' = LoadLine(config, files[fileNo][lineNo + 1], stray)
    BY <1>2 DEF LoadNext
  <2>7. stray \in Int
    BY ConfigAssumption
  <2>8. StoreInv(LoadLine(config, files[fileNo][lineNo + 1], stray))
    BY <2>4, <2>7, LineKept
  <2>9. StoreInv(config')
    BY <2>6, <2>8
  <2> QED
    BY <2>5, <2>9 DEF StoreInv
<1>3. CASE LoadEnd
  <2>1. /\ UNCHANGED <<files, fileNo, lineNo>> /\ config.reading
        /\ config' = [config EXCEPT !.reading = FALSE]
    BY <1>3 DEF LoadEnd
  <2>2. /\ config'.m = config.m /\ config'.reading = FALSE
        /\ config'.configMap = config.configMap /\ config'.accepted = config.accepted
        /\ config' = [m |-> config'.m, configMap |-> config'.configMap,
                      accepted |-> config'.accepted, reading |-> config'.reading]
    BY <2>1 DEF StoreInv
  <2>3. ConfigTypeOK'
    BY <2>1, <2>2 DEF ConfigTypeOK
  <2> QED
    BY <2>2, <2>3 DEF StoreInv
<1>4. CASE UNCHANGED configVars
  BY <1>4 DEF configVars, ConfigTypeOK, StoreInv
<1> QED
  BY <1>1, <1>2, <1>3, <1>4 DEF ConfigNext

LEMMA StoredInOrder ==
    ASSUME ConfigIInv
    PROVE  ListsInOrder
<1> DEFINE map == config.configMap
           acc == config.accepted
<1>1. Stored(map, acc)
  BY DEF ConfigIInv, StoreInv
<1>2. ASSUME NEW s \in DOMAIN map, NEW k \in DOMAIN map[s]
      PROVE  LET given == {i \in DOMAIN acc : acc[i][1] = s /\ acc[i][2] = k}
                 vals == [n \in 1 .. Cardinality(given) |-> acc[Nth(given, n)][3]]
             IN  /\ GetStringList(map, s, k) = vals
                 /\ vals # <<>> /\ GetString(map, s, k, <<>>) = vals[1]
                 /\ GetIntList(map, s, k) = [i \in DOMAIN vals |-> Atoi(vals[i])]
                 /\ GetInt(map, s, k, 7) = IF IsInt(vals[1]) THEN Atoi(vals[1]) ELSE 7
  <2> DEFINE vals == Values(acc, s, k)
             data == map[s][k]
  <2>1. data \in Seq(Int) /\ Parts(data) = vals
    BY <1>1 DEF Stored
  <2>2. Has(map, s, k)
    BY DEF Has
  <2> HIDE DEF vals, data, map, acc
  <2>3. vals # <<>> /\ vals[1] = CString(data)
    <3>1. Cardinality(Starts(data)) \in Nat \ {0} /\ Parts(data)[1] = CString(data)
      BY <2>1, PartsFirst
    <3>2. 1 \in DOMAIN Parts(data)
      BY <3>1, PartsDef
    <3> QED
      BY <2>1, <3>1, <3>2
  <2>4. GetStringList(map, s, k) = vals
    BY <2>1, <2>2 DEF GetStringList, data
  <2>5. GetString(map, s, k, <<>>) = vals[1]
    BY <2>2, <2>3 DEF GetString, data
  <2>6. GetIntList(map, s, k) = [i \in DOMAIN vals |-> Atoi(vals[i])]
    BY <2>4 DEF GetIntList
  <2>7. GetInt(map, s, k, 7) = IF IsInt(vals[1]) THEN Atoi(vals[1]) ELSE 7
    BY <2>2, <2>5 DEF GetInt, StrToInt
  <2> QED
    BY <2>3, <2>4, <2>5, <2>6, <2>7 DEF vals, Values, Given
<1>3. \A i \in DOMAIN acc : Has(map, acc[i][1], acc[i][2])
  BY <1>1 DEF Stored
<1> QED
  BY <1>2, <1>3 DEF ListsInOrder

(* For all files whose lines are C strings, opened and read in any order   *)
(* of sections and keys, and whichever loads fail: the list of a key is    *)
(* what was accepted for it, in its order, a single value is the first,    *)
(* and nothing that was accepted is lost (config.cpp:89-204).              *)
THEOREM StoreKeepsOrder ==
    ASSUME NEW lists \in SUBSET Seq(Seq(CStrings))
    PROVE  ConfigSpec(lists) => []ListsInOrder
<1>1. ConfigInit(lists) => ConfigIInv
  BY ConfigStart
<1>2. ConfigIInv /\ [ConfigNext]_configVars => ConfigIInv'
  BY ConfigStep
<1>3. ConfigIInv => ListsInOrder
  BY StoredInOrder
<1> QED
  BY <1>1, <1>2, <1>3, PTL DEF ConfigSpec

-----------------------------------------------------------------------------
(* The meaning of a line                                                   *)

(* The first c from m on, or the end.                                      *)
FirstAt(s, c, m, e) ==
    /\ e \in m .. Len(s) + 1
    /\ e = Len(s) + 1 \/ s[e] = c
    /\ \A j \in m .. e - 1 : s[j] # c

LEMMA FirstExists ==
    ASSUME NEW s \in CStrings, NEW c, NEW m \in 1 .. Len(s) + 1
    PROVE  \E e : FirstAt(s, c, m, e)
<1> DEFINE S == {e \in m .. Len(s) + 1 : e = Len(s) + 1 \/ s[e] = c}
<1>0. Len(s) \in Nat
  BY DEF CStrings
<1>1. S \in SUBSET Nat /\ Len(s) + 1 \in S
  BY <1>0
<1>2. PICK e \in S : \A y \in S : e <= y
  BY <1>1, LeastNat
<1>3. \A j \in m .. e - 1 : s[j] # c
  BY <1>0, <1>2
<1> QED
  BY <1>2, <1>3 DEF FirstAt

LEMMA UptoIs ==
    ASSUME NEW s \in CStrings, NEW c, NEW m \in 1 .. Len(s) + 1, NEW e, FirstAt(s, c, m, e)
    PROVE  Upto(SubSeq(s, m, Len(s)), c) = SubSeq(s, m, e - 1)
<1> DEFINE t == SubSeq(s, m, Len(s))
           S == {i \in DOMAIN t : t[i] = c} \cup {Len(t) + 1}
<1>0. Len(s) \in Nat /\ m \in Int /\ \A j \in m .. Len(s) : s[j] \in Codes
  BY DEF CStrings
<1>1. /\ t \in Seq(Codes)
      /\ Len(t) = IF m <= Len(s) THEN Len(s) - m + 1 ELSE 0
      /\ \A j \in 1 .. Len(s) - m + 1 : t[j] = s[m + j - 1]
  BY <1>0, SubSeqProperties
<1> HIDE DEF t
<1>2. Len(t) = Len(s) + 1 - m /\ DOMAIN t = 1 .. Len(t)
  BY <1>0, <1>1
<1>3. /\ e \in Int /\ m <= e /\ e <= Len(s) + 1
      /\ e = Len(s) + 1 \/ s[e] = c
      /\ \A j \in m .. e - 1 : s[j] # c
  BY <1>0 DEF FirstAt
<1>4. S \in SUBSET Int
  BY <1>0, <1>2
<1>5. e - m + 1 \in S
  <2>1. CASE e = Len(s) + 1
    BY <2>1, <1>0, <1>2
  <2>2. CASE e # Len(s) + 1
    <3>1. e - m + 1 \in 1 .. Len(s) - m + 1 /\ m + (e - m + 1) - 1 = e
      BY <1>0, <1>3, <2>2
    <3>2. t[e - m + 1] = s[m + (e - m + 1) - 1]
      BY <1>1, <3>1
    <3>3. e - m + 1 \in DOMAIN t
      BY <1>0, <1>2, <3>1
    <3> QED
      BY <1>3, <2>2, <3>1, <3>2, <3>3
  <2> QED
    BY <2>1, <2>2
<1>6. ASSUME NEW j \in S
      PROVE  j >= e - m + 1
  <2>1. CASE j = Len(t) + 1
    BY <2>1, <1>0, <1>2, <1>3
  <2>2. CASE j # Len(t) + 1
    <3>1. j \in 1 .. Len(s) - m + 1 /\ t[j] = c
      BY <2>2, <1>0, <1>2
    <3>2. s[m + j - 1] = c
      BY <1>1, <3>1
    <3>3. m + j - 1 \notin m .. e - 1
      BY <1>3, <3>2
    <3>4. j \in Int /\ j >= 1
      BY <3>1
    <3> QED
      BY <1>0, <1>3, <3>3, <3>4
  <2> QED
    BY <2>1, <2>2
<1>7. Min(S) = e - m + 1
  <2> HIDE DEF S
  <2> QED
    BY <1>4, <1>5, <1>6, MinIs
<1>8. Upto(t, c) = SubSeq(t, 1, (e - m + 1) - 1)
  BY <1>7 DEF Upto
<1>9. SubSeq(SubSeq(s, m, Len(s)), 1, (e - m + 1) - 1)
        = SubSeq(s, m + 1 - 1, m + ((e - m + 1) - 1) - 1)
  <2>1. /\ m \in Nat \ {0} /\ Len(s) \in Int /\ Len(s) <= Len(s) /\ s \in Seq(Codes) /\ 1 \in Nat \ {0}
        /\ (e - m + 1) - 1 \in Int /\ (e - m + 1) - 1 <= Len(s) - m + 1
    BY <1>0, <1>3 DEF CStrings
  <2> QED
    BY <2>1, SubOfSub
<1>10. m + 1 - 1 = m /\ m + ((e - m + 1) - 1) - 1 = e - 1
  BY <1>0, <1>3
<1> QED
  BY <1>8, <1>9, <1>10 DEF t

(* The part of s from m to n without the blanks around it.                 *)
LEMMA BareNone ==
    ASSUME NEW s \in CStrings, NEW m \in Nat \ {0}, NEW n \in Int, n <= Len(s),
           \A j \in Ink(s) : j \notin m .. n
    PROVE  Bare(SubSeq(s, m, n)) = <<>>
<1> DEFINE t == SubSeq(s, m, n)
           S == {i \in DOMAIN t : t[i] \notin Blanks}
<1>0. Len(s) \in Nat /\ DOMAIN s = 1 .. Len(s) /\ m \in Int /\ \A j \in m .. n : s[j] \in Codes
  BY DEF CStrings
<1>1. /\ t \in Seq(Codes)
      /\ Len(t) = IF m <= n THEN n - m + 1 ELSE 0
      /\ \A j \in 1 .. n - m + 1 : t[j] = s[m + j - 1]
  BY <1>0, SubSeqProperties
<1> HIDE DEF t
<1>2. Len(t) \in Nat /\ DOMAIN t = 1 .. Len(t)
  BY <1>1
<1>3. ASSUME NEW j \in DOMAIN t
      PROVE  t[j] \in Blanks
  <2>1. j \in 1 .. n - m + 1
    BY <1>1, <1>2
  <2>2. t[j] = s[m + j - 1] /\ m + j - 1 \in m .. n /\ m + j - 1 \in DOMAIN s
    BY <1>0, <1>1, <2>1
  <2> QED
    BY <2>2 DEF Ink
<1>4. S = {}
  BY <1>3
<1>5. Min(S \cup {Len(t) + 1}) = Len(t) + 1
  <2>1. {Len(t) + 1} \in SUBSET Int /\ Len(t) + 1 >= Len(t) + 1 /\ S \cup {Len(t) + 1} = {Len(t) + 1}
    BY <1>2, <1>4
  <2> QED
    BY <2>1, MinIs
<1>6. Max(S \cup {(Len(t) + 1) - 1}) = Len(t)
  <2>1. /\ {Len(t)} \in SUBSET Int /\ Len(t) <= Len(t) /\ (Len(t) + 1) - 1 = Len(t)
        /\ S \cup {(Len(t) + 1) - 1} = {Len(t)}
    BY <1>2, <1>4
  <2> QED
    BY <2>1, MaxIs
<1>7. Bare(t) = SubSeq(t, Len(t) + 1, Len(t))
  BY <1>5, <1>6 DEF Bare, Trim
<1>8. Len(t) + 1 \in Int /\ Len(t) \in Int /\ Len(t) < Len(t) + 1
  BY <1>2
<1>9. Bare(t) = <<>>
  BY <1>7, <1>8, SubSeqEmpty
<1> QED
  BY <1>9 DEF t

LEMMA BareIs ==
    ASSUME NEW s \in CStrings, NEW m \in Nat \ {0}, NEW n \in Int, n <= Len(s),
           NEW a \in Ink(s), NEW b \in Ink(s), a \in m .. n, b \in m .. n,
           \A j \in Ink(s) : j \in m .. n => a <= j /\ j <= b
    PROVE  Bare(SubSeq(s, m, n)) = SubSeq(s, a, b)
<1> DEFINE t == SubSeq(s, m, n)
           S == {i \in DOMAIN t : t[i] \notin Blanks}
<1>0. Len(s) \in Nat /\ DOMAIN s = 1 .. Len(s) /\ m \in Int /\ \A j \in m .. n : s[j] \in Codes
  BY DEF CStrings
<1>1. /\ t \in Seq(Codes)
      /\ Len(t) = IF m <= n THEN n - m + 1 ELSE 0
      /\ \A j \in 1 .. n - m + 1 : t[j] = s[m + j - 1]
  BY <1>0, SubSeqProperties
<1> HIDE DEF t
<1>2. Len(t) = n - m + 1 /\ DOMAIN t = 1 .. n - m + 1 /\ a \in Int /\ b \in Int
  BY <1>1
<1>3. ASSUME NEW j \in 1 .. n - m + 1
      PROVE  /\ j \in S <=> m + j - 1 \in Ink(s)
             /\ m + j - 1 \in m .. n
  <2>0. m + j - 1 \in m .. n /\ m + j - 1 \in 1 .. Len(s)
    BY <1>0
  <2>1. t[j] = s[m + j - 1] /\ m + j - 1 \in m .. n /\ m + j - 1 \in DOMAIN s
    BY <1>0, <1>1, <2>0
  <2> QED
    BY <1>2, <2>1 DEF Ink
<1>4. S \in SUBSET (1 .. n - m + 1)
  BY <1>2
<1>5. a - m + 1 \in S /\ b - m + 1 \in S
  <2>1. a - m + 1 \in 1 .. n - m + 1 /\ b - m + 1 \in 1 .. n - m + 1
    BY <1>2
  <2>2. m + (a - m + 1) - 1 = a /\ m + (b - m + 1) - 1 = b
    BY <1>2
  <2> QED
    BY <1>3, <2>1, <2>2
<1>6. ASSUME NEW j \in S
      PROVE  j \in Int /\ a - m + 1 <= j /\ j <= b - m + 1
  <2>1. j \in 1 .. n - m + 1
    BY <1>4
  <2>2. a <= m + j - 1 /\ m + j - 1 <= b
    BY <1>3, <2>1
  <2> QED
    BY <1>2, <2>1, <2>2
<1> HIDE DEF S
<1>7. Min(S \cup {Len(t) + 1}) = a - m + 1
  <2>1. /\ S \cup {Len(t) + 1} \in SUBSET Int /\ a - m + 1 \in S \cup {Len(t) + 1}
        /\ \A j \in S \cup {Len(t) + 1} : j >= a - m + 1
    BY <1>2, <1>5, <1>6
  <2> QED
    BY <2>1, MinIs
<1>8. Max(S \cup {(a - m + 1) - 1}) = b - m + 1
  <2>1. /\ S \cup {(a - m + 1) - 1} \in SUBSET Int /\ b - m + 1 \in S \cup {(a - m + 1) - 1}
        /\ \A j \in S \cup {(a - m + 1) - 1} : j <= b - m + 1
    BY <1>2, <1>5, <1>6
  <2> QED
    BY <2>1, MaxIs
<1>9. Bare(t) = SubSeq(t, a - m + 1, b - m + 1)
  BY <1>7, <1>8 DEF Bare, Trim, S
<1>10. SubSeq(SubSeq(s, m, n), a - m + 1, b - m + 1)
         = SubSeq(s, m + (a - m + 1) - 1, m + (b - m + 1) - 1)
  <2>1. /\ s \in Seq(Codes) /\ a - m + 1 \in Nat \ {0} /\ b - m + 1 \in Int
        /\ b - m + 1 <= n - m + 1
    BY <1>2 DEF CStrings
  <2> QED
    BY <2>1, SubOfSub
<1>11. m + (a - m + 1) - 1 = a /\ m + (b - m + 1) - 1 = b
  BY <1>2
<1> QED
  BY <1>9, <1>10, <1>11 DEF t

(* In a plain line all blanks but the last are spaces.                     *)
LEMMA PlainLine ==
    ASSUME NEW s \in CStrings, Plain(s)
    PROVE  /\ Len(s) \in Nat /\ DOMAIN s = 1 .. Len(s) /\ Ink(s) \in SUBSET (1 .. Len(s))
           /\ \A i \in 1 .. Len(s) : s[i] \in Int
           /\ \A i \in Ink(s) : s[i] > Space
           /\ \A i \in 1 .. Len(s) : i \notin Ink(s) => s[i] <= Space
           /\ \A i \in 1 .. Len(s) : i \notin Ink(s) /\ i < Len(s) => s[i] = Space
           /\ \A i \in 1 .. Len(s) : s[i] = Hash \/ s[i] = Equals => i \in Ink(s)
<1>1. Len(s) \in Nat /\ DOMAIN s = 1 .. Len(s) /\ \A i \in 1 .. Len(s) : s[i] \in Int
  BY DEF CStrings, Codes
<1>2. \A i \in 1 .. Len(s) : s[i] >= 32 \/ (s[i] = 10 /\ i = Len(s))
  BY <1>1 DEF Plain, Space
<1>3. \A i \in 1 .. Len(s) : i \in Ink(s) <=> s[i] \notin {32, 9, 13, 10}
  BY <1>1 DEF Ink, Blanks
<1>4. Ink(s) \in SUBSET (1 .. Len(s))
  BY <1>1 DEF Ink
<1>5. ASSUME NEW i \in 1 .. Len(s)
      PROVE  /\ i \in Ink(s) => s[i] > 32
             /\ i \notin Ink(s) => s[i] <= 32
             /\ i \notin Ink(s) /\ i < Len(s) => s[i] = 32
             /\ s[i] = 35 \/ s[i] = 61 => i \in Ink(s)
  <2> DEFINE c == s[i]
  <2>a. c \in Int
    BY <1>1
  <2>b. c >= 32 \/ (c = 10 /\ i = Len(s))
    BY <1>2
  <2>1. c \in Int /\ (c >= 32 \/ (c = 10 /\ i = Len(s))) /\ (i \in Ink(s) <=> c \notin {32, 9, 13, 10})
    BY <1>3, <2>a, <2>b
  <2>2. i < Len(s) => i # Len(s)
    <3>1. \A k \in Nat : ~ (k < k)
      OBVIOUS
    <3> QED
      BY <1>1, <3>1
  <2> HIDE DEF c
  <2>3. i \in Ink(s) => c > 32
    BY <2>1
  <2>4. i \notin Ink(s) => c \in {32, 9, 13, 10}
    BY <2>1
  <2>5. i \notin Ink(s) => c <= 32 /\ c # 35 /\ c # 61
    BY <2>4
  <2>6. i \notin Ink(s) /\ i < Len(s) => c = 32
    BY <2>1, <2>2, <2>4
  <2> QED
    BY <2>3, <2>5, <2>6 DEF c
<1> QED
  BY <1>1, <1>4, <1>5 DEF Space, Hash, Equals

LEMMA CutIs ==
    ASSUME NEW s \in CStrings, Plain(s), NEW stray \in Int, EqualSigns(s) # {},
           NEW b \in Ink(s), b < Eq(s), \A j \in Ink(s) : j < Eq(s) => j <= b
    PROVE  Cut(s, stray) = b + 1
<1> DEFINE S == {i \in 0 .. Eq(s) : i = 0 \/ Chr(s, stray, i - 1) # Space}
<1>1. /\ Len(s) \in Nat /\ Ink(s) \in SUBSET (1 .. Len(s))
      /\ \A i \in Ink(s) : s[i] > Space
      /\ \A i \in 1 .. Len(s) : i \notin Ink(s) /\ i < Len(s) => s[i] = Space
  BY PlainLine
<1>2. Eq(s) \in 1 .. Len(s) /\ b \in 1 .. Len(s)
  BY <1>1, Cuts
<1>3. b + 1 \in 0 .. Eq(s) /\ (b + 1) - 1 = b /\ b # 0
  BY <1>2
<1>4. Chr(s, stray, b) # Space
  BY <1>1, <1>3 DEF Chr, Space
<1>5. b + 1 \in S
  BY <1>3, <1>4
<1>6. ASSUME NEW i \in 0 .. Eq(s), i > b + 1
      PROVE  i \notin S
  <2>1. /\ i - 1 \in 1 .. Len(s) /\ i - 1 < Len(s) /\ i - 1 < Eq(s) /\ ~ (i - 1 <= b) /\ i # 0 /\ i - 1 # 0
    BY <1>1, <1>2, <1>6
  <2>2. i - 1 \notin Ink(s)
    BY <2>1
  <2>3. Chr(s, stray, i - 1) = Space
    BY <1>1, <2>1, <2>2 DEF Chr
  <2> QED
    BY <2>1, <2>3
<1>7. S \in SUBSET Int /\ \A i \in S : i <= b + 1
  BY <1>2, <1>6
<1> HIDE DEF S
<1>8. Max(S) = b + 1
  BY <1>5, <1>7, MaxIs
<1> QED
  BY <1>8 DEF Cut, S

LEMMA ValueAtIs ==
    ASSUME NEW s \in CStrings, EqualSigns(s) # {},
           NEW v \in Eq(s) + 1 .. End(s), v = End(s) \/ s[v] # Space,
           \A j \in Eq(s) + 1 .. v - 1 : s[j] = Space
    PROVE  ValueAt(s) = v
<1> DEFINE S == {i \in Eq(s) + 1 .. End(s) : i = End(s) \/ s[i] # Space}
<1>1. Eq(s) \in Int /\ End(s) \in Int
  BY ValueNumbers
<1>2. S \in SUBSET Int /\ v \in S /\ v \in Int
  BY <1>1
<1>3. ASSUME NEW i \in S
      PROVE  i >= v
  <2>1. i \in Eq(s) + 1 .. End(s) /\ (i = End(s) \/ s[i] # Space)
    OBVIOUS
  <2>2. i < v => i \in Eq(s) + 1 .. v - 1 /\ i # End(s)
    BY <1>1, <1>2, <2>1
  <2> QED
    BY <1>1, <1>2, <2>1, <2>2
<1> HIDE DEF S
<1>4. Min(S) = v
  BY <1>2, <1>3, MinIs
<1> QED
  BY <1>4 DEF ValueAt, S

LEMMA CommentAtIs ==
    ASSUME NEW s \in CStrings, EqualSigns(s) # {},
           NEW c \in ValueAt(s) .. End(s), c = End(s) \/ s[c] = Hash,
           \A j \in ValueAt(s) .. c - 1 : s[j] # Hash
    PROVE  CommentAt(s) = c
<1> DEFINE S == {i \in ValueAt(s) .. End(s) : i = End(s) \/ s[i] = Hash}
<1>1. ValueAt(s) \in Int /\ End(s) \in Int
  BY ValueNumbers
<1>2. S \in SUBSET Int /\ c \in S /\ c \in Int
  BY <1>1
<1>3. ASSUME NEW i \in S
      PROVE  i >= c
  <2>1. i \in ValueAt(s) .. End(s) /\ (i = End(s) \/ s[i] = Hash)
    OBVIOUS
  <2>2. i < c => i \in ValueAt(s) .. c - 1 /\ i # End(s)
    BY <1>1, <1>2, <2>1
  <2> QED
    BY <1>1, <1>2, <2>1, <2>2
<1> HIDE DEF S
<1>4. Min(S) = c
  BY <1>2, <1>3, MinIs
<1> QED
  BY <1>4 DEF CommentAt, Comment, S

LEMMA StopIs ==
    ASSUME NEW s \in CStrings, NEW stray \in Int, EqualSigns(s) # {},
           NEW t \in 2 .. CommentAt(s), t - 1 # Cut(s, stray), s[t - 1] > Space,
           \A i \in t .. CommentAt(s) - 1 : i = Cut(s, stray) \/ (s[i] \in Int /\ s[i] <= Space)
    PROVE  Stop(s, stray) = t
<1> DEFINE S == {i \in 0 .. CommentAt(s) :
                    i = 0 \/ (IF i - 1 = Cut(s, stray) THEN 0 ELSE Chr(s, stray, i - 1)) > Space}
<1>1. CommentAt(s) \in Int
  BY ValueNumbers
<1>2. t \in 0 .. CommentAt(s) /\ t \in Int /\ t - 1 # 0
  BY <1>1
<1>3. t \in S
  BY <1>2 DEF Chr
<1>4. ASSUME NEW i \in 0 .. CommentAt(s), i > t
      PROVE  i \notin S
  <2>1. i - 1 \in t .. CommentAt(s) - 1 /\ i # 0 /\ i - 1 # 0
    BY <1>1, <1>2, <1>4
  <2>2. i - 1 = Cut(s, stray) \/ (s[i - 1] \in Int /\ s[i - 1] <= Space)
    BY <2>1
  <2>3. ~ ((IF i - 1 = Cut(s, stray) THEN 0 ELSE s[i - 1]) > Space)
    BY <2>2 DEF Space
  <2> QED
    BY <2>1, <2>3 DEF Chr
<1>5. S \in SUBSET Int /\ \A i \in S : i <= t
  <2>1. S \in SUBSET (0 .. CommentAt(s))
    OBVIOUS
  <2> HIDE DEF S
  <2> QED
    BY <1>1, <1>2, <1>4, <2>1
<1> HIDE DEF S
<1>6. Max(S) = t
  BY <1>3, <1>5, MaxIs
<1> QED
  BY <1>6 DEF Stop, S

(* The key ends at the last character before the '=' that is no blank.     *)
LEMMA KeyRead ==
    ASSUME NEW s \in CStrings, Plain(s), NEW stray \in Int, EqualSigns(s) # {},
           NEW p \in Ink(s), NEW b \in Ink(s), p <= b, b < Eq(s),
           \A j \in Ink(s) : j < Eq(s) => j <= b, Stop(s, stray) >= Eq(s)
    PROVE  /\ Cut(s, stray) = b + 1
           /\ From(s, stray, p) = SubSeq(s, p, b) /\ From(s, stray, p) # <<>>
<1>1. Cut(s, stray) = b + 1
  BY CutIs
<1>2. /\ End(s) \in Int /\ Eq(s) \in Int /\ Eq(s) < End(s) /\ Stop(s, stray) \in Int
      /\ Ink(s) \in SUBSET (1 .. Len(s)) /\ Len(s) \in Nat
  BY ValueNumbers, CutsAreNumbers, PlainLine
<1>3. p \in Int /\ b \in Int /\ 1 <= p /\ b <= Len(s)
  BY <1>2
<1>4. /\ p \in 1 .. End(s) /\ p <= b + 1 /\ b + 1 <= End(s) /\ b + 1 <= Stop(s, stray)
      /\ b + 1 <= b + 1 /\ (b + 1) - 1 = b
  BY <1>2, <1>3
<1>5. /\ b + 1 \in {End(s), Cut(s, stray), Stop(s, stray)}
      /\ \A k \in {End(s), Cut(s, stray), Stop(s, stray)} : k < p \/ b + 1 <= k
  BY <1>1, <1>4
<1>6. From(s, stray, p) = SubSeq(s, p, (b + 1) - 1)
  BY <1>4, <1>5, FromIs
<1>7. SubSeq(s, p, b) # <<>>
  <2>1. \A j \in p .. b : s[j] \in Codes
    BY <1>2, <1>3 DEF CStrings
  <2>2. Len(SubSeq(s, p, b)) = b - p + 1
    BY <1>3, <2>1, SubSeqProperties
  <2>3. b - p + 1 # 0 /\ Len(<<>>) = 0
    BY <1>3
  <2> QED
    BY <2>2, <2>3
<1> QED
  BY <1>1, <1>4, <1>6, <1>7

(* A value goes from the first to the last character that is no blank      *)
(* between '=' and the comment.                                            *)
LEMMA ValueRead ==
    ASSUME NEW s \in CStrings, Plain(s), NEW stray \in Int, EqualSigns(s) # {},
           NEW h, FirstAt(s, Hash, Eq(s) + 1, h),
           NEW a \in Ink(s), NEW z \in Ink(s), Eq(s) < a, a <= z, z < h,
           \A j \in Ink(s) : Eq(s) < j /\ j < h => a <= j /\ j <= z
    PROVE  Stop(s, stray) = z + 1 /\ ValueAt(s) = a /\ From(s, stray, a) = SubSeq(s, a, z)
<1>1. /\ Ink(s) \in SUBSET (1 .. Len(s)) /\ Len(s) \in Nat
      /\ \A i \in 1 .. Len(s) : s[i] \in Int
      /\ \A i \in Ink(s) : s[i] > Space
      /\ \A i \in 1 .. Len(s) : i \notin Ink(s) => s[i] <= Space
      /\ \A i \in 1 .. Len(s) : i \notin Ink(s) /\ i < Len(s) => s[i] = Space
      /\ \A i \in 1 .. Len(s) : s[i] = Hash => i \in Ink(s)
  BY PlainLine
<1>2. /\ End(s) \in Int /\ End(s) <= Len(s) + 1
      /\ Eq(s) \in Int /\ 1 <= Eq(s) /\ Eq(s) <= Len(s) /\ Eq(s) < End(s)
  BY ValueNumbers
<1>3. \A i \in Ink(s) : i \in Int /\ 1 <= i /\ i <= Len(s) /\ i < End(s)
  <2>1. \A i \in Ink(s) : i < End(s)
    BY Positions
  <2> QED
    BY <1>1, <2>1
<1>4. /\ h \in Int /\ Eq(s) + 1 <= h /\ h <= Len(s) + 1
      /\ h = Len(s) + 1 \/ s[h] = Hash
      /\ \A j \in Eq(s) + 1 .. h - 1 : s[j] # Hash
  BY <1>1, <1>2 DEF FirstAt
<1>5. a \in Int /\ z \in Int /\ 1 <= a /\ z <= Len(s) /\ z < End(s)
  BY <1>3
<1>6. ValueAt(s) = a
  <2>1. a \in Eq(s) + 1 .. End(s)
    BY <1>2, <1>5
  <2>2. s[a] # Space
    <3>1. s[a] > Space /\ s[a] \in Int
      BY <1>1
    <3> QED
      BY <3>1 DEF Space
  <2>3. ASSUME NEW j \in Eq(s) + 1 .. a - 1
        PROVE  s[j] = Space
    <3>1. j \in 1 .. Len(s) /\ j < Len(s) /\ Eq(s) < j /\ j < h /\ ~ (a <= j)
      BY <1>1, <1>2, <1>4, <1>5
    <3> QED
      BY <1>1, <3>1
  <2> QED
    BY <2>1, <2>2, <2>3, ValueAtIs
<1> DEFINE c == IF h = Len(s) + 1 THEN End(s) ELSE h
<1>7. CommentAt(s) = c
  <2>1. c = End(s) \/ s[c] = Hash
    BY <1>4
  <2>2. h # Len(s) + 1 => h < End(s)
    <3>1. h # Len(s) + 1 => h \in 1 .. Len(s)
      BY <1>1, <1>2, <1>4
    <3> QED
      BY <1>1, <1>3, <1>4, <3>1
  <2>3. c \in a .. End(s) /\ c <= h
    BY <1>1, <1>2, <1>4, <1>5, <2>2
  <2> HIDE DEF c
  <2>4. \A j \in a .. c - 1 : s[j] # Hash
    <3>1. \A j \in a .. c - 1 : j \in Eq(s) + 1 .. h - 1
      BY <1>2, <1>4, <1>5, <2>3
    <3> QED
      BY <1>4, <3>1
  <2> QED
    BY <1>6, <2>1, <2>3, <2>4, CommentAtIs
<1>8. c \in Int /\ z + 1 <= c /\ c <= h /\ c <= Len(s) + 1
  <2>1. h # Len(s) + 1 => h \in 1 .. Len(s)
    BY <1>1, <1>2, <1>4
  <2> QED
    BY <1>1, <1>2, <1>4, <1>5, <2>1
<1> HIDE DEF c
<1>9. Cut(s, stray) \in Int /\ Cut(s, stray) <= Eq(s)
  <2>1. Cut(s, stray) \in 0 .. Eq(s)
    BY Cuts
  <2> QED
    BY <1>2, <2>1
<1>10. Stop(s, stray) = z + 1
  <2>1. z + 1 \in 2 .. CommentAt(s) /\ (z + 1) - 1 = z /\ z # Cut(s, stray)
    BY <1>2, <1>5, <1>7, <1>8, <1>9
  <2>2. s[z] > Space
    BY <1>1
  <2>3. ASSUME NEW i \in z + 1 .. CommentAt(s) - 1
        PROVE  s[i] \in Int /\ s[i] <= Space
    <3>1. i \in 1 .. Len(s) /\ Eq(s) < i /\ i < h /\ ~ (i <= z)
      BY <1>1, <1>2, <1>4, <1>5, <1>7, <1>8
    <3> QED
      BY <1>1, <3>1
  <2> QED
    BY <2>1, <2>2, <2>3, StopIs
<1>11. From(s, stray, a) = SubSeq(s, a, z)
  <2>1. /\ a \in 1 .. End(s) /\ a <= z + 1 /\ z + 1 <= End(s) /\ z + 1 <= z + 1 /\ (z + 1) - 1 = z
        /\ Cut(s, stray) < a
    BY <1>2, <1>5, <1>9
  <2>2. /\ z + 1 \in {End(s), Cut(s, stray), Stop(s, stray)}
        /\ \A k \in {End(s), Cut(s, stray), Stop(s, stray)} : k < a \/ z + 1 <= k
    BY <1>10, <2>1
  <2>3. From(s, stray, a) = SubSeq(s, a, (z + 1) - 1)
    BY <2>1, <2>2, FromIs
  <2> QED
    BY <2>1, <2>3
<1> QED
  BY <1>6, <1>10, <1>11

(* Without a value, the comment is taken for it, from its '#' on, unless   *)
(* the walk back from the '#' ends there at once.                          *)
LEMMA CommentRead ==
    ASSUME NEW s \in CStrings, Plain(s), NEW stray \in Int, EqualSigns(s) # {},
           NEW h, FirstAt(s, Hash, Eq(s) + 1, h),
           \A j \in Ink(s) : ~ (Eq(s) < j /\ j < h),
           NEW b \in Ink(s), b < Eq(s), \A j \in Ink(s) : j < Eq(s) => j <= b
    PROVE  /\ Stop(s, stray) >= Eq(s)
           /\ ValueAt(s) = IF h = Len(s) + 1 THEN End(s) ELSE h
           /\ From(s, stray, ValueAt(s)) =
                IF s[Eq(s) - 1] = Space /\ ValueAt(s) = Eq(s) + 1 THEN <<>>
                ELSE SubSeq(s, ValueAt(s), End(s) - 1)
<1> DEFINE v == IF h = Len(s) + 1 THEN End(s) ELSE h
<1>1. /\ Ink(s) \in SUBSET (1 .. Len(s)) /\ Len(s) \in Nat
      /\ \A i \in 1 .. Len(s) : s[i] \in Int
      /\ \A i \in Ink(s) : s[i] > Space
      /\ \A i \in 1 .. Len(s) : i \notin Ink(s) => s[i] <= Space
      /\ \A i \in 1 .. Len(s) : i \notin Ink(s) /\ i < Len(s) => s[i] = Space
      /\ \A i \in 1 .. Len(s) : s[i] = Hash => i \in Ink(s)
  BY PlainLine
<1>2. /\ End(s) \in Int /\ End(s) <= Len(s) + 1
      /\ Eq(s) \in Int /\ 1 <= Eq(s) /\ Eq(s) <= Len(s) /\ Eq(s) < End(s)
  BY ValueNumbers
<1>3. \A i \in Ink(s) : i \in Int /\ 1 <= i /\ i <= Len(s) /\ i < End(s)
  <2>1. \A i \in Ink(s) : i < End(s)
    BY Positions
  <2> QED
    BY <1>1, <2>1
<1>4. /\ h \in Int /\ Eq(s) + 1 <= h /\ h <= Len(s) + 1
      /\ h = Len(s) + 1 \/ s[h] = Hash
  BY <1>1, <1>2 DEF FirstAt
<1>5. h # Len(s) + 1 => h \in Ink(s) /\ h <= Len(s)
  <2>1. h # Len(s) + 1 => h \in 1 .. Len(s)
    BY <1>1, <1>2, <1>4
  <2> QED
    BY <1>1, <1>4, <2>1
<1>6. h = Len(s) + 1 => End(s) = Eq(s) + 1
  <2>1. End(s) - 1 \in Ink(s)
    BY Positions
  <2>2. End(s) - 1 \in Int /\ End(s) - 1 <= Len(s) /\ Eq(s) <= End(s) - 1
    BY <1>2, <1>3, <2>1
  <2>3. h = Len(s) + 1 => ~ (Eq(s) < End(s) - 1)
    BY <1>1, <2>1, <2>2
  <2> QED
    BY <1>2, <2>2, <2>3
<1>7. v \in Int /\ Eq(s) + 1 <= v /\ v <= End(s) /\ v <= h /\ (v = End(s) \/ s[v] = Hash)
  <2>1. h # Len(s) + 1 => h < End(s)
    BY <1>3, <1>5
  <2> QED
    BY <1>1, <1>2, <1>4, <2>1
<1>8. ASSUME NEW j \in Eq(s) + 1 .. v - 1
      PROVE  j \in 1 .. Len(s) /\ s[j] = Space /\ s[j] \in Int
  <2>1. h # Len(s) + 1
    BY <1>2, <1>6, <1>8
  <2>2. v = h /\ h <= Len(s)
    BY <1>5, <2>1
  <2>3. j \in 1 .. Len(s) /\ j < Len(s) /\ Eq(s) < j /\ j < h
    BY <1>1, <1>2, <1>4, <2>2
  <2>4. s[j] = Space
    BY <1>1, <2>3
  <2> QED
    BY <1>1, <2>3, <2>4
<1>9. v # End(s) => s[v] # Space
  BY <1>7 DEF Hash, Space
<1> HIDE DEF v
<1>10. ValueAt(s) = v
  <2>1. v \in Eq(s) + 1 .. End(s)
    BY <1>2, <1>7
  <2> QED
    BY <1>8, <1>9, <2>1, ValueAtIs
<1>11. CommentAt(s) = v
  <2>1. v \in ValueAt(s) .. End(s) /\ \A j \in ValueAt(s) .. v - 1 : FALSE
    BY <1>2, <1>7, <1>10
  <2> QED
    BY <1>7, <2>1, CommentAtIs
<1>12. Cut(s, stray) = b + 1
  BY CutIs
<1>13. b \in Int /\ 1 <= b /\ s[b] > Space /\ s[b] # Space
  <2>1. s[b] \in Int
    BY <1>1
  <2> QED
    BY <1>1, <1>3, <2>1 DEF Space
<1>14. s[Eq(s)] > Space /\ Eq(s) \in Ink(s)
  <2>1. Eq(s) \in Ink(s)
    BY Cuts
  <2> QED
    BY <1>1, <2>1
<1>15. CASE s[Eq(s) - 1] = Space
  <2>1. b + 1 < Eq(s)
    <3>1. b # Eq(s) - 1
      BY <1>13, <1>15
    <3> QED
      BY <1>2, <1>13, <3>1
  <2>2. Stop(s, stray) = Eq(s) + 1
    <3>1. /\ Eq(s) + 1 \in 2 .. CommentAt(s) /\ (Eq(s) + 1) - 1 = Eq(s)
          /\ (Eq(s) + 1) - 1 # Cut(s, stray)
      BY <1>2, <1>7, <1>11, <1>12, <2>1
    <3>2. \A i \in Eq(s) + 1 .. CommentAt(s) - 1 : s[i] \in Int /\ s[i] <= Space
      BY <1>8, <1>11 DEF Space
    <3> QED
      BY <1>14, <3>1, <3>2, StopIs
  <2>3. CASE v = Eq(s) + 1
    <3>1. /\ v \in 1 .. End(s) /\ v <= v /\ v = Stop(s, stray)
          /\ v <= End(s) /\ Cut(s, stray) < v
      BY <1>2, <1>7, <1>12, <1>13, <2>1, <2>2, <2>3
    <3>2. /\ v \in {End(s), Cut(s, stray), Stop(s, stray)}
          /\ \A k \in {End(s), Cut(s, stray), Stop(s, stray)} : k < v \/ v <= k
      BY <3>1
    <3>3. From(s, stray, v) = SubSeq(s, v, v - 1)
      BY <3>1, <3>2, FromIs
    <3>4. SubSeq(s, v, v - 1) = <<>>
      <4>1. v \in Int /\ v - 1 \in Int /\ v - 1 < v
        BY <1>7
      <4> QED
        BY <4>1, SubSeqEmpty
    <3> QED
      BY <1>2, <1>10, <1>15, <2>2, <2>3, <3>3, <3>4 DEF v
  <2>4. CASE v # Eq(s) + 1
    <3>1. /\ v \in 1 .. End(s) /\ v <= End(s) /\ End(s) <= End(s)
          /\ Cut(s, stray) < v /\ Stop(s, stray) < v
      BY <1>2, <1>7, <1>12, <1>13, <2>1, <2>2, <2>4
    <3>2. /\ End(s) \in {End(s), Cut(s, stray), Stop(s, stray)}
          /\ \A k \in {End(s), Cut(s, stray), Stop(s, stray)} : k < v \/ End(s) <= k
      BY <3>1
    <3>3. From(s, stray, v) = SubSeq(s, v, End(s) - 1)
      BY <3>1, <3>2, FromIs
    <3> QED
      BY <1>2, <1>10, <1>15, <2>2, <2>4, <3>3 DEF v
  <2> QED
    BY <2>3, <2>4
<1>16. CASE s[Eq(s) - 1] # Space
  <2>1. b = Eq(s) - 1
    <3>1. Eq(s) - 1 \in 1 .. Len(s) /\ Eq(s) - 1 < Len(s) /\ Eq(s) - 1 < Eq(s)
      BY <1>1, <1>2, <1>13
    <3>2. Eq(s) - 1 \in Ink(s)
      BY <1>1, <1>16, <3>1
    <3>3. Eq(s) - 1 <= b
      BY <3>1, <3>2
    <3> QED
      BY <1>2, <1>13, <3>3
  <2>2. Stop(s, stray) = Eq(s)
    <3>1. /\ Eq(s) \in 2 .. CommentAt(s) /\ Eq(s) - 1 # Cut(s, stray) /\ s[Eq(s) - 1] > Space
      BY <1>2, <1>7, <1>11, <1>12, <1>13, <2>1
    <3>2. ASSUME NEW i \in Eq(s) .. CommentAt(s) - 1
          PROVE  i = Cut(s, stray) \/ (s[i] \in Int /\ s[i] <= Space)
      <4>1. CASE i = Eq(s)
        BY <1>2, <1>12, <1>13, <2>1, <4>1
      <4>2. CASE i # Eq(s)
        <5>1. i \in Eq(s) + 1 .. v - 1
          BY <1>2, <1>7, <1>11, <4>2
        <5> QED
          BY <1>8, <5>1 DEF Space
      <4> QED
        BY <4>1, <4>2
    <3> QED
      BY <3>1, <3>2, StopIs
  <2>3. /\ v \in 1 .. End(s) /\ v <= End(s) /\ End(s) <= End(s)
        /\ Cut(s, stray) < v /\ Stop(s, stray) < v
    BY <1>2, <1>7, <1>12, <1>13, <2>1, <2>2
  <2>4. /\ End(s) \in {End(s), Cut(s, stray), Stop(s, stray)}
        /\ \A k \in {End(s), Cut(s, stray), Stop(s, stray)} : k < v \/ End(s) <= k
    BY <2>3
  <2>5. From(s, stray, v) = SubSeq(s, v, End(s) - 1)
    BY <2>3, <2>4, FromIs
  <2>6. Stop(s, stray) >= Eq(s)
    BY <1>2, <2>2
  <2> QED
    BY <1>10, <1>16, <2>5, <2>6 DEF v
<1> QED
  BY <1>15, <1>16

LEMMA MeaningIs ==
    ASSUME NEW s \in CStrings, Plain(s), NEW h, FirstAt(s, Hash, 1, h), NEW q, FirstAt(s, Equals, 1, q)
    PROVE  IF \A j \in Ink(s) : ~ (j < h) THEN Meaning(s) = [ret |-> -1]
           ELSE IF q = Len(s) + 1 THEN Meaning(s) = [ret |-> -2]
           ELSE /\ Meaning(s).ret = 0 /\ Meaning(s).key = Bare(SubSeq(s, 1, q - 1))
                /\ Meaning(s).val = Bare(Upto(SubSeq(s, q + 1, Len(s)), Hash))
                /\ Meaning(s).comment = Bare(SubSeq(s, q + 1, Len(s)))
                /\ Meaning(s).apart <=>
                     1 < q /\ s[q - 1] = Space /\ q < Len(s) /\ s[q + 1] = Hash
<1>1. /\ Ink(s) \in SUBSET (1 .. Len(s)) /\ Len(s) \in Nat /\ s \in Seq(Codes)
      /\ h \in Int /\ 1 <= h /\ h <= Len(s) + 1 /\ q \in Int /\ 1 <= q /\ q <= Len(s) + 1
      /\ 1 \in 1 .. Len(s) + 1 /\ SubSeq(s, 1, Len(s)) = s
  <2>1. Ink(s) \in SUBSET (1 .. Len(s)) /\ Len(s) \in Nat /\ s \in Seq(Codes)
    BY PlainLine DEF CStrings
  <2>2. h \in 1 .. Len(s) + 1 /\ q \in 1 .. Len(s) + 1
    BY DEF FirstAt
  <2> QED
    BY <2>1, <2>2, SubSeqFull
<1>2. Upto(s, Hash) = SubSeq(s, 1, h - 1) /\ Upto(s, Equals) = SubSeq(s, 1, q - 1)
  <2>1. Upto(SubSeq(s, 1, Len(s)), Hash) = SubSeq(s, 1, h - 1)
    BY <1>1, UptoIs
  <2>2. Upto(SubSeq(s, 1, Len(s)), Equals) = SubSeq(s, 1, q - 1)
    BY <1>1, UptoIs
  <2> QED
    BY <1>1, <2>1, <2>2
<1>3. Bare(SubSeq(s, 1, h - 1)) = <<>> <=> \A j \in Ink(s) : ~ (j < h)
  <2>1. 1 \in Nat \ {0} /\ h - 1 \in Int /\ h - 1 <= Len(s)
    BY <1>1
  <2>2. CASE \A j \in Ink(s) : ~ (j < h)
    <3>1. \A j \in Ink(s) : j \notin 1 .. h - 1
      BY <1>1, <2>2
    <3> QED
      BY <2>1, <2>2, <3>1, BareNone
  <2>3. CASE ~ \A j \in Ink(s) : ~ (j < h)
    <3> DEFINE I == {j \in Ink(s) : j < h}
    <3>1. I # {} /\ I \in SUBSET Nat /\ I \in SUBSET (0 .. Len(s))
      BY <1>1, <2>3
    <3>2. PICK a \in I : \A j \in I : a <= j
      <4> HIDE DEF I
      <4> QED
        BY <3>1, LeastNat
    <3>3. PICK b \in I : \A j \in I : j <= b
      <4> HIDE DEF I
      <4> QED
        BY <1>1, <3>1, GreatestNat
    <3>4. /\ a \in Ink(s) /\ b \in Ink(s) /\ a \in 1 .. h - 1 /\ b \in 1 .. h - 1
          /\ \A j \in Ink(s) : j \in 1 .. h - 1 => a <= j /\ j <= b
      <4>1. \A j \in Ink(s) : j \in Int /\ 1 <= j /\ (j \in 1 .. h - 1 <=> j \in I)
        BY <1>1
      <4>2. a \in I /\ b \in I /\ a \in Ink(s) /\ b \in Ink(s)
        OBVIOUS
      <4> HIDE DEF I
      <4> QED
        BY <3>2, <3>3, <4>1, <4>2
    <3>5. Bare(SubSeq(s, 1, h - 1)) = SubSeq(s, a, b)
      BY <2>1, <3>4, BareIs
    <3>6. SubSeq(s, a, b) # <<>>
      <4>1. a \in Int /\ b \in Int /\ 1 <= a /\ b <= Len(s) /\ a <= b
        BY <1>1, <3>4
      <4>2. \A j \in a .. b : s[j] \in Codes
        BY <1>1, <4>1
      <4>3. Len(SubSeq(s, a, b)) = b - a + 1
        BY <4>1, <4>2, SubSeqProperties
      <4>4. b - a + 1 # 0 /\ Len(<<>>) = 0
        BY <4>1
      <4> QED
        BY <4>3, <4>4
    <3> QED
      BY <2>3, <3>5, <3>6
  <2> QED
    BY <2>2, <2>3
<1> DEFINE name == SubSeq(s, 1, q - 1)
           rest == SubSeq(s, q + 1, Len(s))
<1>4. Len(name) = q - 1 /\ (name = <<>> <=> q = 1) /\ (1 < q => name[Len(name)] = s[q - 1])
  <2>1. 1 \in Int /\ q - 1 \in Int /\ \A j \in 1 .. q - 1 : s[j] \in Codes
    BY <1>1
  <2>2. /\ name \in Seq(Codes)
        /\ Len(name) = IF 1 <= q - 1 THEN (q - 1) - 1 + 1 ELSE 0
        /\ \A j \in 1 .. (q - 1) - 1 + 1 : name[j] = s[1 + j - 1]
    BY <2>1, SubSeqProperties
  <2> HIDE DEF name
  <2>3. Len(name) = q - 1
    BY <1>1, <2>2
  <2>4. name = <<>> <=> Len(name) = 0
    BY <2>2
  <2>5. ASSUME 1 < q
        PROVE  name[Len(name)] = s[q - 1]
    <3>1. q - 1 \in 1 .. (q - 1) - 1 + 1 /\ 1 + (q - 1) - 1 = q - 1
      BY <1>1, <2>5
    <3> QED
      BY <2>2, <2>3, <3>1
  <2> QED
    BY <1>1, <2>3, <2>4, <2>5
<1>5. q <= Len(s) => (rest # <<>> /\ rest[1] = Hash <=> q < Len(s) /\ s[q + 1] = Hash)
  <2>1. q + 1 \in Int /\ Len(s) \in Int /\ \A j \in q + 1 .. Len(s) : s[j] \in Codes
    BY <1>1
  <2>2. /\ rest \in Seq(Codes)
        /\ Len(rest) = IF q + 1 <= Len(s) THEN Len(s) - (q + 1) + 1 ELSE 0
        /\ \A j \in 1 .. Len(s) - (q + 1) + 1 : rest[j] = s[(q + 1) + j - 1]
    BY <2>1, SubSeqProperties
  <2> HIDE DEF rest
  <2>3. rest # <<>> <=> Len(rest) # 0
    BY <2>2
  <2>4. Len(rest) # 0 <=> q < Len(s)
    <3>1. CASE q + 1 <= Len(s)
      <4>1. Len(rest) = Len(s) - (q + 1) + 1
        BY <2>2, <3>1
      <4>2. \A n, k \in Int : k + 1 <= n => n - (k + 1) + 1 # 0 /\ k < n
        OBVIOUS
      <4>3. Len(s) \in Int /\ q \in Int
        BY <1>1
      <4> QED
        BY <3>1, <4>1, <4>2, <4>3
    <3>2. CASE ~ (q + 1 <= Len(s))
      <4>1. Len(rest) = 0
        BY <2>2, <3>2
      <4> QED
        BY <1>1, <3>2, <4>1
    <3> QED
      BY <3>1, <3>2
  <2>5. ASSUME q < Len(s)
        PROVE  rest[1] = s[q + 1]
    <3>1. 1 \in 1 .. Len(s) - (q + 1) + 1 /\ (q + 1) + 1 - 1 = q + 1
      BY <1>1, <2>5
    <3>2. rest[1] = s[(q + 1) + 1 - 1]
      BY <2>2, <3>1
    <3> QED
      BY <3>1, <3>2
  <2> QED
    BY <2>3, <2>4, <2>5
<1>6. name = s <=> q = Len(s) + 1
  <2>1. q = Len(s) + 1 => name = s
    BY <1>1
  <2>2. name = s => Len(name) = Len(s)
    OBVIOUS
  <2> HIDE DEF name
  <2> QED
    BY <1>1, <1>4, <2>1, <2>2
<1>7. Len(name) + 2 = q + 1
  BY <1>1, <1>4
<1>8. Meaning(s) =
        CASE Bare(SubSeq(s, 1, h - 1)) = <<>> -> [ret |-> -1]
          [] Bare(SubSeq(s, 1, h - 1)) # <<>> /\ name = s -> [ret |-> -2]
          [] OTHER -> [ret |-> 0, key |-> Bare(name), val |-> Bare(Upto(rest, Hash)), comment |-> Bare(rest),
                       apart |-> name # <<>> /\ name[Len(name)] = Space /\ rest # <<>> /\ rest[1] = Hash]
  <2> HIDE DEF name
  <2>1. Upto(s, Equals) = name
    BY <1>2 DEF name
  <2> QED
    BY <1>2, <1>7, <2>1 DEF Meaning
<1> HIDE DEF name, rest
<1>9. CASE \A j \in Ink(s) : ~ (j < h)
  BY <1>3, <1>8, <1>9
<1>10. CASE (~ \A j \in Ink(s) : ~ (j < h)) /\ q = Len(s) + 1
  BY <1>3, <1>6, <1>8, <1>10
<1>11. CASE (~ \A j \in Ink(s) : ~ (j < h)) /\ q # Len(s) + 1
  <2>1. Meaning(s) =
          [ret |-> 0, key |-> Bare(name), val |-> Bare(Upto(rest, Hash)), comment |-> Bare(rest),
           apart |-> name # <<>> /\ name[Len(name)] = Space /\ rest # <<>> /\ rest[1] = Hash]
    BY <1>3, <1>6, <1>8, <1>11
  <2>2. /\ Meaning(s).ret = 0 /\ Meaning(s).key = Bare(name)
        /\ Meaning(s).val = Bare(Upto(rest, Hash)) /\ Meaning(s).comment = Bare(rest)
        /\ Meaning(s).apart = (name # <<>> /\ name[Len(name)] = Space /\ rest # <<>> /\ rest[1] = Hash)
    BY <2>1
  <2>3. q <= Len(s)
    BY <1>1, <1>11
  <2>4. Meaning(s).apart <=> 1 < q /\ s[q - 1] = Space /\ q < Len(s) /\ s[q + 1] = Hash
    <3>1. name # <<>> <=> 1 < q
      BY <1>1, <1>4
    <3> QED
      BY <1>4, <1>5, <2>2, <2>3, <3>1
  <2> QED
    BY <1>11, <2>2, <2>4 DEF name, rest
<1> QED
  BY <1>9, <1>10, <1>11

(* A plain line is read by its meaning.                                    *)
LEMMA PlainRead ==
    ASSUME NEW s \in CStrings, Plain(s), NEW stray \in Int
    PROVE  LET w == Meaning(s)
               r == ParseValue(s, stray)
           IN  IF w.ret # 0 THEN r = w
               ELSE IF w.key = <<>> THEN r.ret = -2 \/ r.key[1] = Equals
               ELSE /\ r.ret = 0 /\ r.key = w.key
                    /\ r.val = IF w.val = <<>> /\ ~w.apart THEN w.comment ELSE w.val
<1> DEFINE w == Meaning(s)
           r == ParseValue(s, stray)
           p == Min(Ink(s))
<1>1. /\ Ink(s) \in SUBSET (1 .. Len(s)) /\ Len(s) \in Nat
      /\ \A i \in 1 .. Len(s) : s[i] = Hash \/ s[i] = Equals => i \in Ink(s)
      /\ \A i \in Ink(s) : i \in Int /\ 1 <= i /\ i <= Len(s)
  BY PlainLine
<1>2. 1 \in 1 .. Len(s) + 1
  BY <1>1
<1>3. PICK h : FirstAt(s, Hash, 1, h)
  BY <1>2, FirstExists
<1>4. PICK q : FirstAt(s, Equals, 1, q)
  BY <1>2, FirstExists
<1>5. /\ h \in Int /\ 1 <= h /\ h <= Len(s) + 1 /\ (h = Len(s) + 1 \/ s[h] = Hash)
      /\ \A j \in 1 .. h - 1 : s[j] # Hash
      /\ q \in Int /\ 1 <= q /\ q <= Len(s) + 1 /\ (q = Len(s) + 1 \/ s[q] = Equals)
      /\ \A j \in 1 .. q - 1 : s[j] # Equals
  BY <1>1, <1>3, <1>4 DEF FirstAt
<1>6. Ink(s) # {} => p \in Ink(s) /\ p \in Int /\ 1 <= p /\ p <= Len(s) /\ \A j \in Ink(s) : p <= j
  <2>1. Ink(s) # {} => p \in Ink(s) /\ \A j \in Ink(s) : p <= j
    BY Positions
  <2> HIDE DEF p
  <2> QED
    BY <1>1, <2>1
<1> HIDE DEF p
<1>7. (\A j \in Ink(s) : ~ (j < h)) <=> (Ink(s) = {} \/ s[p] = Hash)
  <2>1. ASSUME \A j \in Ink(s) : ~ (j < h), Ink(s) # {}
        PROVE  s[p] = Hash
    <3>1. ~ (p < h)
      BY <1>6, <2>1
    <3>2. h \in 1 .. Len(s) /\ s[h] = Hash
      BY <1>1, <1>5, <1>6, <2>1, <3>1
    <3>3. p <= h
      BY <1>1, <1>6, <2>1, <3>2
    <3>4. p = h
      BY <1>5, <1>6, <2>1, <3>1, <3>3
    <3> QED
      BY <3>2, <3>4
  <2>2. ASSUME Ink(s) # {}, s[p] = Hash, NEW j \in Ink(s)
        PROVE  ~ (j < h)
    <3>1. p \notin 1 .. h - 1
      BY <1>5, <2>2
    <3>2. h <= p
      BY <1>5, <1>6, <2>2, <3>1
    <3>3. p <= j /\ j \in Int
      BY <1>1, <1>6, <2>2
    <3> QED
      BY <1>5, <1>6, <2>2, <3>2, <3>3
  <2> QED
    BY <2>1, <2>2
<1>8. EqualSigns(s) = {} <=> q = Len(s) + 1
  <2>1. q # Len(s) + 1 => q \in 1 .. Len(s) /\ s[q] = Equals
    BY <1>1, <1>5
  <2>2. q = Len(s) + 1 => \A j \in 1 .. Len(s) : s[j] # Equals
    BY <1>1, <1>5
  <2>3. DOMAIN s = 1 .. Len(s)
    BY DEF CStrings
  <2> QED
    BY <2>1, <2>2, <2>3 DEF EqualSigns
<1>9. CASE Ink(s) = {} \/ s[p] = Hash
  <2>1. w = [ret |-> -1]
    BY <1>3, <1>4, <1>7, <1>9, MeaningIs
  <2>2. r = [ret |-> -1]
    BY <1>9, ParseValueDef DEF p
  <2> QED
    BY <2>1, <2>2
<1>10. CASE Ink(s) # {} /\ s[p] # Hash /\ EqualSigns(s) = {}
  <2>1. w = [ret |-> -2]
    BY <1>3, <1>4, <1>7, <1>8, <1>10, MeaningIs
  <2>2. r = [ret |-> -2]
    BY <1>10, ParseValueDef DEF p
  <2> QED
    BY <2>1, <2>2
<1>11. CASE Ink(s) # {} /\ s[p] # Hash /\ EqualSigns(s) # {}
  <2>1. /\ w.ret = 0 /\ w.key = Bare(SubSeq(s, 1, q - 1))
        /\ w.val = Bare(Upto(SubSeq(s, q + 1, Len(s)), Hash))
        /\ w.comment = Bare(SubSeq(s, q + 1, Len(s)))
        /\ w.apart <=> 1 < q /\ s[q - 1] = Space /\ q < Len(s) /\ s[q + 1] = Hash
    BY <1>3, <1>4, <1>7, <1>8, <1>11, MeaningIs
  <2>2. IF From(s, stray, p) = <<>> THEN r = [ret |-> -2]
        ELSE r = [ret |-> 0, key |-> From(s, stray, p), val |-> From(s, stray, ValueAt(s))]
    BY <1>11, ParseValueDef DEF p
  <2> HIDE DEF w, r
  <2>3. /\ Eq(s) \in Int /\ 1 <= Eq(s) /\ Eq(s) <= Len(s) /\ Eq(s) < End(s)
        /\ End(s) \in Int /\ End(s) <= Len(s) + 1
    BY <1>11, ValueNumbers
  <2>4. Eq(s) = q
    <3>1. Eq(s) \in Ink(s) /\ s[Eq(s)] = Equals
      BY <1>11, Cuts
    <3>2. q \in DOMAIN s /\ s[q] = Equals
      <4>1. DOMAIN s = 1 .. Len(s)
        BY DEF CStrings
      <4> QED
        BY <1>1, <1>5, <1>8, <1>11, <4>1
    <3>3. Eq(s) <= q
      BY <1>11, <3>2, Cuts
    <3>4. Eq(s) \notin 1 .. q - 1
      BY <1>5, <3>1
    <3> QED
      BY <1>5, <2>3, <3>3, <3>4
  <2>5. q \in Ink(s) /\ p <= q
    <3>1. Eq(s) \in Ink(s)
      BY <1>11, Cuts
    <3> QED
      BY <1>6, <1>11, <2>4, <3>1
  <2>6. CASE p = q
    <3>1. w.key = <<>>
      <4>1. 1 \in Nat \ {0} /\ q - 1 \in Int /\ q - 1 <= Len(s) /\ \A j \in Ink(s) : j \notin 1 .. q - 1
        BY <1>1, <1>5, <1>6, <1>11, <2>6
      <4> QED
        BY <2>1, <4>1, BareNone
    <3>2. From(s, stray, p) # <<>> => From(s, stray, p)[1] = Equals
      <4>1. p \in 1 .. End(s)
        BY <1>6, <1>11, <2>3, <2>4, <2>6
      <4>2. s[p] = Equals
        BY <1>1, <1>5, <1>8, <1>11, <2>6
      <4> QED
        BY <1>11, <4>1, <4>2, FromType
    <3>3. r.ret = -2 \/ r.key[1] = Equals
      <4>1. CASE From(s, stray, p) = <<>>
        BY <2>2, <4>1
      <4>2. CASE From(s, stray, p) # <<>>
        BY <2>2, <3>2, <4>2
      <4> QED
        BY <4>1, <4>2
    <3> QED
      BY <2>1, <3>1, <3>3 DEF w, r
  <2>7. CASE p # q
    <3>1. p < q
      BY <1>5, <1>6, <1>11, <2>5, <2>7
    <3> DEFINE B == {j \in Ink(s) : j < q}
    <3>2. B # {} /\ B \in SUBSET (0 .. Len(s))
      BY <1>1, <1>6, <1>11, <3>1
    <3>3. PICK b \in B : \A j \in B : j <= b
      <4> HIDE DEF B
      <4> QED
        BY <1>1, <3>2, GreatestNat
    <3>4. b \in Ink(s) /\ b < q /\ (\A j \in Ink(s) : j < q => j <= b) /\ p <= b /\ b \in Int
      BY <1>1, <1>6, <1>11, <3>3
    <3> HIDE DEF B
    <3>5. w.key = SubSeq(s, p, b)
      <4>1. 1 \in Nat \ {0} /\ q - 1 \in Int /\ q - 1 <= Len(s)
        BY <1>1, <1>5
      <4>2. /\ p \in Ink(s) /\ p \in 1 .. q - 1 /\ b \in 1 .. q - 1
            /\ \A j \in Ink(s) : j \in 1 .. q - 1 => p <= j /\ j <= b
        BY <1>1, <1>5, <1>6, <1>11, <3>1, <3>4
      <4>3. Bare(SubSeq(s, 1, q - 1)) = SubSeq(s, p, b)
        BY <3>4, <4>1, <4>2, BareIs
      <4> QED
        BY <2>1, <4>3
    <3>6. SubSeq(s, p, b) # <<>>
      <4>1. p \in Int /\ b \in Int /\ 1 <= p /\ b <= Len(s) /\ p <= b
        BY <1>1, <1>6, <1>11, <3>4
      <4>2. \A j \in p .. b : s[j] \in Codes
        BY <1>1, <4>1 DEF CStrings
      <4>3. Len(SubSeq(s, p, b)) = b - p + 1
        BY <4>1, <4>2, SubSeqProperties
      <4>4. b - p + 1 # 0 /\ Len(<<>>) = 0
        BY <4>1
      <4> QED
        BY <4>3, <4>4
    <3>7. q + 1 \in 1 .. Len(s) + 1 /\ q + 1 \in Nat \ {0} /\ q + 1 \in Int /\ 1 < q
      BY <1>1, <1>5, <1>6, <1>11, <2>3, <2>4, <3>1
    <3>8. PICK g : FirstAt(s, Hash, q + 1, g)
      BY <3>7, FirstExists
    <3>9. /\ g \in Int /\ q + 1 <= g /\ g <= Len(s) + 1 /\ (g = Len(s) + 1 \/ s[g] = Hash)
          /\ \A j \in q + 1 .. g - 1 : s[j] # Hash
      BY <1>1, <3>7, <3>8 DEF FirstAt
    <3>10. w.val = Bare(SubSeq(s, q + 1, g - 1))
      <4>1. Upto(SubSeq(s, q + 1, Len(s)), Hash) = SubSeq(s, q + 1, g - 1)
        BY <3>7, <3>8, UptoIs
      <4> QED
        BY <2>1, <4>1
    <3>11. g - 1 \in Int /\ g - 1 <= Len(s)
      BY <1>1, <3>9
    <3>12. FirstAt(s, Hash, Eq(s) + 1, g) /\ b < Eq(s) /\ \A j \in Ink(s) : j < Eq(s) => j <= b
      BY <2>4, <3>4, <3>8
    <3> DEFINE V == {j \in Ink(s) : q < j /\ j < g}
    <3>13. ASSUME Stop(s, stray) >= Eq(s)
           PROVE  /\ r.ret = 0 /\ r.key = w.key /\ w.key # <<>>
                  /\ r.val = From(s, stray, ValueAt(s))
      <4>1. From(s, stray, p) = SubSeq(s, p, b) /\ From(s, stray, p) # <<>>
        BY <1>6, <1>11, <3>4, <3>12, <3>13, KeyRead
      <4> QED
        BY <2>2, <3>5, <3>6, <4>1
    <3>14. CASE V # {}
      <4>1. V \in SUBSET Nat /\ V \in SUBSET (0 .. Len(s))
        BY <1>1
      <4>2. PICK a \in V : \A j \in V : a <= j
        <5> HIDE DEF V
        <5> QED
          BY <3>14, <4>1, LeastNat
      <4>3. PICK z \in V : \A j \in V : j <= z
        <5> HIDE DEF V
        <5> QED
          BY <1>1, <3>14, <4>1, GreatestNat
      <4>4. /\ a \in Ink(s) /\ z \in Ink(s) /\ q < a /\ a < g /\ q < z /\ z < g /\ a <= z
            /\ \A j \in Ink(s) : q < j /\ j < g => a <= j /\ j <= z
        BY <4>2, <4>3
      <4> HIDE DEF V
      <4>5. Stop(s, stray) = z + 1 /\ ValueAt(s) = a /\ From(s, stray, a) = SubSeq(s, a, z)
        BY <1>11, <2>4, <3>12, <4>4, ValueRead
      <4>6. a \in q + 1 .. g - 1 /\ z \in q + 1 .. g - 1 /\ z \in Int /\ a \in Int /\ 1 <= a /\ z <= Len(s)
        BY <1>1, <1>5, <3>9, <4>4
      <4>7. \A j \in Ink(s) : j \in q + 1 .. g - 1 => a <= j /\ j <= z
        BY <1>1, <1>5, <3>9, <4>4
      <4>8. w.val = SubSeq(s, a, z)
        <5>1. PICK m \in Nat \ {0} : m = q + 1
          BY <3>7
        <5>2. PICK n \in Int : n = g - 1
          BY <3>11
        <5>3. /\ n <= Len(s) /\ a \in m .. n /\ z \in m .. n
              /\ \A j \in Ink(s) : j \in m .. n => a <= j /\ j <= z
          BY <3>11, <4>6, <4>7, <5>1, <5>2
        <5>4. Bare(SubSeq(s, m, n)) = SubSeq(s, a, z)
          BY <4>4, <5>3, BareIs
        <5> QED
          BY <3>10, <5>1, <5>2, <5>4
      <4>9. w.val # <<>>
        <5>1. \A j \in a .. z : s[j] \in Codes
          BY <1>1, <4>6 DEF CStrings
        <5>2. Len(SubSeq(s, a, z)) = z - a + 1
          BY <4>4, <4>6, <5>1, SubSeqProperties
        <5>3. z - a + 1 # 0 /\ Len(<<>>) = 0
          BY <4>4, <4>6
        <5> QED
          BY <4>8, <5>2, <5>3
      <4>10. Stop(s, stray) >= Eq(s)
        BY <1>5, <2>4, <4>4, <4>5, <4>6
      <4>11. /\ r.ret = 0 /\ r.key = w.key /\ w.key # <<>> /\ r.val = w.val
        BY <3>13, <4>5, <4>8, <4>10
      <4> QED
        BY <2>1, <4>9, <4>11 DEF w, r
    <3>15. CASE V = {}
      <4>1. \A j \in Ink(s) : ~ (q < j /\ j < g)
        BY <3>15
      <4> HIDE DEF V
      <4>2. \A j \in Ink(s) : ~ (Eq(s) < j /\ j < g)
        BY <2>4, <4>1
      <4>3. /\ Stop(s, stray) >= Eq(s)
            /\ ValueAt(s) = IF g = Len(s) + 1 THEN End(s) ELSE g
            /\ From(s, stray, ValueAt(s)) =
                 IF s[Eq(s) - 1] = Space /\ ValueAt(s) = Eq(s) + 1 THEN <<>>
                 ELSE SubSeq(s, ValueAt(s), End(s) - 1)
        BY <1>11, <3>4, <3>12, <4>2, CommentRead
      <4>4. w.val = <<>>
        <5>1. \A j \in Ink(s) : j \notin q + 1 .. g - 1
          BY <1>1, <1>5, <3>9, <4>1
        <5> QED
          BY <3>7, <3>10, <3>11, <5>1, BareNone
      <4>5. r.ret = 0 /\ r.key = w.key /\ w.key # <<>> /\ r.val = From(s, stray, ValueAt(s))
        BY <3>13, <4>3
      <4>6. CASE g = Len(s) + 1
        <5>1. \A j \in Ink(s) : ~ (q < j)
          BY <1>1, <4>1, <4>6
        <5>2. w.comment = <<>>
          <6>1. Len(s) \in Int /\ Len(s) <= Len(s) /\ \A j \in Ink(s) : j \notin q + 1 .. Len(s)
            BY <1>1, <1>5, <5>1
          <6> QED
            BY <2>1, <3>7, <6>1, BareNone
        <5>3. SubSeq(s, End(s), End(s) - 1) = <<>>
          <6>1. End(s) - 1 \in Int /\ End(s) - 1 < End(s)
            BY <2>3
          <6> QED
            BY <2>3, <6>1, SubSeqEmpty
        <5>4. r.val = <<>>
          BY <4>3, <4>5, <4>6, <5>3
        <5> QED
          BY <2>1, <4>4, <4>5, <5>2, <5>4 DEF w, r
      <4>7. CASE g # Len(s) + 1
        <5>1. ValueAt(s) = g /\ g \in 1 .. Len(s) /\ s[g] = Hash /\ g \in Ink(s) /\ q < g
          BY <1>1, <1>5, <3>9, <4>3, <4>7
        <5>2. w.apart <=> s[q - 1] = Space /\ g = q + 1
          <6>1. s[q - 1] = Space /\ q < Len(s) /\ s[q + 1] = Hash => g = q + 1
            <7>1. s[q + 1] = Hash => q + 1 \notin q + 1 .. g - 1
              BY <3>9
            <7> QED
              BY <1>5, <3>9, <7>1
          <6>2. g = q + 1 => q < Len(s) /\ s[q + 1] = Hash
            BY <1>1, <1>5, <5>1
          <6> QED
            BY <2>1, <3>7, <6>1, <6>2
        <5>3. w.comment = SubSeq(s, g, End(s) - 1)
          <6>1. End(s) - 1 \in Ink(s) /\ \A j \in Ink(s) : j < End(s)
            BY <1>11, Positions
          <6>2. /\ Len(s) \in Int /\ Len(s) <= Len(s)
                /\ g \in q + 1 .. Len(s) /\ End(s) - 1 \in q + 1 .. Len(s)
            BY <1>1, <1>5, <2>3, <5>1, <6>1
          <6>3. \A j \in Ink(s) : j \in q + 1 .. Len(s) => g <= j /\ j <= End(s) - 1
            BY <1>1, <1>5, <2>3, <3>9, <4>1, <6>1
          <6>4. Bare(SubSeq(s, q + 1, Len(s))) = SubSeq(s, g, End(s) - 1)
            <7>1. PICK m \in Nat \ {0} : m = q + 1
              BY <3>7
            <7>2. PICK z \in Ink(s) : z = End(s) - 1
              BY <6>1
            <7>3. /\ g \in m .. Len(s) /\ z \in m .. Len(s)
                  /\ \A j \in Ink(s) : j \in m .. Len(s) => g <= j /\ j <= z
              BY <6>2, <6>3, <7>1, <7>2
            <7>4. Bare(SubSeq(s, m, Len(s))) = SubSeq(s, g, z)
              BY <5>1, <6>2, <7>3, BareIs
            <7> QED
              BY <7>1, <7>2, <7>4
          <6> QED
            BY <2>1, <6>4
        <5>4. r.val = IF s[q - 1] = Space /\ g = q + 1 THEN <<>> ELSE SubSeq(s, g, End(s) - 1)
          BY <2>4, <4>3, <4>5, <5>1
        <5>5. r.val = IF w.val = <<>> /\ ~w.apart THEN w.comment ELSE w.val
          BY <4>4, <5>2, <5>3, <5>4
        <5> QED
          BY <2>1, <4>5, <5>5 DEF w, r
      <4> QED
        BY <4>6, <4>7
    <3> QED
      BY <3>14, <3>15
  <2> QED
    BY <2>6, <2>7
<1> QED
  BY <1>9, <1>10, <1>11

(* For all files whose lines are C strings, and whatever lies in memory    *)
(* before a line: parseValue reads a plain line by its meaning, but for a  *)
(* comment behind an empty value and a line without a key                  *)
(* (config.cpp:26-66).                                                     *)
THEOREM LinesAreRead ==
    ASSUME NEW lists \in SUBSET Seq(Seq(CStrings))
    PROVE  ConfigSpec(lists) => []ParsedAsWritten
<1>1. ConfigInit(lists) => ConfigIInv
  BY ConfigStart
<1>2. ConfigIInv /\ [ConfigNext]_configVars => ConfigIInv'
  BY ConfigStep
<1>3. ConfigIInv => ParsedAsWritten
  <2> SUFFICES ASSUME ConfigIInv, fileNo > 0, lineNo > 0
               PROVE  LET line == AfterIsSectionName(files[fileNo][lineNo])
                          w == Meaning(line)
                      IN Plain(line) => \A stray \in StrayBytes :
                             LET r == ParseValue(line, stray)
                             IN IF w.ret # 0 THEN r = w
                                ELSE IF w.key = <<>> THEN r.ret = -2 \/ r.key[1] = Equals
                                ELSE /\ r.ret = 0 /\ r.key = w.key
                                     /\ r.val = IF w.val = <<>> /\ ~w.apart THEN w.comment ELSE w.val
    BY DEF ParsedAsWritten
  <2>1. /\ files \in Seq(Seq(CStrings)) /\ Len(files) \in Nat /\ fileNo \in 0 .. Len(files)
        /\ lineNo \in 0 .. Len(files[fileNo])
    BY DEF ConfigIInv, ConfigTypeOK
  <2>2. fileNo \in 1 .. Len(files) /\ files[fileNo] \in Seq(CStrings)
    BY <2>1
  <2>3. Len(files[fileNo]) \in Nat /\ lineNo \in 1 .. Len(files[fileNo])
    BY <2>1, <2>2
  <2>4. files[fileNo][lineNo] \in CStrings
    BY <2>2, <2>3
  <2>5. AfterIsSectionName(files[fileNo][lineNo]) \in CStrings
    BY <2>4, Section
  <2> QED
    BY <2>5, ConfigAssumption, PlainRead
<1> QED
  BY <1>1, <1>2, <1>3, PTL DEF ConfigSpec

-----------------------------------------------------------------------------
(* Lines one after the other                                               *)

(* The lines make store d of store c: after gives the stores in between.   *)
Steps(after, c, lines, stray) ==
    /\ DOMAIN after = 0 .. Len(lines) /\ after[0] = c
    /\ \A n \in 1 .. Len(lines) : after[n] = LoadLine(after[n - 1], lines[n], stray)
Makes(c, lines, d, stray) == \E after : Steps(after, c, lines, stray) /\ after[Len(lines)] = d

(* The stores in between determine the last one.                           *)
LEMMA StepsUnique ==
    ASSUME NEW c, NEW X, NEW lines \in Seq(X), NEW stray,
           NEW f, Steps(f, c, lines, stray), NEW g, Steps(g, c, lines, stray)
    PROVE  f[Len(lines)] = g[Len(lines)]
<1>1. Len(lines) \in Nat
  OBVIOUS
<1> DEFINE Apart == {n \in 0 .. Len(lines) : f[n] # g[n]}
<1>2. ASSUME Apart # {}
      PROVE  FALSE
  <2>1. Apart \in SUBSET Nat
    BY <1>1
  <2>2. PICK n \in Apart : \A j \in Apart : n <= j
    <3> HIDE DEF Apart
    <3> QED
      BY <1>2, <2>1, LeastNat
  <2>3. n # 0 /\ n \in 0 .. Len(lines) /\ f[n] # g[n]
    BY <2>2 DEF Steps
  <2>4. n \in 1 .. Len(lines) /\ n - 1 \in 0 .. Len(lines) /\ ~ (n <= n - 1)
    BY <1>1, <2>3
  <2>5. f[n - 1] = g[n - 1]
    BY <2>2, <2>4
  <2> QED
    BY <2>3, <2>4, <2>5 DEF Steps
<1>3. Len(lines) \in 0 .. Len(lines)
  BY <1>1
<1> QED
  BY <1>2, <1>3

(* Loaded is what the lines make of a store.                               *)
LEMMA MakesIsLoaded ==
    ASSUME NEW c, NEW X, NEW lines \in Seq(X), NEW d, NEW stray, Makes(c, lines, d, stray)
    PROVE  Loaded(c, lines, stray) = d
<1> DEFINE Is(f) == f = [n \in 0 .. Len(lines) |-> IF n = 0 THEN c ELSE LoadLine(f[n - 1], lines[n], stray)]
           after == CHOOSE f : Is(f)
<1>0. Len(lines) \in Nat
  OBVIOUS
<1>1. PICK g : Steps(g, c, lines, stray) /\ g[Len(lines)] = d
  BY DEF Makes
<1> DEFINE h == [n \in 0 .. Len(lines) |-> g[n]]
<1>2. Is(h)
  <2>1. ASSUME NEW n \in 0 .. Len(lines)
        PROVE  h[n] = IF n = 0 THEN c ELSE LoadLine(h[n - 1], lines[n], stray)
    <3>1. CASE n = 0
      BY <1>1, <3>1 DEF Steps
    <3>2. CASE n # 0
      <4>1. n \in 1 .. Len(lines) /\ n - 1 \in 0 .. Len(lines)
        BY <1>0, <3>2
      <4>2. h[n] = g[n] /\ h[n - 1] = g[n - 1]
        BY <4>1
      <4>3. g[n] = LoadLine(g[n - 1], lines[n], stray)
        BY <1>1, <4>1 DEF Steps
      <4> QED
        BY <3>2, <4>2, <4>3
    <3> QED
      BY <3>1, <3>2
  <2>2. h = [n \in 0 .. Len(lines) |-> h[n]]
    OBVIOUS
  <2> HIDE DEF h
  <2> QED
    BY <2>1, <2>2
<1>3. Is(after)
  <2> HIDE DEF h
  <2> QED
    BY <1>2
<1>4. Loaded(c, lines, stray) = after[Len(lines)]
  BY DEF Loaded
<1> HIDE DEF after
<1>5. Steps(after, c, lines, stray)
  <2>1. DOMAIN after = 0 .. Len(lines)
    BY <1>3
  <2>2. \A n \in 0 .. Len(lines) : after[n] = IF n = 0 THEN c ELSE LoadLine(after[n - 1], lines[n], stray)
    BY <1>3
  <2>3. 0 \in 0 .. Len(lines) /\ \A n \in 1 .. Len(lines) : n \in 0 .. Len(lines) /\ n # 0
    BY <1>0
  <2> QED
    BY <2>1, <2>2, <2>3 DEF Steps
<1> QED
  BY <1>1, <1>4, <1>5, StepsUnique

(* No line.                                                                *)
LEMMA MakesNone ==
    ASSUME NEW c, NEW stray
    PROVE  Makes(c, <<>>, c, stray)
<1> DEFINE f == [n \in 0 .. 0 |-> c]
<1>1. DOMAIN f = 0 .. 0 /\ f[0] = c /\ Len(<<>>) = 0 /\ 1 .. 0 = {}
  OBVIOUS
<1> HIDE DEF f
<1>2. Steps(f, c, <<>>, stray)
  BY <1>1 DEF Steps
<1> QED
  BY <1>1, <1>2 DEF Makes

(* One line more.                                                          *)
LEMMA MakesOn ==
    ASSUME NEW c, NEW X, NEW lines \in Seq(X), NEW line \in X, NEW d, NEW stray,
           Makes(c, lines, d, stray)
    PROVE  Makes(c, Append(lines, line), LoadLine(d, line, stray), stray)
<1> DEFINE e == LoadLine(d, line, stray)
           l == Append(lines, line)
<1>1. PICK f : Steps(f, c, lines, stray) /\ f[Len(lines)] = d
  BY DEF Makes
<1> DEFINE g == [n \in 0 .. Len(lines) + 1 |-> IF n = Len(lines) + 1 THEN e ELSE f[n]]
<1>2. /\ Len(lines) \in Nat /\ Len(l) = Len(lines) + 1 /\ l[Len(lines) + 1] = line
      /\ \A n \in 1 .. Len(lines) : l[n] = lines[n]
  OBVIOUS
<1>3. /\ DOMAIN g = 0 .. Len(lines) + 1 /\ g[Len(lines) + 1] = e
      /\ \A n \in 0 .. Len(lines) : g[n] = f[n]
  <2> HIDE DEF e
  <2> QED
    BY <1>2
<1> HIDE DEF g, l, e
<1>4. ASSUME NEW n \in 1 .. Len(l)
      PROVE  g[n] = LoadLine(g[n - 1], l[n], stray)
  <2>1. CASE n = Len(lines) + 1
    <3>1. n - 1 = Len(lines) /\ Len(lines) \in 0 .. Len(lines)
      BY <1>2, <2>1
    <3>2. g[n - 1] = d
      BY <1>1, <1>3, <3>1
    <3> QED
      BY <1>2, <1>3, <2>1, <3>2 DEF e
  <2>2. CASE n # Len(lines) + 1
    <3>1. n \in 1 .. Len(lines) /\ n \in 0 .. Len(lines) /\ n - 1 \in 0 .. Len(lines)
      BY <1>2, <2>2
    <3> QED
      BY <1>1, <1>2, <1>3, <3>1 DEF Steps
  <2> QED
    BY <2>1, <2>2
<1>5. g[0] = c /\ g[Len(l)] = e
  <2>1. 0 \in 0 .. Len(lines)
    BY <1>2
  <2> QED
    BY <1>1, <1>2, <1>3, <2>1 DEF Steps
<1>6. Steps(g, c, l, stray)
  BY <1>2, <1>3, <1>4, <1>5 DEF Steps
<1> QED
  BY <1>5, <1>6 DEF Makes, l, e

(* More lines behind others.                                               *)
LEMMA MakesFurther ==
    ASSUME NEW c, NEW X, NEW a \in Seq(X), NEW b \in Seq(X), NEW d, NEW e, NEW stray,
           Makes(c, a, d, stray), Makes(d, b, e, stray)
    PROVE  Makes(c, a \o b, e, stray)
<1> DEFINE l == a \o b
           m == Len(a)
<1>1. PICK f : Steps(f, c, a, stray) /\ f[m] = d
  BY DEF Makes
<1>2. PICK h : Steps(h, d, b, stray) /\ h[Len(b)] = e
  BY DEF Makes
<1> DEFINE g == [n \in 0 .. m + Len(b) |-> IF n <= m THEN f[n] ELSE h[n - m]]
<1>3. /\ m \in Nat /\ Len(b) \in Nat /\ Len(l) = m + Len(b)
      /\ \A n \in 1 .. m : l[n] = a[n]
      /\ \A n \in m + 1 .. m + Len(b) : l[n] = b[n - m]
  OBVIOUS
<1>4. f[m] = h[0]
  BY <1>1, <1>2 DEF Steps
<1>5. /\ DOMAIN g = 0 .. m + Len(b)
      /\ \A n \in 0 .. m : g[n] = f[n]
      /\ \A n \in m .. m + Len(b) : g[n] = h[n - m]
  <2>1. ASSUME NEW n \in 0 .. m
        PROVE  g[n] = f[n]
    BY <1>3
  <2>2. ASSUME NEW n \in m .. m + Len(b)
        PROVE  g[n] = h[n - m]
    <3>1. CASE n = m
      <4>1. m - m = 0 /\ g[m] = f[m]
        BY <1>3
      <4> QED
        BY <1>4, <3>1, <4>1
    <3>2. CASE n # m
      BY <1>3, <3>2
    <3> QED
      BY <3>1, <3>2
  <2> QED
    BY <2>1, <2>2
<1> HIDE DEF g, l
<1>6. ASSUME NEW n \in 1 .. Len(l)
      PROVE  g[n] = LoadLine(g[n - 1], l[n], stray)
  <2>1. CASE n <= m
    <3>1. n \in 1 .. m /\ n \in 0 .. m /\ n - 1 \in 0 .. m
      BY <1>3, <2>1
    <3> QED
      BY <1>1, <1>3, <1>5, <3>1 DEF Steps
  <2>2. CASE ~ (n <= m)
    <3>1. /\ n \in m + 1 .. m + Len(b) /\ n \in m .. m + Len(b) /\ n - 1 \in m .. m + Len(b)
          /\ n - m \in 1 .. Len(b) /\ (n - 1) - m = (n - m) - 1
      BY <1>3, <2>2
    <3>2. g[n] = h[n - m] /\ g[n - 1] = h[(n - m) - 1] /\ l[n] = b[n - m]
      BY <1>3, <1>5, <3>1
    <3>3. h[n - m] = LoadLine(h[(n - m) - 1], b[n - m], stray)
      BY <1>2, <3>1 DEF Steps
    <3> QED
      BY <3>2, <3>3
  <2> QED
    BY <2>1, <2>2
<1>7. g[0] = c /\ g[Len(l)] = e
  <2>1. 0 \in 0 .. m /\ m + Len(b) \in m .. m + Len(b) /\ (m + Len(b)) - m = Len(b)
    BY <1>3
  <2> QED
    BY <1>1, <1>2, <1>3, <1>5, <2>1 DEF Steps
<1>8. Steps(g, c, l, stray)
  BY <1>3, <1>5, <1>6, <1>7 DEF Steps
<1> QED
  BY <1>7, <1>8 DEF Makes, l

(* One line at a time, from a store of G[0] to one of G[n].                *)
LEMMA MakesByLines ==
    ASSUME NEW X, NEW lines \in Seq(X), NEW stray, NEW G, NEW c \in G[0],
           \A n \in 1 .. Len(lines) : \A x \in G[n - 1] : LoadLine(x, lines[n], stray) \in G[n]
    PROVE  \E d \in G[Len(lines)] : Makes(c, lines, d, stray)
<1> DEFINE Behind(n) == \E d \in G[n] : Makes(c, SubSeq(lines, 1, n), d, stray)
           Bad == {n \in 0 .. Len(lines) : ~ Behind(n)}
<1>1. Len(lines) \in Nat /\ DOMAIN lines = 1 .. Len(lines)
  OBVIOUS
<1>2. Behind(0)
  <2>1. SubSeq(lines, 1, 0) = <<>>
    BY <1>1, SubSeqEmpty
  <2> QED
    BY <2>1, MakesNone
<1>3. ASSUME NEW n \in 1 .. Len(lines), Behind(n - 1)
      PROVE  Behind(n)
  <2>1. PICK d \in G[n - 1] : Makes(c, SubSeq(lines, 1, n - 1), d, stray)
    BY <1>3
  <2>2. SubSeq(lines, 1, n) = Append(SubSeq(lines, 1, n - 1), lines[n])
    <3>1. n \in Nat /\ n - 1 \in 0 .. Len(lines) /\ n <= Len(lines)
      BY <1>1
    <3> DEFINE u == SubSeq(lines, 1, n)
               v == SubSeq(lines, 1, n - 1)
    <3>2. u \in Seq(X) /\ Len(u) = n /\ \A i \in 1 .. n : u[i] = lines[i]
      BY <1>1, <3>1
    <3>3. v \in Seq(X) /\ Len(v) = n - 1 /\ \A i \in 1 .. n - 1 : v[i] = lines[i]
      BY <1>1, <3>1
    <3>4. lines[n] \in X
      BY <1>1
    <3> HIDE DEF u, v
    <3>5. Append(v, lines[n]) \in Seq(X) /\ Len(Append(v, lines[n])) = n
      BY <3>1, <3>3, <3>4
    <3>6. ASSUME NEW i \in 1 .. n
          PROVE  u[i] = Append(v, lines[n])[i]
      <4>1. CASE i = n
        BY <3>1, <3>2, <3>3, <3>4, <4>1
      <4>2. CASE i # n
        <5>1. i \in 1 .. n - 1
          BY <3>1, <4>2
        <5> QED
          BY <3>2, <3>3, <3>4, <5>1
      <4> QED
        BY <4>1, <4>2
    <3> QED
      BY <3>2, <3>5, <3>6, SameSeq DEF u, v
  <2>3. SubSeq(lines, 1, n - 1) \in Seq(X) /\ lines[n] \in X
    <3>1. n - 1 \in Int /\ \A i \in 1 .. n - 1 : lines[i] \in X
      BY <1>1
    <3> QED
      BY <1>1, <3>1, SubSeqProperties
  <2>4. Makes(c, SubSeq(lines, 1, n), LoadLine(d, lines[n], stray), stray)
    BY <2>1, <2>2, <2>3, MakesOn
  <2> QED
    BY <2>4
<1>4. ASSUME Bad # {}
      PROVE  FALSE
  <2>1. Bad \in SUBSET Nat
    BY <1>1
  <2>2. PICK n \in Bad : \A j \in Bad : n <= j
    <3> HIDE DEF Bad
    <3> QED
      BY <1>4, <2>1, LeastNat
  <2>3. n # 0 /\ n \in 0 .. Len(lines) /\ ~ Behind(n)
    BY <1>2, <2>2
  <2>4. n \in 1 .. Len(lines) /\ n - 1 \in 0 .. Len(lines) /\ ~ (n <= n - 1)
    BY <1>1, <2>3
  <2>5. Behind(n - 1)
    BY <2>2, <2>4
  <2> QED
    BY <1>3, <2>3, <2>4, <2>5
<1>5. Behind(Len(lines))
  <2>1. Len(lines) \in 0 .. Len(lines)
    BY <1>1
  <2> QED
    BY <1>4, <2>1
<1>6. SubSeq(lines, 1, Len(lines)) = lines
  BY SubSeqFull
<1> QED
  BY <1>5, <1>6

(* FlattenSeq puts the sequences of ss behind one another, one by one.     *)
LEMMA Flattened ==
    ASSUME NEW X, NEW ss \in Seq(Seq(X)), ss # <<>>
    PROVE  \E f : /\ f[1] = ss[1] /\ FlattenSeq(ss) = f[Len(ss)]
                  /\ \A i \in 2 .. Len(ss) : f[i] = f[i - 1] \o ss[i]
<1> DEFINE Is(f, n) == f = [i \in 1 .. n |-> IF i = 1 THEN ss[i] ELSE f[i - 1] \o ss[i]]
           Without == {n \in 1 .. Len(ss) : ~ \E f : Is(f, n)}
           flatten == CHOOSE f : Is(f, Len(ss))
<1>1. Len(ss) \in Nat /\ Len(ss) # 0 /\ 1 \in 1 .. Len(ss)
  OBVIOUS
<1>2. \E f : Is(f, 1)
  <2> DEFINE f == [i \in 1 .. 1 |-> ss[1]]
  <2>1. ASSUME NEW i \in 1 .. 1
        PROVE  i = 1
    OBVIOUS
  <2>2. f = [i \in 1 .. 1 |-> IF i = 1 THEN ss[i] ELSE f[i - 1] \o ss[i]]
    BY <2>1
  <2> HIDE DEF f
  <2> QED
    BY <2>2
<1>3. ASSUME NEW n \in 2 .. Len(ss), \E f : Is(f, n - 1)
      PROVE  \E f : Is(f, n)
  <2>1. PICK f : Is(f, n - 1)
    BY <1>3
  <2> DEFINE e == f[n - 1] \o ss[n]
             g == [i \in 1 .. n |-> IF i = n THEN e ELSE f[i]]
  <2>2. n \in Int /\ n >= 2
    <3> HIDE DEF Is
    <3> QED
      BY <1>1
  <2>3. DOMAIN g = 1 .. n /\ g[n] = e /\ \A i \in 1 .. n - 1 : g[i] = f[i]
    <3> HIDE DEF e
    <3> QED
      BY <2>2
  <2>4. ASSUME NEW i \in 1 .. n
        PROVE  g[i] = IF i = 1 THEN ss[i] ELSE g[i - 1] \o ss[i]
    <3>1. CASE i = n
      <4>1. i # 1 /\ n - 1 \in 1 .. n - 1
        BY <2>2, <3>1
      <4>2. g[n - 1] = f[n - 1]
        BY <2>3, <4>1
      <4> HIDE DEF g
      <4> QED
        BY <2>3, <3>1, <4>1, <4>2
    <3>2. CASE i # n
      <4>1. i \in 1 .. n - 1
        BY <2>2, <3>2
      <4>2. f[i] = IF i = 1 THEN ss[i] ELSE f[i - 1] \o ss[i]
        BY <2>1, <4>1
      <4>3. i # 1 => i - 1 \in 1 .. n - 1
        BY <2>2, <4>1
      <4> HIDE DEF g
      <4> QED
        BY <2>3, <4>1, <4>2, <4>3
    <3> QED
      BY <3>1, <3>2
  <2>5. g = [i \in 1 .. n |-> g[i]]
    OBVIOUS
  <2> HIDE DEF g
  <2>6. Is(g, n)
    BY <2>4, <2>5
  <2> HIDE DEF Is
  <2> QED
    BY <2>6
<1>4. ASSUME Without # {}
      PROVE  FALSE
  <2>1. Without \in SUBSET Nat
    <3> HIDE DEF Is
    <3> QED
      BY <1>1
  <2>2. PICK n \in Without : \A j \in Without : n <= j
    <3> HIDE DEF Without
    <3> QED
      BY <1>4, <2>1, LeastNat
  <2>3. n \in 1 .. Len(ss) /\ ~ \E f : Is(f, n)
    BY <2>2
  <2>4. n # 1
    <3> HIDE DEF Is, Without
    <3> QED
      BY <1>2, <2>3
  <2>5. n \in 2 .. Len(ss) /\ n - 1 \in 1 .. Len(ss) /\ ~ (n <= n - 1)
    BY <1>1, <2>3, <2>4
  <2>6. \E f : Is(f, n - 1)
    <3> HIDE DEF Is
    <3> QED
      BY <2>2, <2>5
  <2> HIDE DEF Is
  <2> QED
    BY <1>3, <2>3, <2>5, <2>6
<1>5. Is(flatten, Len(ss))
  <2>1. \E f : Is(f, Len(ss))
    <3>1. Len(ss) \in 1 .. Len(ss)
      BY <1>1
    <3> HIDE DEF Is
    <3> QED
      BY <1>4, <3>1
  <2> HIDE DEF Is
  <2> QED
    BY <2>1
<1>6. FlattenSeq(ss) = flatten[Len(ss)]
  BY <1>1 DEF FlattenSeq
<1> HIDE DEF flatten
<1>7. \A i \in 1 .. Len(ss) : flatten[i] = IF i = 1 THEN ss[i] ELSE flatten[i - 1] \o ss[i]
  BY <1>5
<1>8. \A i \in 2 .. Len(ss) : i \in 1 .. Len(ss) /\ i # 1
  BY <1>1
<1>9. flatten[1] = ss[1] /\ \A i \in 2 .. Len(ss) : flatten[i] = flatten[i - 1] \o ss[i]
  BY <1>1, <1>7, <1>8
<1> QED
  BY <1>6, <1>9

(* One sequence of lines at a time.                                        *)
LEMMA MakesByParts ==
    ASSUME NEW X, NEW ss \in Seq(Seq(X)), NEW stray, NEW G, NEW c \in G[0],
           \A i \in 1 .. Len(ss) : \A x \in G[i - 1] : \E d \in G[i] : Makes(x, ss[i], d, stray)
    PROVE  /\ FlattenSeq(ss) \in Seq(X)
           /\ \E d \in G[Len(ss)] : Makes(c, FlattenSeq(ss), d, stray)
<1>1. Len(ss) \in Nat /\ \A i \in 1 .. Len(ss) : ss[i] \in Seq(X)
  OBVIOUS
<1>2. CASE ss = <<>>
  <2>1. Len(ss) = 0 /\ <<>> \in Seq(X)
    BY <1>2
  <2>2. FlattenSeq(ss) = <<>>
    BY <1>2, <2>1 DEF FlattenSeq
  <2>3. Makes(c, <<>>, c, stray)
    BY MakesNone
  <2> QED
    BY <2>1, <2>2, <2>3
<1>3. CASE ss # <<>>
  <2>1. PICK f : /\ f[1] = ss[1] /\ FlattenSeq(ss) = f[Len(ss)]
                 /\ \A i \in 2 .. Len(ss) : f[i] = f[i - 1] \o ss[i]
    BY <1>3, Flattened
  <2>2. 1 \in 1 .. Len(ss) /\ Len(ss) \in 1 .. Len(ss)
    BY <1>1, <1>3
  <2> DEFINE Behind(i) == f[i] \in Seq(X) /\ \E d \in G[i] : Makes(c, f[i], d, stray)
             Bad == {i \in 1 .. Len(ss) : ~ Behind(i)}
  <2>3. Behind(1)
    <3>1. 1 - 1 = 0
      OBVIOUS
    <3>2. \A x \in G[0] : \E d \in G[1] : Makes(x, ss[1], d, stray)
      BY <2>2, <3>1
    <3> QED
      BY <1>1, <2>1, <2>2, <3>2
  <2>4. ASSUME NEW i \in 2 .. Len(ss), Behind(i - 1)
        PROVE  Behind(i)
    <3>1. i \in 1 .. Len(ss)
      BY <1>1
    <3>2. PICK d \in G[i - 1] : Makes(c, f[i - 1], d, stray)
      BY <2>4
    <3>3. PICK e \in G[i] : Makes(d, ss[i], e, stray)
      BY <3>1
    <3>4. f[i - 1] \in Seq(X) /\ ss[i] \in Seq(X) /\ f[i] = f[i - 1] \o ss[i]
      BY <1>1, <2>1, <2>4, <3>1
    <3>5. Makes(c, f[i], e, stray)
      BY <3>2, <3>3, <3>4, MakesFurther
    <3>6. f[i] \in Seq(X)
      BY <3>4
    <3> QED
      BY <3>5, <3>6
  <2>5. ASSUME Bad # {}
        PROVE  FALSE
    <3>1. Bad \in SUBSET Nat
      BY <1>1
    <3>2. PICK i \in Bad : \A j \in Bad : i <= j
      <4> HIDE DEF Bad
      <4> QED
        BY <2>5, <3>1, LeastNat
    <3>3. i \in 1 .. Len(ss) /\ ~ Behind(i)
      BY <3>2
    <3> HIDE DEF Behind
    <3>4. i # 1
      BY <2>3, <3>3
    <3>5. i \in 2 .. Len(ss) /\ i - 1 \in 1 .. Len(ss) /\ ~ (i <= i - 1)
      BY <1>1, <3>3, <3>4
    <3>6. Behind(i - 1)
      BY <3>2, <3>5
    <3> QED
      BY <2>4, <3>3, <3>5, <3>6
  <2>6. Behind(Len(ss))
    <3> HIDE DEF Behind
    <3> QED
      BY <2>2, <2>5
  <2> QED
    BY <2>1, <2>6
<1> QED
  BY <1>2, <1>3

(* Every element of a finite set is in its sequence, once.                 *)
LEMMA SetInSeq ==
    ASSUME NEW S, IsFiniteSet(S)
    PROVE  LET q == SetToSeq(S)
           IN  /\ q \in Seq(S) /\ S = {q[i] : i \in 1 .. Len(q)}
               /\ \A i \in 1 .. Len(q) : \A j \in 1 .. Len(q) : q[i] = q[j] => i = j
<1> DEFINE n == Cardinality(S)
           q == SetToSeq(S)
<1>1. n \in Nat /\ ExistsBijection(1 .. n, S)
  BY FS_CardinalityType
<1>2. \E f \in [1 .. n -> S] : IsInjective(f)
  BY <1>1 DEF ExistsBijection, Bijection, Injection
<1>3. q = CHOOSE f \in [1 .. n -> S] : IsInjective(f)
  BY DEF SetToSeq
<1> HIDE DEF q, n
<1>4. q \in [1 .. n -> S] /\ IsInjective(q)
  BY <1>2, <1>3
<1>5. q \in Injection(1 .. n, S)
  BY <1>4 DEF Injection
<1>6. IsFiniteSet(1 .. n) /\ Cardinality(1 .. n) = n
  <2>1. /\ IsFiniteSet(1 .. n)
        /\ Cardinality(1 .. n) = IF 1 > n THEN 0 ELSE n - 1 + 1
    BY <1>1, FS_Interval
  <2> QED
    BY <1>1, <2>1
<1>7. q \in Surjection(1 .. n, S)
  <2>1. Cardinality(1 .. n) = Cardinality(S)
    BY <1>6 DEF n
  <2> QED
    BY <1>5, <2>1, FS_Injection
<1>8. \A t \in S : \E i \in 1 .. n : q[i] = t
  BY <1>7 DEF Surjection
<1>9. q \in Seq(S) /\ Len(q) = n
  BY <1>1, <1>4
<1>10. S = {q[i] : i \in 1 .. n}
  BY <1>4, <1>8
<1>11. \A i \in 1 .. n : \A j \in 1 .. n : q[i] = q[j] => i = j
  BY <1>4 DEF IsInjective
<1> QED
  BY <1>9, <1>10, <1>11 DEF q

-----------------------------------------------------------------------------
(* The text of a list is its strings, joined by NULs.                      *)

(* Where the next string begins, if there is one.                          *)
LEMMA NextStart ==
    ASSUME NEW data \in Seq(Int), NEW k \in 1 .. Cardinality(Starts(data)),
           NEW e \in Nth(Starts(data), k) .. Len(data) + 1,
           e = Len(data) + 1 \/ data[e] = 0, \A j \in Nth(Starts(data), k) .. e - 1 : data[j] # 0
    PROVE  IF e = Len(data) + 1 THEN k = Cardinality(Starts(data))
           ELSE k < Cardinality(Starts(data)) /\ Nth(Starts(data), k + 1) = e + 1
<1> DEFINE S == Starts(data)
           L == Len(data)
           b == Nth(S, k)
<1>1. S \in SUBSET (1 .. L + 1) /\ L \in Nat /\ L + 1 \in Nat
  BY StartsIn
<1>2. \A j \in S : j # 1 => j - 1 \in 1 .. L /\ data[j - 1] = 0
  BY DEF Starts
<1>3. \A j \in 1 .. L : data[j] = 0 => j + 1 \in S
  BY DEF Starts
<1> HIDE DEF S
<1>4. b \in S /\ Cardinality(UpTo(S, b)) = k /\ Cardinality(S) \in Nat /\ IsFiniteSet(S)
  BY <1>1, NthOf, UpToFinite DEF S
<1>5. b \in 1 .. L + 1 /\ e \in b .. L + 1 /\ k \in 1 .. Cardinality(S)
  BY <1>1, <1>4 DEF S
<1>6. (e = L + 1 \/ data[e] = 0) /\ \A j \in b .. e - 1 : data[j] # 0
  BY DEF S
<1> HIDE DEF b
<1>7. ASSUME NEW j \in S, b < j
      PROVE  e + 1 <= j /\ e # L + 1
  <2>1. j \in 1 .. L + 1 /\ j # 1
    BY <1>1, <1>5, <1>7
  <2>2. j - 1 \in 1 .. L /\ data[j - 1] = 0
    BY <1>2, <2>1
  <2>3. j - 1 \notin b .. e - 1
    BY <1>6, <2>2
  <2> QED
    BY <1>5, <1>7, <2>1, <2>2, <2>3
<1>8. CASE e = L + 1
  <2>1. \A j \in S : j <= b
    BY <1>1, <1>5, <1>7, <1>8
  <2>2. UpTo(S, b) = S
    BY <2>1 DEF UpTo
  <2> QED
    BY <1>4, <1>8, <2>2 DEF S
<1>9. CASE e # L + 1
  <2>1. e \in 1 .. L /\ data[e] = 0 /\ e + 1 \in S /\ e + 1 > b
    BY <1>1, <1>3, <1>5, <1>6, <1>9
  <2> DEFINE U == UpTo(S, e + 1)
  <2>2. U = UpTo(S, b) \cup {e + 1}
    <3>1. ASSUME NEW j \in S
          PROVE  j <= e + 1 <=> j <= b \/ j = e + 1
      <4>1. j \in 1 .. L + 1
        BY <1>1
      <4> QED
        BY <1>5, <1>7, <2>1, <4>1
    <3> QED
      BY <2>1, <3>1 DEF UpTo
  <2>3. e + 1 \notin UpTo(S, b)
    BY <1>5, <2>1 DEF UpTo
  <2>4. Cardinality(U) = k + 1
    <3>1. IsFiniteSet(UpTo(S, b))
      BY <1>1, UpToFinite
    <3> QED
      BY <1>4, <2>2, <2>3, <3>1, FS_AddElement
  <2>5. Cardinality(U) <= Cardinality(S)
    <3>1. U \in SUBSET S
      BY DEF UpTo
    <3> QED
      BY <1>4, <3>1, FS_Subset
  <2>6. Nth(S, Cardinality(U)) = e + 1
    BY <1>1, <2>1, NthIs
  <2>7. k < Cardinality(S)
    BY <1>4, <1>5, <2>4, <2>5
  <2> HIDE DEF U
  <2> QED
    BY <1>9, <2>4, <2>6, <2>7 DEF S
<1> QED
  BY <1>8, <1>9

(* The text up to the end of the k-th string.                              *)
UptoPart(data, k) ==
    SubSeq(data, 1, IF k < Cardinality(Starts(data)) THEN Nth(Starts(data), k + 1) - 2 ELSE Len(data))

(* The elements of two sequences behind each other.                        *)
LEMMA Joined ==
    ASSUME NEW X, NEW a \in Seq(X), NEW b \in Seq(X)
    PROVE  /\ a \o b \in Seq(X) /\ Len(a \o b) = Len(a) + Len(b)
           /\ \A i \in 1 .. Len(a) : (a \o b)[i] = a[i]
           /\ \A i \in Len(a) + 1 .. Len(a) + Len(b) : (a \o b)[i] = b[i - Len(a)]
OBVIOUS

(* Two parts of a sequence with one element between.                       *)
LEMMA SubJoined ==
    ASSUME NEW X, NEW s \in Seq(X), NEW m \in 0 .. Len(s), NEW n \in m + 1 .. Len(s)
    PROVE  SubSeq(s, 1, m) \o <<s[m + 1]>> \o SubSeq(s, m + 2, n) = SubSeq(s, 1, n)
<1> DEFINE a == SubSeq(s, 1, m)
           b == SubSeq(s, m + 2, n)
           t == SubSeq(s, 1, n)
<1>1. /\ Len(s) \in Nat /\ m \in Nat /\ m <= Len(s) /\ n \in Nat /\ m + 1 <= n /\ n <= Len(s)
      /\ \A i \in 1 .. Len(s) : s[i] \in X
  OBVIOUS
<1>2. a \in Seq(X) /\ Len(a) = m /\ \A i \in 1 .. m : a[i] = s[i]
  BY <1>1
<1>3. t \in Seq(X) /\ Len(t) = n /\ \A i \in 1 .. n : t[i] = s[i]
  BY <1>1
<1>4. /\ b \in Seq(X) /\ Len(b) = n - m - 1
      /\ \A i \in 1 .. n - m - 1 : b[i] = s[m + 1 + i]
  <2>1. m + 2 \in Int /\ n \in Int /\ \A i \in m + 2 .. n : s[i] \in X
    BY <1>1
  <2>2. /\ b \in Seq(X) /\ Len(b) = IF m + 2 <= n THEN n - (m + 2) + 1 ELSE 0
        /\ \A i \in 1 .. n - (m + 2) + 1 : b[i] = s[(m + 2) + i - 1]
    BY <2>1, SubSeqProperties
  <2>3. n - (m + 2) + 1 = n - m - 1 /\ \A i \in Int : (m + 2) + i - 1 = m + 1 + i
    BY <1>1
  <2> HIDE DEF b
  <2>4. Len(b) = n - m - 1
    BY <1>1, <2>2
  <2>5. \A i \in 1 .. n - m - 1 : b[i] = s[m + 1 + i]
    BY <2>2, <2>3
  <2> QED
    BY <2>2, <2>4, <2>5
<1>5. s[m + 1] \in X
  BY <1>1
<1> HIDE DEF a, b, t
<1> DEFINE one == <<s[m + 1]>>
           w == a \o one
           u == w \o b
<1>6. one \in Seq(X) /\ Len(one) = 1 /\ one[1] = s[m + 1]
  BY <1>5
<1> HIDE DEF one
<1>7. /\ u \in Seq(X) /\ Len(u) = n
      /\ \A i \in 1 .. m : u[i] = a[i]
      /\ u[m + 1] = one[1]
      /\ \A i \in m + 2 .. n : u[i] = b[i - m - 1]
  <2>1. /\ w \in Seq(X) /\ Len(w) = m + 1 /\ w[m + 1] = one[1]
        /\ \A i \in 1 .. m : w[i] = a[i]
    <3>1. /\ w \in Seq(X) /\ Len(w) = Len(a) + Len(one)
          /\ \A i \in 1 .. Len(a) : w[i] = a[i]
          /\ \A i \in Len(a) + 1 .. Len(a) + Len(one) : w[i] = one[i - Len(a)]
      BY <1>2, <1>6, Joined
    <3> HIDE DEF w
    <3>2. m + 1 \in Len(a) + 1 .. Len(a) + Len(one) /\ (m + 1) - Len(a) = 1
      BY <1>1, <1>2, <1>6
    <3>3. w[m + 1] = one[1]
      BY <3>1, <3>2
    <3> QED
      BY <1>2, <1>6, <3>1, <3>3
  <2> HIDE DEF w
  <2>2. /\ u \in Seq(X) /\ Len(u) = (m + 1) + (n - m - 1)
        /\ \A i \in 1 .. m + 1 : u[i] = w[i]
        /\ \A i \in m + 2 .. n : u[i] = b[i - (m + 1)]
    <3>1. /\ u \in Seq(X) /\ Len(u) = Len(w) + Len(b)
          /\ \A i \in 1 .. Len(w) : u[i] = w[i]
          /\ \A i \in Len(w) + 1 .. Len(w) + Len(b) : u[i] = b[i - Len(w)]
      BY <1>4, <2>1, Joined
    <3> HIDE DEF u
    <3>2. (m + 1) + 1 = m + 2 /\ (m + 1) + (n - m - 1) = n
      BY <1>1
    <3> QED
      BY <1>4, <2>1, <3>1, <3>2
  <2>3. /\ (m + 1) + (n - m - 1) = n /\ m + 1 \in 1 .. m + 1
        /\ \A i \in 1 .. m : i \in 1 .. m + 1
        /\ \A i \in Int : i - (m + 1) = i - m - 1
    BY <1>1
  <2> HIDE DEF u
  <2>4. \A i \in m + 2 .. n : u[i] = b[i - m - 1]
    <3>1. \A i \in m + 2 .. n : i \in Int
      OBVIOUS
    <3> QED
      BY <2>2, <2>3, <3>1
  <2> QED
    BY <2>1, <2>2, <2>3, <2>4
<1> HIDE DEF w, u
<1>8. ASSUME NEW i \in 1 .. n
      PROVE  u[i] = t[i]
  <2>1. CASE i <= m
    <3>1. i \in 1 .. m
      BY <1>1, <2>1
    <3> QED
      BY <1>2, <1>3, <1>7, <3>1
  <2>2. CASE i = m + 1
    BY <1>1, <1>3, <1>6, <1>7, <2>2
  <2>3. CASE i >= m + 2
    <3>1. i \in m + 2 .. n /\ i - m - 1 \in 1 .. n - m - 1 /\ m + 1 + (i - m - 1) = i
      BY <1>1, <2>3
    <3> QED
      BY <1>3, <1>4, <1>7, <3>1
  <2> QED
    BY <1>1, <2>1, <2>2, <2>3
<1>9. u = t
  BY <1>3, <1>7, <1>8, SameSeq
<1> QED
  BY <1>9 DEF u, w, t, a, b, one

(* Every string is a part between two NULs, without one.                   *)
LEMMA PartBetween ==
    ASSUME NEW data \in Seq(Int), NEW k \in 1 .. Cardinality(Starts(data))
    PROVE  /\ Parts(data)[k] \in CStrings
           /\ \A i \in 1 .. Len(Parts(data)[k]) : \E j \in DOMAIN data : Parts(data)[k][i] = data[j]
           /\ k = 1 => UptoPart(data, 1) = Parts(data)[1]
           /\ k > 1 => UptoPart(data, k) = UptoPart(data, k - 1) \o <<0>> \o Parts(data)[k]
<1> DEFINE S == Starts(data)
           n == Cardinality(S)
           b == Nth(S, k)
           L == Len(data)
<1>1. S \in SUBSET (1 .. L + 1) /\ L \in Nat /\ L + 1 \in Nat /\ DOMAIN data = 1 .. L
  BY StartsIn
<1>2. b \in S /\ Cardinality(UpTo(S, b)) = k /\ n \in Nat
  <2> HIDE DEF S
  <2>1. k \in 1 .. Cardinality(S)
    BY DEF S
  <2> QED
    BY <1>1, <2>1, NthOf, UpToFinite
<1>3. b \in 1 .. L + 1 /\ k \in 1 .. n
  BY <1>1, <1>2
<1> HIDE DEF S, b, n
<1>4. PICK e \in b .. L + 1 : (e = L + 1 \/ data[e] = 0) /\ \A j \in b .. e - 1 : data[j] # 0
  BY <1>3, NextNul
<1>5. Parts(data)[k] = SubSeq(data, b, e - 1)
  <2>1. Parts(data)[k] = Part(data, b)
    BY <1>3, PartsDef DEF S, b, n
  <2>2. Part(data, b) = SubSeq(data, b, e - 1)
    BY <1>3, <1>4, PartIs
  <2> QED
    BY <2>1, <2>2
<1>6. IF e = L + 1 THEN k = n ELSE k < n /\ Nth(S, k + 1) = e + 1
  BY <1>3, <1>4, NextStart DEF S, b, n
<1>7. UptoPart(data, k) = SubSeq(data, 1, e - 1)
  <2>1. CASE e = L + 1
    <3>1. ~ (k < n) /\ e - 1 = L
      BY <1>1, <1>2, <1>3, <1>6, <2>1
    <3> QED
      BY <3>1 DEF UptoPart, S, n
  <2>2. CASE e # L + 1
    <3>1. k < n /\ Nth(S, k + 1) = e + 1
      BY <1>6, <2>2
    <3>2. e \in Int
      BY <1>1, <1>3, <1>4
    <3>3. (e + 1) - 2 = e - 1
      BY <3>2
    <3> QED
      BY <3>1, <3>3 DEF UptoPart, S, n
  <2> QED
    BY <2>1, <2>2
<1>8. b \in Int /\ 1 <= b /\ b <= e /\ e \in Int /\ e <= L + 1
  BY <1>1, <1>3, <1>4
<1>9. /\ Parts(data)[k] \in CStrings
      /\ \A i \in 1 .. Len(Parts(data)[k]) : \E j \in DOMAIN data : Parts(data)[k][i] = data[j]
  <2> DEFINE v == SubSeq(data, b, e - 1)
  <2>1. \A j \in b .. e - 1 : data[j] \in Codes
    <3>1. \A j \in b .. e - 1 : j \in 1 .. L
      BY <1>1, <1>8
    <3>2. \A j \in 1 .. L : data[j] \in Int
      OBVIOUS
    <3> QED
      BY <1>4, <3>1, <3>2 DEF Codes
  <2>2. /\ v \in Seq(Codes) /\ Len(v) = IF b <= e - 1 THEN e - 1 - b + 1 ELSE 0
        /\ \A i \in 1 .. e - 1 - b + 1 : v[i] = data[b + i - 1]
    BY <1>8, <2>1, SubSeqProperties
  <2> HIDE DEF v
  <2>3. ASSUME NEW i \in 1 .. Len(v)
        PROVE  \E j \in DOMAIN data : v[i] = data[j]
    <3>1. i \in 1 .. e - 1 - b + 1 /\ b + i - 1 \in 1 .. L
      BY <1>1, <1>8, <2>2
    <3> QED
      BY <1>1, <2>2, <3>1
  <2> QED
    BY <1>5, <2>2, <2>3 DEF v, CStrings
<1>10. CASE k = 1
  <2>1. Cardinality(UpTo(S, 1)) = 1 /\ 1 \in S
    <3>1. 1 \in S
      BY DEF S, Starts
    <3>2. UpTo(S, 1) = {1}
      <4>1. \A j \in S : j \in Int /\ j >= 1
        BY <1>1 DEF S
      <4>2. \A j \in S : j <= 1 <=> j = 1
        BY <4>1
      <4> QED
        BY <3>1, <4>2 DEF UpTo
    <3> QED
      BY <3>1, <3>2, FS_Singleton
  <2>2. b = 1
    <3>1. S \in SUBSET (1 .. L + 1) /\ L + 1 \in Nat
      BY <1>1 DEF S
    <3>2. Nth(S, Cardinality(UpTo(S, 1))) = 1
      BY <2>1, <3>1, NthIs
    <3> QED
      BY <1>10, <2>1, <3>2 DEF b
  <2>3. k = 1 => UptoPart(data, 1) = Parts(data)[1]
    BY <1>5, <1>7, <1>10, <2>2
  <2>4. ~ (k > 1)
    BY <1>10
  <2> QED
    BY <1>9, <2>3, <2>4
<1>11. CASE k > 1
  <2>0. k - 1 \in 1 .. n /\ k - 1 < n /\ (k - 1) + 1 = k /\ k # 1
    BY <1>2, <1>3, <1>11
  <2>1. UptoPart(data, k - 1) = SubSeq(data, 1, b - 2)
    BY <2>0 DEF UptoPart, S, n, b
  <2>2. PICK m : m = k - 1
    OBVIOUS
  <2>3. Nth(S, m) \in S
    <3>1. S \in SUBSET (1 .. L + 1) /\ L + 1 \in Nat /\ m \in 1 .. Cardinality(S)
      BY <1>1, <2>0, <2>2 DEF S, n
    <3> QED
      BY <3>1, NthOf
  <2>4. Nth(S, m) \in 1 .. L + 1
    BY <1>1, <2>3 DEF S
  <2>5. PICK f \in Nth(S, m) .. L + 1 : (f = L + 1 \/ data[f] = 0) /\ \A j \in Nth(S, m) .. f - 1 : data[j] # 0
    BY <2>4, NextNul
  <2>6. f # L + 1 /\ b = f + 1
    <3>1. IF f = L + 1 THEN m = n ELSE m < n /\ Nth(S, m + 1) = f + 1
      BY <2>0, <2>2, <2>5, NextStart DEF S, n
    <3>2. m # n /\ m + 1 = k
      BY <1>2, <2>0, <2>2
    <3> QED
      BY <3>1, <3>2 DEF b
  <2>7. f \in 1 .. L /\ data[f] = 0
    BY <1>1, <2>4, <2>5, <2>6
  <2>8. PICK x : x = f - 1
    OBVIOUS
  <2>9. PICK y : y = e - 1
    OBVIOUS
  <2>10. /\ x \in 0 .. Len(data) /\ y \in x + 1 .. Len(data)
         /\ x + 1 = f /\ x + 2 = b /\ b - 2 = x
    BY <1>8, <2>6, <2>7, <2>8, <2>9
  <2>11. SubSeq(data, 1, x) \o <<data[x + 1]>> \o SubSeq(data, x + 2, y) = SubSeq(data, 1, y)
    BY <2>10, SubJoined
  <2>12. UptoPart(data, k) = UptoPart(data, k - 1) \o <<0>> \o Parts(data)[k]
    BY <1>5, <1>7, <2>1, <2>7, <2>9, <2>10, <2>11
  <2> QED
    BY <1>9, <2>0, <2>12
<1>12. k = 1 \/ k > 1
  BY <1>2, <1>3
<1> QED
  BY <1>10, <1>11, <1>12

(* The text up to the last string is all of it.                            *)
LEMMA UptoLast ==
    ASSUME NEW data \in Seq(Int)
    PROVE  UptoPart(data, Cardinality(Starts(data))) = data
<1>1. Cardinality(Starts(data)) \in Nat
  BY PartsFirst
<1>2. ~ (Cardinality(Starts(data)) < Cardinality(Starts(data)))
  BY <1>1
<1>3. SubSeq(data, 1, Len(data)) = data
  BY SubSeqFull
<1> QED
  BY <1>2, <1>3 DEF UptoPart

-----------------------------------------------------------------------------
(* The lines toString writes                                               *)

(* Keys and values as Reloadable wants them, without blanks around them.   *)
PlainKey(k) ==
    /\ k \in CStrings /\ k # <<>> /\ k[1] # Space /\ k[1] # Hash /\ k[Len(k)] # Space
    /\ \A i \in 1 .. Len(k) : k[i] >= Space /\ k[i] # Equals
PlainValue(v) ==
    /\ v \in CStrings /\ (v # <<>> => v[1] # Space /\ v[Len(v)] # Space)
    /\ \A i \in 1 .. Len(v) : v[i] >= Space /\ v[i] # Hash
KeyLine(k, v) == Indent \o k \o <<Space, Equals, Space>> \o v \o <<10>>

(* Where everything is in such a line.                                     *)
LEMMA KeyLineIs ==
    ASSUME NEW k \in CStrings, NEW v \in CStrings
    PROVE  LET n == Len(k)
               m == Len(v)
               line == KeyLine(k, v)
           IN  /\ line \in CStrings /\ n \in Nat /\ m \in Nat /\ Len(line) = n + m + 8
               /\ \A i \in 1 .. 4 : line[i] = Space
               /\ \A i \in 5 .. n + 4 : line[i] = k[i - 4]
               /\ line[n + 5] = Space /\ line[n + 6] = Equals /\ line[n + 7] = Space
               /\ \A i \in n + 8 .. n + m + 7 : line[i] = v[i - (n + 7)]
               /\ line[n + m + 8] = 10
<1> DEFINE n == Len(k)
           m == Len(v)
           sign == <<Space, Equals, Space>>
           nl == <<10>>
           a == Indent \o k
           b == a \o sign
           d == b \o v
           line == d \o nl
<1>1. /\ Indent \in Seq(Codes) /\ Len(Indent) = 4 /\ \A i \in 1 .. 4 : Indent[i] = Space
      /\ sign \in Seq(Codes) /\ Len(sign) = 3 /\ sign[1] = Space /\ sign[2] = Equals /\ sign[3] = Space
      /\ nl \in Seq(Codes) /\ Len(nl) = 1 /\ nl[1] = 10
  <2>1. Space \in Codes /\ Equals \in Codes /\ 10 \in Codes
    BY DEF Space, Equals, Codes
  <2>2. Indent \in Seq(Codes) /\ Len(Indent) = 4 /\ \A i \in 1 .. 4 : Indent[i] = Space
    BY <2>1 DEF Indent
  <2>3. sign \in Seq(Codes) /\ Len(sign) = 3 /\ sign[1] = Space /\ sign[2] = Equals /\ sign[3] = Space
    BY <2>1
  <2>4. nl \in Seq(Codes) /\ Len(nl) = 1 /\ nl[1] = 10
    BY <2>1
  <2> QED
    BY <2>2, <2>3, <2>4
<1>2. k \in Seq(Codes) /\ v \in Seq(Codes) /\ n \in Nat /\ m \in Nat
  BY DEF CStrings
<1>3. line = KeyLine(k, v)
  BY DEF KeyLine
<1> HIDE DEF sign, nl
<1>4. /\ a \in Seq(Codes) /\ Len(a) = n + 4
      /\ \A i \in 1 .. 4 : a[i] = Space
      /\ \A i \in 5 .. n + 4 : a[i] = k[i - 4]
  <2>1. /\ a \in Seq(Codes) /\ Len(a) = 4 + n
        /\ \A i \in 1 .. 4 : a[i] = Indent[i]
        /\ \A i \in 4 + 1 .. 4 + n : a[i] = k[i - 4]
    <3>1. /\ a \in Seq(Codes) /\ Len(a) = Len(Indent) + n
          /\ \A i \in 1 .. Len(Indent) : a[i] = Indent[i]
          /\ \A i \in Len(Indent) + 1 .. Len(Indent) + n : a[i] = k[i - Len(Indent)]
      BY <1>1, <1>2, Joined
    <3> HIDE DEF a, n
    <3> QED
      BY <1>1, <3>1
  <2>2. 4 + n = n + 4 /\ 4 + 1 = 5
    BY <1>2
  <2> HIDE DEF a, n
  <2> QED
    BY <1>1, <2>1, <2>2
<1> HIDE DEF a
<1>5. /\ b \in Seq(Codes) /\ Len(b) = n + 7
      /\ \A i \in 1 .. n + 4 : b[i] = a[i]
      /\ b[n + 5] = Space /\ b[n + 6] = Equals /\ b[n + 7] = Space
  <2>1. /\ b \in Seq(Codes) /\ Len(b) = Len(a) + 3
        /\ \A i \in 1 .. Len(a) : b[i] = a[i]
        /\ \A i \in Len(a) + 1 .. Len(a) + 3 : b[i] = sign[i - Len(a)]
    <3>1. /\ b \in Seq(Codes) /\ Len(b) = Len(a) + Len(sign)
          /\ \A i \in 1 .. Len(a) : b[i] = a[i]
          /\ \A i \in Len(a) + 1 .. Len(a) + Len(sign) : b[i] = sign[i - Len(a)]
      BY <1>1, <1>4, Joined
    <3> HIDE DEF b
    <3> QED
      BY <1>1, <3>1
  <2> HIDE DEF b, n
  <2>2. /\ n + 5 \in Len(a) + 1 .. Len(a) + 3 /\ (n + 5) - Len(a) = 1
        /\ n + 6 \in Len(a) + 1 .. Len(a) + 3 /\ (n + 6) - Len(a) = 2
        /\ n + 7 \in Len(a) + 1 .. Len(a) + 3 /\ (n + 7) - Len(a) = 3
        /\ Len(a) + 3 = n + 7
    BY <1>2, <1>4
  <2> QED
    BY <1>1, <1>4, <2>1, <2>2
<1> HIDE DEF b
<1>6. /\ d \in Seq(Codes) /\ Len(d) = n + m + 7
      /\ \A i \in 1 .. n + 7 : d[i] = b[i]
      /\ \A i \in n + 8 .. n + m + 7 : d[i] = v[i - (n + 7)]
  <2>1. /\ d \in Seq(Codes) /\ Len(d) = Len(b) + m
        /\ \A i \in 1 .. Len(b) : d[i] = b[i]
        /\ \A i \in Len(b) + 1 .. Len(b) + m : d[i] = v[i - Len(b)]
    BY <1>2, <1>5, Joined
  <2> HIDE DEF d, n, m
  <2>2. (n + 7) + 1 = n + 8 /\ (n + 7) + m = n + m + 7
    BY <1>2
  <2> QED
    BY <1>5, <2>1, <2>2
<1> HIDE DEF d
<1>7. /\ line \in Seq(Codes) /\ Len(line) = n + m + 8
      /\ \A i \in 1 .. n + m + 7 : line[i] = d[i]
      /\ line[n + m + 8] = 10
  <2>1. /\ line \in Seq(Codes) /\ Len(line) = Len(d) + 1
        /\ \A i \in 1 .. Len(d) : line[i] = d[i]
        /\ \A i \in Len(d) + 1 .. Len(d) + 1 : line[i] = nl[i - Len(d)]
    <3>1. /\ line \in Seq(Codes) /\ Len(line) = Len(d) + Len(nl)
          /\ \A i \in 1 .. Len(d) : line[i] = d[i]
          /\ \A i \in Len(d) + 1 .. Len(d) + Len(nl) : line[i] = nl[i - Len(d)]
      <4>1. d \in Seq(Codes) /\ nl \in Seq(Codes)
        BY <1>1, <1>6
      <4> QED
        BY <4>1, Joined
    <3> HIDE DEF line
    <3> QED
      BY <1>1, <3>1
  <2> HIDE DEF line, n, m
  <2>2. n + m + 8 \in Len(d) + 1 .. Len(d) + 1 /\ (n + m + 8) - Len(d) = 1 /\ Len(d) + 1 = n + m + 8
    BY <1>2, <1>6
  <2> QED
    BY <1>1, <1>6, <2>1, <2>2
<1> HIDE DEF line, n, m
<1>8. /\ \A i \in 1 .. 4 : i \in 1 .. n + m + 7 /\ i \in 1 .. n + 7 /\ i \in 1 .. n + 4
      /\ \A i \in 5 .. n + 4 : i \in 1 .. n + m + 7 /\ i \in 1 .. n + 7 /\ i \in 1 .. n + 4
      /\ \A i \in {n + 5, n + 6, n + 7} : i \in 1 .. n + m + 7 /\ i \in 1 .. n + 7
      /\ \A i \in n + 8 .. n + m + 7 : i \in 1 .. n + m + 7
  BY <1>2
<1>9. /\ \A i \in 1 .. 4 : line[i] = Space
      /\ \A i \in 5 .. n + 4 : line[i] = k[i - 4]
  BY <1>4, <1>5, <1>6, <1>7, <1>8
<1>10. line[n + 5] = Space /\ line[n + 6] = Equals /\ line[n + 7] = Space
  BY <1>5, <1>6, <1>7, <1>8
<1>11. \A i \in n + 8 .. n + m + 7 : line[i] = v[i - (n + 7)]
  BY <1>6, <1>7, <1>8
<1>12. line \in CStrings
  BY <1>7 DEF CStrings
<1> QED
  BY <1>2, <1>3, <1>7, <1>9, <1>10, <1>11, <1>12 DEF n, m

(* Every position is in one of these places.                               *)
LEMMA KeyLineInk ==
    ASSUME NEW k, PlainKey(k), NEW v, PlainValue(v)
    PROVE  LET n == Len(k)
               m == Len(v)
               line == KeyLine(k, v)
           IN  /\ Plain(line) /\ n >= 1
               /\ \A i \in Ink(line) : \/ 5 <= i /\ i <= n + 4
                                       \/ i = n + 6
                                       \/ n + 8 <= i /\ i <= n + m + 7
               /\ 5 \in Ink(line) /\ n + 4 \in Ink(line) /\ n + 6 \in Ink(line)
               /\ m > 0 => n + 8 \in Ink(line) /\ n + m + 7 \in Ink(line)
               /\ line[5] # Hash
               /\ \A i \in 1 .. Len(line) : line[i] = Hash => 5 < i /\ i <= n + 4
               /\ \A i \in 1 .. Len(line) : line[i] = Equals => n + 6 <= i
<1> DEFINE n == Len(k)
           m == Len(v)
           line == KeyLine(k, v)
<1>1. k \in CStrings /\ v \in CStrings /\ k # <<>> /\ \A i \in 1 .. n : k[i] \in Int
  BY DEF PlainKey, PlainValue, CStrings, Codes
<1>2. \A i \in 1 .. m : v[i] \in Int
  BY DEF PlainValue, CStrings, Codes
<1>3. /\ line \in CStrings /\ n \in Nat /\ m \in Nat /\ Len(line) = n + m + 8
      /\ \A i \in 1 .. 4 : line[i] = Space
      /\ \A i \in 5 .. n + 4 : line[i] = k[i - 4]
      /\ line[n + 5] = Space /\ line[n + 6] = Equals /\ line[n + 7] = Space
      /\ \A i \in n + 8 .. n + m + 7 : line[i] = v[i - (n + 7)]
      /\ line[n + m + 8] = 10
  BY <1>1, KeyLineIs
<1>4. n >= 1 /\ DOMAIN line = 1 .. Len(line)
  <2>1. k \in Seq(Codes)
    BY <1>1 DEF CStrings
  <2>2. n # 0
    BY <1>1, <2>1
  <2> QED
    BY <1>3, <2>2 DEF CStrings
<1> HIDE DEF line
<1>5. ASSUME NEW i \in 1 .. Len(line)
      PROVE  \/ i \in 1 .. 4
             \/ i \in 5 .. n + 4
             \/ i = n + 5
             \/ i = n + 6
             \/ i = n + 7
             \/ i \in n + 8 .. n + m + 7
             \/ i = n + m + 8
  <2> HIDE DEF n, m
  <2> QED
    BY <1>3, <1>5
<1>6. ASSUME NEW i \in 5 .. n + 4
      PROVE  /\ line[i] \in Int /\ line[i] >= Space /\ line[i] # Equals
             /\ i = 5 \/ i = n + 4 => line[i] # Space
             /\ i = 5 => line[i] # Hash
  <2>1. i - 4 \in 1 .. n /\ (i = 5 => i - 4 = 1) /\ (i = n + 4 => i - 4 = n)
    BY <1>3, <1>6
  <2>2. line[i] = k[i - 4]
    BY <1>3
  <2>3. /\ \A j \in 1 .. n : k[j] >= Space /\ k[j] # Equals
        /\ k[1] # Space /\ k[1] # Hash /\ k[n] # Space
    BY DEF PlainKey
  <2> QED
    BY <1>1, <2>1, <2>2, <2>3
<1>7. ASSUME NEW i \in n + 8 .. n + m + 7
      PROVE  /\ line[i] \in Int /\ line[i] >= Space /\ line[i] # Hash
             /\ i = n + 8 \/ i = n + m + 7 => line[i] # Space
  <2>1. i - (n + 7) \in 1 .. m /\ (i = n + 8 => i - (n + 7) = 1) /\ (i = n + m + 7 => i - (n + 7) = m) /\ m # 0
    BY <1>3, <1>7
  <2>2. line[i] = v[i - (n + 7)]
    BY <1>3
  <2>3. v # <<>>
    BY <2>1
  <2>4. /\ \A j \in 1 .. m : v[j] >= Space /\ v[j] # Hash
        /\ v[1] # Space /\ v[m] # Space
    BY <2>3 DEF PlainValue
  <2> QED
    BY <1>2, <2>1, <2>2, <2>4
<1> USE DEF Space, Equals, Hash
<1> HIDE DEF n, m
<1>8. Plain(line)
  <2>1. ASSUME NEW i \in 1 .. Len(line)
        PROVE  line[i] >= Space \/ (line[i] = 10 /\ i = Len(line))
    <3>1. CASE i \in 1 .. 4 \/ i = n + 5 \/ i = n + 6 \/ i = n + 7
      <4>1. line[i] = 32 \/ line[i] = 61
        BY <1>3, <3>1
      <4> QED
        BY <4>1
    <3>2. CASE i \in 5 .. n + 4
      BY <1>6, <3>2
    <3>3. CASE i \in n + 8 .. n + m + 7
      BY <1>7, <3>3
    <3>4. CASE i = n + m + 8
      BY <1>3, <3>4
    <3> QED
      BY <1>5, <3>1, <3>2, <3>3, <3>4
  <2> QED
    BY <1>4, <2>1 DEF Plain
<1>9. ASSUME NEW i \in 1 .. Len(line), line[i] \notin Blanks
      PROVE  \/ 5 <= i /\ i <= n + 4
             \/ i = n + 6
             \/ n + 8 <= i /\ i <= n + m + 7
  <2>1. line[i] # Space /\ line[i] # 10
    BY <1>9 DEF Blanks
  <2>2. \/ i \in 5 .. n + 4
        \/ i = n + 6
        \/ i \in n + 8 .. n + m + 7
    BY <1>3, <1>5, <2>1
  <2> QED
    BY <1>3, <2>2
<1>10. \A i \in Ink(line) : \/ 5 <= i /\ i <= n + 4
                            \/ i = n + 6
                            \/ n + 8 <= i /\ i <= n + m + 7
  BY <1>4, <1>9 DEF Ink
<1>11. 5 \in 5 .. n + 4 /\ n + 4 \in 5 .. n + 4 /\ (m > 0 => n + 8 \in n + 8 .. n + m + 7 /\ n + m + 7 \in n + 8 .. n + m + 7)
  BY <1>3, <1>4
<1>12. \A i \in {5, n + 4, n + 6} : i \in 1 .. Len(line)
  BY <1>3, <1>4
<1>13. line[5] \notin Blanks /\ line[n + 4] \notin Blanks /\ line[n + 6] \notin Blanks
  BY <1>3, <1>6, <1>11 DEF Blanks
<1>14. m > 0 => /\ n + 8 \in 1 .. Len(line) /\ n + m + 7 \in 1 .. Len(line)
                /\ line[n + 8] \notin Blanks /\ line[n + m + 7] \notin Blanks
  BY <1>3, <1>7, <1>11 DEF Blanks
<1>15. /\ 5 \in Ink(line) /\ n + 4 \in Ink(line) /\ n + 6 \in Ink(line)
       /\ m > 0 => n + 8 \in Ink(line) /\ n + m + 7 \in Ink(line)
  BY <1>4, <1>12, <1>13, <1>14 DEF Ink
<1>16. line[5] # Hash
  BY <1>6, <1>11
<1>17. ASSUME NEW i \in 1 .. Len(line), line[i] = Hash
       PROVE  5 < i /\ i <= n + 4
  <2>0. ~ (i \in 1 .. 4 \/ i = n + 5 \/ i = n + 6 \/ i = n + 7 \/ i = n + m + 8)
    BY <1>3, <1>17
  <2>1. i \in 5 .. n + 4
    <3>1. i \notin n + 8 .. n + m + 7
      BY <1>7, <1>17
    <3> QED
      BY <1>5, <2>0, <3>1
  <2>2. i # 5
    BY <1>16, <1>17
  <2> QED
    BY <1>3, <2>1, <2>2
<1>18. ASSUME NEW i \in 1 .. Len(line), line[i] = Equals
       PROVE  n + 6 <= i
  <2>1. i \notin 1 .. 4 /\ i \notin 5 .. n + 4 /\ i # n + 5
    <3>1. i \notin 1 .. 4 /\ i # n + 5
      BY <1>3, <1>18
    <3>2. i \notin 5 .. n + 4
      BY <1>6, <1>18
    <3> QED
      BY <3>1, <3>2
  <2>2. i = n + 6 \/ i = n + 7 \/ i \in n + 8 .. n + m + 7 \/ i = n + m + 8
    BY <1>5, <2>1
  <2> QED
    BY <1>3, <2>2
<1> QED
  BY <1>4, <1>8, <1>10, <1>15, <1>16, <1>17, <1>18 DEF n, m, line

(* A string that is not empty has a character.                             *)
LEMMA NotEmpty ==
    ASSUME NEW s \in CStrings
    PROVE  Len(s) \in Nat /\ (s # <<>> <=> Len(s) > 0)
BY DEF CStrings

(* A text, taken out of the line it stands in.                             *)
LEMMA TakenOut ==
    ASSUME NEW s \in CStrings, NEW k \in CStrings, NEW a \in Nat, NEW b \in Nat,
           b = a + Len(k), b <= Len(s), \A i \in a + 1 .. b : s[i] = k[i - a]
    PROVE  SubSeq(s, a + 1, b) = k
<1> DEFINE t == SubSeq(s, a + 1, b)
<1>1. Len(s) \in Nat /\ Len(k) \in Nat /\ k \in Seq(Codes) /\ \A i \in 1 .. Len(s) : s[i] \in Codes
  BY DEF CStrings
<1>2. a + 1 \in Int /\ b \in Int /\ \A i \in a + 1 .. b : s[i] \in Codes
  BY <1>1
<1>3. /\ t \in Seq(Codes) /\ Len(t) = IF a + 1 <= b THEN b - (a + 1) + 1 ELSE 0
      /\ \A i \in 1 .. b - (a + 1) + 1 : t[i] = s[(a + 1) + i - 1]
  BY <1>2, SubSeqProperties
<1> HIDE DEF t
<1>4. Len(t) = Len(k)
  BY <1>1, <1>3
<1>5. ASSUME NEW i \in 1 .. Len(t)
      PROVE  t[i] = k[i]
  <2>1. /\ i \in 1 .. b - (a + 1) + 1 /\ (a + 1) + i - 1 = a + i
        /\ a + i \in a + 1 .. b /\ (a + i) - a = i
    BY <1>1, <1>4
  <2>2. t[i] = s[a + i]
    BY <1>3, <2>1
  <2>3. s[a + i] = k[(a + i) - a]
    BY <2>1
  <2> QED
    BY <2>1, <2>2, <2>3
<1> QED
  BY <1>1, <1>3, <1>4, <1>5, SameSeq DEF t

(* A line of a key and a value is read as that key and that value.         *)
LEMMA KeyLineRead ==
    ASSUME NEW k, PlainKey(k), NEW v, PlainValue(v), NEW stray \in Int
    PROVE  LET line == KeyLine(k, v)
               r == ParseValue(AfterIsSectionName(line), stray)
           IN  IsSectionName(line) = <<>> /\ r.ret = 0 /\ r.key = k /\ r.val = v
<1> DEFINE n == Len(k)
           m == Len(v)
           line == KeyLine(k, v)
           L == Len(line)
<1>1. k \in CStrings /\ v \in CStrings
  BY DEF PlainKey, PlainValue
<1>2. /\ line \in CStrings /\ n \in Nat /\ m \in Nat /\ L = n + m + 8
      /\ \A i \in 1 .. 4 : line[i] = Space
      /\ \A i \in 5 .. n + 4 : line[i] = k[i - 4]
      /\ line[n + 6] = Equals
      /\ \A i \in n + 8 .. n + m + 7 : line[i] = v[i - (n + 7)]
  BY <1>1, KeyLineIs
<1>3. /\ Plain(line) /\ n >= 1
      /\ \A i \in Ink(line) : \/ 5 <= i /\ i <= n + 4
                              \/ i = n + 6
                              \/ n + 8 <= i /\ i <= n + m + 7
      /\ 5 \in Ink(line) /\ n + 4 \in Ink(line)
      /\ m > 0 => n + 8 \in Ink(line) /\ n + m + 7 \in Ink(line)
      /\ line[5] # Hash
      /\ \A i \in 1 .. L : line[i] = Hash => 5 < i /\ i <= n + 4
      /\ \A i \in 1 .. L : line[i] = Equals => n + 6 <= i
  BY KeyLineInk
<1> HIDE DEF line, L, n, m
<1>4. \A i \in Ink(line) : i \in Int
  <2>1. Ink(line) \in SUBSET (1 .. L)
    BY <1>2, <1>3, PlainLine DEF L
  <2> QED
    BY <2>1
<1>5. IsSectionName(line) = <<>> /\ AfterIsSectionName(line) = line
  <2>1. line[1] # Open
    BY <1>2 DEF Space, Open
  <2> QED
    BY <2>1 DEF IsSectionName, AfterIsSectionName, Bracketed
<1>6. FirstAt(line, Equals, 1, n + 6)
  <2>1. n + 6 \in 1 .. L + 1 /\ \A j \in 1 .. (n + 6) - 1 : j \in 1 .. L /\ ~ (n + 6 <= j)
    BY <1>2
  <2> QED
    BY <1>2, <1>3, <2>1 DEF FirstAt, L
<1>7. PICK h : FirstAt(line, Hash, 1, h)
  <2>1. 1 \in 1 .. Len(line) + 1
    BY <1>2 DEF L
  <2> QED
    BY <1>2, <2>1, FirstExists
<1>8. 5 < h
  <2>1. h \in 1 .. L + 1 /\ (h = L + 1 \/ line[h] = Hash)
    BY <1>7 DEF FirstAt, L
  <2>2. CASE h = L + 1
    BY <1>2, <1>3, <2>2
  <2>3. CASE h # L + 1
    <3>1. h \in 1 .. L /\ line[h] = Hash
      BY <1>2, <2>1, <2>3
    <3> QED
      BY <1>3, <3>1
  <2> QED
    BY <2>2, <2>3
<1> DEFINE rest == SubSeq(line, n + 7, L)
<1>9. /\ Meaning(line).ret = 0 /\ Meaning(line).key = Bare(SubSeq(line, 1, n + 5))
      /\ Meaning(line).val = Bare(Upto(rest, Hash)) /\ Meaning(line).comment = Bare(rest)
  <2>1. ~ (\A j \in Ink(line) : ~ (j < h)) /\ n + 6 # L + 1 /\ (n + 6) - 1 = n + 5 /\ (n + 6) + 1 = n + 7
    BY <1>2, <1>3, <1>8
  <2>2. PICK q : q = n + 6
    OBVIOUS
  <2>3. IF \A j \in Ink(line) : ~ (j < h) THEN Meaning(line) = [ret |-> -1]
        ELSE IF q = L + 1 THEN Meaning(line) = [ret |-> -2]
        ELSE /\ Meaning(line).ret = 0 /\ Meaning(line).key = Bare(SubSeq(line, 1, q - 1))
             /\ Meaning(line).val = Bare(Upto(SubSeq(line, q + 1, L), Hash))
             /\ Meaning(line).comment = Bare(SubSeq(line, q + 1, L))
    <3>1. FirstAt(line, Equals, 1, q)
      BY <1>6, <2>2
    <3> QED
      <4>1. line \in CStrings /\ Plain(line)
        BY <1>2, <1>3
      <4>2. IF \A j \in Ink(line) : ~ (j < h) THEN Meaning(line) = [ret |-> -1]
            ELSE IF q = Len(line) + 1 THEN Meaning(line) = [ret |-> -2]
            ELSE /\ Meaning(line).ret = 0 /\ Meaning(line).key = Bare(SubSeq(line, 1, q - 1))
                 /\ Meaning(line).val = Bare(Upto(SubSeq(line, q + 1, Len(line)), Hash))
                 /\ Meaning(line).comment = Bare(SubSeq(line, q + 1, Len(line)))
                 /\ Meaning(line).apart <=>
                      1 < q /\ line[q - 1] = Space /\ q < Len(line) /\ line[q + 1] = Hash
        BY <1>7, <3>1, <4>1, MeaningIs
      <4> QED
        BY <4>2 DEF L
  <2> QED
    BY <2>1, <2>2, <2>3
<1>10. Bare(SubSeq(line, 1, n + 5)) = k
  <2>1. PICK a : a = 5
    OBVIOUS
  <2>2. PICK b : b = n + 4
    OBVIOUS
  <2>3. PICK e : e = n + 5
    OBVIOUS
  <2>4. /\ a \in Ink(line) /\ b \in Ink(line) /\ a \in 1 .. e /\ b \in 1 .. e /\ e \in Int /\ e <= L
        /\ 1 \in Nat \ {0}
    BY <1>2, <1>3, <2>1, <2>2, <2>3
  <2>5. ASSUME NEW j \in Ink(line), j \in 1 .. e
        PROVE  a <= j /\ j <= b
    BY <1>2, <1>3, <1>4, <2>1, <2>2, <2>3, <2>5
  <2>6. Bare(SubSeq(line, 1, e)) = SubSeq(line, a, b)
    BY <1>2, <2>4, <2>5, BareIs DEF L
  <2>7. SubSeq(line, a, b) = k
    <3>1. PICK c : c = 4
      OBVIOUS
    <3>2. /\ c \in Nat /\ b \in Nat /\ b = c + n /\ b <= L /\ c + 1 = a
          /\ \A i \in c + 1 .. b : line[i] = k[i - c]
      BY <1>2, <2>1, <2>2, <3>1
    <3>3. SubSeq(line, c + 1, b) = k
      BY <1>1, <1>2, <3>2, TakenOut DEF L, n
    <3> QED
      BY <3>2, <3>3
  <2> QED
    BY <2>3, <2>6, <2>7
<1>11. Bare(rest) = v /\ Upto(rest, Hash) = rest
  <2>0. PICK f : f = n + 7
    OBVIOUS
  <2>1. PICK e : e = L + 1
    OBVIOUS
  <2>2. Upto(rest, Hash) = rest
    <3>1. f \in 1 .. L + 1 /\ e \in f .. L + 1 /\ e - 1 = L
      BY <1>2, <2>0, <2>1
    <3>2. \A j \in f .. e - 1 : line[j] # Hash
      <4>1. \A j \in f .. e - 1 : j \in 1 .. L /\ ~ (j <= n + 4)
        BY <1>2, <2>0, <2>1
      <4> QED
        BY <1>3, <4>1
    <3>3. FirstAt(line, Hash, f, e)
      BY <2>1, <3>1, <3>2 DEF FirstAt, L
    <3>4. Upto(SubSeq(line, f, L), Hash) = SubSeq(line, f, e - 1)
      BY <1>2, <3>1, <3>3, UptoIs DEF L
    <3> QED
      BY <2>0, <3>1, <3>4
  <2>3. f \in Nat \ {0} /\ L \in Int /\ L <= L
    BY <1>2, <2>0
  <2>4. CASE m = 0
    <3>1. \A j \in Ink(line) : j \notin f .. L
      BY <1>2, <1>3, <1>4, <2>0, <2>4
    <3>2. Bare(SubSeq(line, f, L)) = <<>>
      BY <1>2, <2>3, <3>1, BareNone DEF L
    <3>3. v = <<>>
      BY <1>1, <2>4, NotEmpty DEF m
    <3> QED
      BY <2>0, <2>2, <3>2, <3>3
  <2>5. CASE m # 0
    <3>1. PICK a : a = n + 8
      OBVIOUS
    <3>2. PICK b : b = n + m + 7
      OBVIOUS
    <3>3. m > 0
      BY <1>2, <2>5
    <3>4. a \in Ink(line) /\ b \in Ink(line) /\ a \in f .. L /\ b \in f .. L
      BY <1>2, <1>3, <2>0, <3>1, <3>2, <3>3
    <3>5. ASSUME NEW j \in Ink(line), j \in f .. L
          PROVE  a <= j /\ j <= b
      BY <1>2, <1>3, <1>4, <2>0, <3>1, <3>2, <3>5
    <3>6. Bare(SubSeq(line, f, L)) = SubSeq(line, a, b)
      BY <1>2, <2>3, <3>4, <3>5, BareIs DEF L
    <3>7. SubSeq(line, a, b) = v
      <4>1. /\ f \in Nat /\ b \in Nat /\ b = f + m /\ b <= L /\ f + 1 = a
            /\ \A i \in f + 1 .. b : line[i] = v[i - f]
        BY <1>2, <2>0, <3>1, <3>2
      <4>2. SubSeq(line, f + 1, b) = v
        BY <1>1, <1>2, <4>1, TakenOut DEF L, m
      <4> QED
        BY <4>1, <4>2
    <3> QED
      BY <2>0, <2>2, <3>6, <3>7
  <2> QED
    BY <2>4, <2>5
<1>12. k # <<>>
  BY DEF PlainKey
<1>13. LET w == Meaning(line)
           r == ParseValue(line, stray)
       IN  IF w.ret # 0 THEN r = w
           ELSE IF w.key = <<>> THEN r.ret = -2 \/ r.key[1] = Equals
           ELSE /\ r.ret = 0 /\ r.key = w.key
                /\ r.val = IF w.val = <<>> /\ ~w.apart THEN w.comment ELSE w.val
  BY <1>2, <1>3, PlainRead
<1> HIDE DEF rest
<1>14. Meaning(line).ret = 0 /\ Meaning(line).key = k /\ Meaning(line).val = v /\ Meaning(line).comment = v
  BY <1>9, <1>10, <1>11
<1>15. LET r == ParseValue(line, stray)
       IN  r.ret = 0 /\ r.key = k /\ r.val = v
  BY <1>12, <1>13, <1>14
<1> QED
  BY <1>5, <1>15 DEF line

(* A name as isSectionName lets it through, and the line written for it.   *)
NameText(name) == name \in CStrings /\ \A i \in DOMAIN name : NameChar(name[i])
SectionLine(name) == <<Open>> \o name \o <<Close, 10>>

(* The line of a section is read as its name.                              *)
LEMMA SectionLineRead ==
    ASSUME NEW name, NameText(name)
    PROVE  /\ SectionLine(name) \in CStrings
           /\ IsSectionName(SectionLine(name)) = <<name>>
<1> DEFINE n == Len(name)
           one == <<Open>>
           two == <<Close, 10>>
           a == one \o name
           line == a \o two
<1>1. name \in Seq(Codes) /\ n \in Nat /\ DOMAIN name = 1 .. n /\ name \in CStrings
  BY DEF NameText, CStrings
<1>2. /\ one \in Seq(Codes) /\ Len(one) = 1 /\ one[1] = Open
      /\ two \in Seq(Codes) /\ Len(two) = 2 /\ two[1] = Close /\ two[2] = 10
  BY DEF Codes, Open, Close
<1>3. line = SectionLine(name)
  BY DEF SectionLine
<1> HIDE DEF one, two
<1>4. /\ a \in Seq(Codes) /\ Len(a) = n + 1 /\ a[1] = Open
      /\ \A i \in 2 .. n + 1 : a[i] = name[i - 1]
  <2>1. /\ a \in Seq(Codes) /\ Len(a) = Len(one) + n
        /\ \A i \in 1 .. Len(one) : a[i] = one[i]
        /\ \A i \in Len(one) + 1 .. Len(one) + n : a[i] = name[i - Len(one)]
    BY <1>1, <1>2, Joined
  <2> HIDE DEF a, n
  <2>2. 1 \in 1 .. 1 /\ 1 + 1 = 2 /\ 1 + n = n + 1
    BY <1>1
  <2> QED
    BY <1>2, <2>1, <2>2
<1> HIDE DEF a
<1>5. /\ line \in Seq(Codes) /\ Len(line) = n + 3
      /\ \A i \in 1 .. n + 1 : line[i] = a[i]
      /\ line[n + 2] = Close /\ line[n + 3] = 10
  <2>1. /\ line \in Seq(Codes) /\ Len(line) = Len(a) + Len(two)
        /\ \A i \in 1 .. Len(a) : line[i] = a[i]
        /\ \A i \in Len(a) + 1 .. Len(a) + Len(two) : line[i] = two[i - Len(a)]
    <3>1. a \in Seq(Codes) /\ two \in Seq(Codes)
      BY <1>2, <1>4
    <3> QED
      BY <3>1, Joined
  <2> HIDE DEF line, n
  <2>2. /\ n + 2 \in Len(a) + 1 .. Len(a) + Len(two) /\ (n + 2) - Len(a) = 1
        /\ n + 3 \in Len(a) + 1 .. Len(a) + Len(two) /\ (n + 3) - Len(a) = 2
        /\ Len(a) + Len(two) = n + 3
    BY <1>1, <1>2, <1>4
  <2> QED
    BY <1>2, <1>4, <2>1, <2>2
<1> HIDE DEF line
<1>6. line[1] = Open /\ \A i \in 2 .. n + 1 : line[i] = name[i - 1]
  <2>1. 1 \in 1 .. n + 1 /\ \A i \in 2 .. n + 1 : i \in 1 .. n + 1
    BY <1>1
  <2> QED
    BY <1>4, <1>5, <2>1
<1>7. line \in CStrings /\ DOMAIN line = 1 .. n + 3
  BY <1>5 DEF CStrings
<1>8. LastInk(line) = n + 2
  <2> DEFINE S == {i \in DOMAIN line : line[i] \notin Blanks}
  <2>1. n + 2 \in S
    BY <1>1, <1>5, <1>7 DEF Close, Blanks
  <2>2. ASSUME NEW i \in S
        PROVE  i <= n + 2
    <3>1. i \in 1 .. n + 3 /\ i # n + 3
      BY <1>5, <1>7 DEF Blanks
    <3> QED
      BY <1>1, <3>1
  <2>3. S \in SUBSET Int
    BY <1>7
  <2> HIDE DEF S
  <2>4. Max(S) = n + 2
    BY <2>1, <2>2, <2>3, MaxIs
  <2> QED
    BY <2>4 DEF LastInk, S
<1>9. Bracketed(line)
  BY <1>1, <1>5, <1>6, <1>8, NotEmpty DEF Bracketed
<1>10. SubSeq(line, 2, LastInk(line) - 1) = name
  <2>1. PICK b : b = n + 1
    OBVIOUS
  <2>2. PICK c : c = 1
    OBVIOUS
  <2>3. /\ c \in Nat /\ b \in Nat /\ b = c + n /\ b <= Len(line) /\ c + 1 = 2 /\ LastInk(line) - 1 = b
        /\ \A i \in c + 1 .. b : line[i] = name[i - c]
    BY <1>1, <1>5, <1>6, <1>8, <2>1, <2>2
  <2>4. SubSeq(line, c + 1, b) = name
    BY <1>1, <1>7, <2>3, TakenOut DEF n
  <2> QED
    BY <2>3, <2>4
<1>11. \A i \in DOMAIN name : NameChar(name[i])
  BY DEF NameText
<1>12. IsSectionName(line) = <<name>>
  BY <1>9, <1>10, <1>11 DEF IsSectionName
<1> QED
  BY <1>3, <1>7, <1>12

(* The last line says nothing.                                             *)
LEMMA LastLineRead ==
    ASSUME NEW c, NEW stray
    PROVE  LoadLine(c, <<10>>, stray) = c
<1>1. ~ Bracketed(<<10>>)
  <2>1. Len(<<10>>) = 1
    OBVIOUS
  <2> QED
    BY <2>1 DEF Bracketed
<1>2. Ink(<<10>>) = {}
  <2>1. DOMAIN <<10>> = {1} /\ <<10>>[1] = 10
    OBVIOUS
  <2> QED
    BY <2>1 DEF Ink, Blanks
<1>3. ParseValue(<<10>>, stray) = [ret |-> -1]
  BY <1>2, ParseValueDef
<1>4. IsSectionName(<<10>>) = <<>> /\ AfterIsSectionName(<<10>>) = <<10>>
  BY <1>1 DEF IsSectionName, AfterIsSectionName
<1> QED
  BY <1>3, <1>4 DEF LoadLine

-----------------------------------------------------------------------------
(* What is in the store can be written                                     *)

(* Keys and values as parseValue leaves them.                              *)
KeyText(k) ==
    /\ k \in CStrings /\ k # <<>> /\ k[1] \notin Blanks /\ k[Len(k)] # Space
    /\ k[1] = Equals \/ \A i \in 1 .. Len(k) : k[i] # Equals
ValueText(v) == v \in CStrings /\ (v # <<>> => v[1] # Space /\ v[Len(v)] # Space)

(* The maps of a store are finite maps of such texts.                      *)
Legible(map) ==
    /\ map = [s \in DOMAIN map |-> map[s]] /\ IsFiniteSet(DOMAIN map)
    /\ \A s \in DOMAIN map :
           /\ NameText(s) /\ map[s] = [k \in DOMAIN map[s] |-> map[s][k]] /\ IsFiniteSet(DOMAIN map[s])
           /\ \A k \in DOMAIN map[s] :
                  /\ KeyText(k) /\ map[s][k] \in Seq(Int)
                  /\ \A i \in DOMAIN Parts(map[s][k]) : ValueText(Parts(map[s][k])[i])

(* What parseValue cuts out ends before a blank.                           *)
LEMMA FromLast ==
    ASSUME NEW s \in CStrings, NEW stray \in Int, EqualSigns(s) # {}, NEW i \in 1 .. End(s),
           From(s, stray, i) # <<>>
    PROVE  \E e \in {End(s), Cut(s, stray), Stop(s, stray)} :
               /\ i < e /\ e <= End(s) /\ From(s, stray, i) = SubSeq(s, i, e - 1)
               /\ \A k \in {End(s), Cut(s, stray), Stop(s, stray)} : k < i \/ e <= k
               /\ From(s, stray, i)[Len(From(s, stray, i))] # Space
<1> DEFINE M == {End(s), Cut(s, stray), Stop(s, stray)}
           K == {k \in M : k >= i}
<1>0. M \in SUBSET Int /\ End(s) \in M
  BY CutsAreNumbers
<1>1. End(s) \in 2 .. Len(s) + 1 /\ Len(s) \in Nat /\ DOMAIN s = 1 .. Len(s) /\ i \in Nat /\ 1 <= i /\ i <= End(s)
  BY CutsAreNumbers
<1> HIDE DEF M
<1>2. K \in SUBSET Nat /\ End(s) \in K
  <2>1. \A k \in K : k \in Int /\ k >= i
    BY <1>0
  <2>2. End(s) \in K
    BY <1>0, <1>1
  <2> HIDE DEF K
  <2>3. \A k \in K : k \in Nat
    BY <1>1, <2>1
  <2> QED
    BY <2>2, <2>3
<1> DEFINE e == Min(K)
<1> HIDE DEF K
<1>3. e \in K /\ \A k \in K : e <= k
  BY <1>2, MinOf
<1>4. From(s, stray, i) = SubSeq(s, i, e - 1)
  BY DEF From, K, M
<1>5. e \in M /\ e >= i /\ e \in Int /\ e <= End(s) /\ \A k \in M : k < i \/ e <= k
  <2>1. \A k \in M : k \in Int
    BY <1>0
  <2>2. \A k \in M : k >= i => k \in K
    BY DEF K
  <2>3. e \in M /\ e >= i
    BY <1>3 DEF K
  <2> HIDE DEF e
  <2>4. \A k \in M : k < i \/ k >= i
    BY <1>1, <2>1
  <2> QED
    BY <1>2, <1>3, <2>1, <2>2, <2>3, <2>4
<1> HIDE DEF e
<1>6. i < e
  <2>1. i > e - 1 => SubSeq(s, i, e - 1) = <<>>
    <3>1. e - 1 \in Int /\ i \in Int
      BY <1>1, <1>5
    <3> QED
      BY <3>1, SubSeqEmpty
  <2> QED
    BY <1>1, <1>4, <1>5, <2>1
<1>7. s[e - 1] # Space
  <2>0. e - 1 \in 1 .. Len(s) /\ e # 0 /\ e - 1 # 0
    BY <1>1, <1>5, <1>6
  <2>1. CASE e = End(s)
    <3>1. Ink(s) # {}
      BY Cuts
    <3>2. e - 1 \in Ink(s)
      BY <2>1, <3>1, Positions
    <3> QED
      BY <3>2 DEF Ink, Blanks, Space
  <2>2. CASE e = Cut(s, stray)
    <3> DEFINE S == {j \in 0 .. Eq(s) : j = 0 \/ Chr(s, stray, j - 1) # Space}
    <3>1. Eq(s) \in Nat
      BY CutsAreNumbers
    <3>2. S \in SUBSET (0 .. Eq(s)) /\ 0 \in S
      BY <3>1
    <3> HIDE DEF S
    <3>3. Max(S) \in S
      BY <3>1, <3>2, MaxOf
    <3>4. e \in S
      BY <2>2, <3>3 DEF Cut, S
    <3>5. Chr(s, stray, e - 1) # Space
      BY <2>0, <3>4 DEF S
    <3> QED
      BY <2>0, <3>5 DEF Chr
  <2>3. CASE e = Stop(s, stray)
    <3> DEFINE S == {j \in 0 .. CommentAt(s) :
                        j = 0 \/ (IF j - 1 = Cut(s, stray) THEN 0 ELSE Chr(s, stray, j - 1)) > Space}
    <3>1. CommentAt(s) \in Nat
      BY ValueNumbers
    <3>2. S \in SUBSET (0 .. CommentAt(s)) /\ 0 \in S
      BY <3>1
    <3> HIDE DEF S
    <3>3. Max(S) \in S
      BY <3>1, <3>2, MaxOf
    <3>4. e \in S
      BY <2>3, <3>3 DEF Stop, S
    <3>5. (IF e - 1 = Cut(s, stray) THEN 0 ELSE Chr(s, stray, e - 1)) > Space
      BY <2>0, <3>4 DEF S
    <3>6. ~ (0 > Space)
      BY DEF Space
    <3>7. Chr(s, stray, e - 1) > Space
      BY <3>5, <3>6
    <3>8. s[e - 1] \in Int /\ s[e - 1] > Space
      BY <2>0, <3>7 DEF Chr, CStrings, Codes
    <3> QED
      BY <3>8 DEF Space
  <2> QED
    BY <1>5, <2>1, <2>2, <2>3 DEF M
<1> DEFINE t == SubSeq(s, i, e - 1)
<1>8. t[Len(t)] = s[e - 1]
  <2>1. i \in Int /\ e - 1 \in Int /\ \A k \in i .. e - 1 : s[k] \in Codes
    <3>1. \A k \in i .. e - 1 : k \in 1 .. Len(s)
      BY <1>1, <1>5
    <3> QED
      BY <1>1, <1>5, <3>1 DEF CStrings
  <2>2. /\ Len(t) = IF i <= e - 1 THEN e - 1 - i + 1 ELSE 0
        /\ \A k \in 1 .. e - 1 - i + 1 : t[k] = s[i + k - 1]
    BY <2>1, SubSeqProperties
  <2> HIDE DEF t
  <2>3. Len(t) = e - 1 - i + 1 /\ Len(t) \in 1 .. e - 1 - i + 1 /\ i + Len(t) - 1 = e - 1
    BY <1>1, <1>5, <1>6, <2>2
  <2> QED
    BY <2>2, <2>3
<1> QED
  BY <1>4, <1>5, <1>6, <1>7, <1>8 DEF M, t

(* parseValue leaves such texts.                                           *)
LEMMA ParsedTexts ==
    ASSUME NEW s \in CStrings, NEW stray \in Int, ParseValue(s, stray).ret = 0
    PROVE  KeyText(ParseValue(s, stray).key) /\ ValueText(ParseValue(s, stray).val)
<1> DEFINE p == Min(Ink(s))
           key == From(s, stray, p)
           val == From(s, stray, ValueAt(s))
<1>1. /\ Ink(s) # {} /\ EqualSigns(s) # {} /\ key # <<>>
      /\ ParseValue(s, stray) = [ret |-> 0, key |-> key, val |-> val]
  <2>1. [ret |-> -1].ret # 0 /\ [ret |-> -2].ret # 0
    OBVIOUS
  <2> HIDE DEF key, val, p
  <2> QED
    BY <2>1, ParseValueDef DEF p, key, val
<1>2. /\ p \in Ink(s) /\ \A i \in Ink(s) : p <= i
      /\ Eq(s) \in Ink(s) /\ s[Eq(s)] = Equals /\ \A i \in DOMAIN s : s[i] = Equals => Eq(s) <= i
  BY <1>1, Positions, Cuts
<1>3. /\ Len(s) \in Nat /\ DOMAIN s = 1 .. Len(s) /\ End(s) \in Nat /\ End(s) <= Len(s) + 1
      /\ Eq(s) \in 1 .. Len(s) /\ Eq(s) < End(s)
      /\ Cut(s, stray) \in Int /\ Stop(s, stray) \in Int
  BY <1>1, CutsAreNumbers
<1>4. p \in 1 .. Len(s) /\ p <= Eq(s) /\ s[p] \notin Blanks /\ p \in 1 .. End(s)
  <2>1. p \in 1 .. Len(s) /\ p <= Eq(s) /\ s[p] \notin Blanks
    BY <1>2, <1>3 DEF Ink
  <2> HIDE DEF p
  <2> QED
    BY <1>3, <2>1
<1>5. ValueAt(s) \in Int /\ Eq(s) + 1 <= ValueAt(s) /\ ValueAt(s) <= End(s) /\ ValueAt(s) \in 1 .. End(s)
  <2>1. ValueAt(s) \in Int /\ Eq(s) + 1 <= ValueAt(s) /\ ValueAt(s) <= End(s)
    BY <1>1, ValueNumbers
  <2> QED
    BY <1>3, <2>1
<1> HIDE DEF p
<1>6. /\ key \in CStrings /\ (key # <<>> => key[1] = s[p])
      /\ val \in CStrings /\ (val # <<>> => val[1] = s[ValueAt(s)])
  BY <1>1, <1>4, <1>5, FromType
<1>7. PICK e \in {End(s), Cut(s, stray), Stop(s, stray)} :
          /\ p < e /\ e <= End(s) /\ key = SubSeq(s, p, e - 1)
          /\ \A k \in {End(s), Cut(s, stray), Stop(s, stray)} : k < p \/ e <= k
          /\ key[Len(key)] # Space
  BY <1>1, <1>4, FromLast
<1>8. key[1] = Equals \/ \A i \in 1 .. Len(key) : key[i] # Equals
  <2>1. CASE p = Eq(s)
    BY <1>1, <1>2, <1>6, <2>1
  <2>2. CASE p # Eq(s)
    <3>1. p < Eq(s)
      BY <1>3, <1>4, <2>2
    <3>2. Cut(s, stray) >= p + 1
      <4> DEFINE S == {j \in 0 .. Eq(s) : j = 0 \/ Chr(s, stray, j - 1) # Space}
      <4>1. Eq(s) \in Nat /\ S \in SUBSET (0 .. Eq(s))
        BY <1>3
      <4>2. p + 1 \in S
        <5>1. p + 1 \in 0 .. Eq(s) /\ (p + 1) - 1 = p /\ p # 0
          BY <1>3, <1>4, <3>1
        <5>2. s[p] # Space
          BY <1>4 DEF Blanks, Space
        <5> QED
          BY <5>1, <5>2 DEF Chr
      <4> HIDE DEF S
      <4>3. Max(S) >= p + 1 /\ Cut(s, stray) = Max(S)
        <5>1. S # {} /\ \A j \in S : j \in Int
          BY <4>1, <4>2
        <5>2. Max(S) \in S /\ \A j \in S : j <= Max(S)
          BY <4>1, <5>1, MaxOf
        <5>3. p + 1 <= Max(S) /\ Max(S) \in Int /\ p + 1 \in Int
          BY <4>2, <5>1, <5>2
        <5> QED
          BY <5>3 DEF Cut, S
      <4> QED
        BY <4>3
    <3>3. e <= Eq(s)
      <4>1. Cut(s, stray) \in 0 .. Eq(s)
        BY <1>1, Cuts
      <4>2. e <= Cut(s, stray)
        BY <1>3, <1>4, <1>7, <3>2
      <4> QED
        BY <1>3, <1>7, <4>1, <4>2
    <3>4. e \in Int
      BY <1>3, <1>7
    <3>5. p \in Int /\ e - 1 \in Int /\ \A j \in p .. e - 1 : s[j] \in Codes
      <4>1. \A j \in p .. e - 1 : j \in 1 .. Len(s)
        BY <1>3, <1>4, <3>3, <3>4
      <4> QED
        BY <1>4, <3>4, <4>1 DEF CStrings
    <3> DEFINE t == SubSeq(s, p, e - 1)
    <3>6. /\ Len(t) = IF p <= e - 1 THEN e - 1 - p + 1 ELSE 0
          /\ \A j \in 1 .. e - 1 - p + 1 : t[j] = s[p + j - 1]
      BY <3>5, SubSeqProperties
    <3> HIDE DEF t
    <3>7. ASSUME NEW i \in 1 .. Len(t)
          PROVE  t[i] # Equals
      <4>1. i \in 1 .. e - 1 - p + 1 /\ p + i - 1 \in 1 .. Len(s) /\ ~ (Eq(s) <= p + i - 1)
        BY <1>3, <1>4, <3>3, <3>4, <3>6
      <4>2. s[p + i - 1] # Equals
        BY <1>2, <1>3, <4>1
      <4> QED
        BY <3>6, <4>1, <4>2
    <3> HIDE DEF key
    <3> QED
      BY <1>7, <3>7 DEF t
  <2> QED
    BY <2>1, <2>2
<1> HIDE DEF key, val
<1>9. KeyText(key)
  <2>1. key[1] \notin Blanks /\ key[Len(key)] # Space /\ key # <<>> /\ key \in CStrings
    BY <1>1, <1>4, <1>6, <1>7
  <2> QED
    BY <1>8, <2>1 DEF KeyText
<1>10. ValueText(val)
  <2>1. CASE val = <<>>
    BY <1>6, <2>1 DEF ValueText
  <2>2. CASE val # <<>>
    <3>1. PICK f \in {End(s), Cut(s, stray), Stop(s, stray)} :
              /\ ValueAt(s) < f /\ f <= End(s)
              /\ val[Len(val)] # Space
      <4>1. \E f \in {End(s), Cut(s, stray), Stop(s, stray)} :
                /\ ValueAt(s) < f /\ f <= End(s) /\ From(s, stray, ValueAt(s)) = SubSeq(s, ValueAt(s), f - 1)
                /\ \A k \in {End(s), Cut(s, stray), Stop(s, stray)} : k < ValueAt(s) \/ f <= k
                /\ From(s, stray, ValueAt(s))[Len(From(s, stray, ValueAt(s)))] # Space
        BY <1>1, <1>5, <2>2, FromLast DEF val
      <4> QED
        BY <4>1 DEF val
    <3>2. ValueAt(s) # End(s)
      BY <1>3, <1>5, <3>1
    <3>3. s[ValueAt(s)] # Space
      <4> DEFINE S == {j \in Eq(s) + 1 .. End(s) : j = End(s) \/ s[j] # Space}
      <4>1. S \in SUBSET Nat /\ End(s) \in S
        BY <1>3
      <4> HIDE DEF S
      <4>2. Min(S) \in S
        BY <4>1, MinOf
      <4> QED
        BY <3>2, <4>2 DEF ValueAt, S
    <3> QED
      BY <1>6, <2>2, <3>1, <3>3 DEF ValueText
  <2> QED
    BY <2>1, <2>2
<1> QED
  BY <1>1, <1>9, <1>10

(* A store stays one of such texts when a section is opened, when a value  *)
(* is stored, with every line, and in every step.                          *)
LEMMA SectionLegible ==
    ASSUME NEW map, Legible(map), NEW name, NameText(name), name \notin DOMAIN map
    PROVE  Legible(With(map, name, <<>>))
<1> DEFINE map2 == With(map, name, <<>>)
<1>1. /\ DOMAIN map2 = DOMAIN map \cup {name} /\ map2[name] = <<>>
      /\ \A s \in DOMAIN map : s # name => map2[s] = map[s]
      /\ map2 = [s \in DOMAIN map2 |-> map2[s]]
  <2>1. /\ DOMAIN map2 = DOMAIN map \cup {name} /\ map2[name] = <<>>
        /\ \A s \in DOMAIN map : s # name => map2[s] = map[s]
    BY DEF With
  <2>2. map2 = [s \in DOMAIN map \cup {name} |-> IF s = name THEN <<>> ELSE map[s]]
    BY DEF With
  <2> HIDE DEF map2
  <2>3. map2 = [s \in DOMAIN map2 |-> map2[s]]
    BY <2>2
  <2> QED
    BY <2>1, <2>3
<1> HIDE DEF map2
<1>2. IsFiniteSet(DOMAIN map2)
  BY <1>1, FS_AddElement DEF Legible
<1>3. DOMAIN <<>> = {} /\ <<>> = [k \in DOMAIN <<>> |-> <<>>[k]] /\ IsFiniteSet(DOMAIN <<>>)
  <2>1. DOMAIN <<>> = {}
    OBVIOUS
  <2>2. <<>> = [k \in {} |-> <<>>[k]]
    OBVIOUS
  <2> QED
    BY <2>1, <2>2, FS_EmptySet
<1>4. ASSUME NEW s \in DOMAIN map2
      PROVE  /\ NameText(s) /\ map2[s] = [k \in DOMAIN map2[s] |-> map2[s][k]] /\ IsFiniteSet(DOMAIN map2[s])
             /\ \A k \in DOMAIN map2[s] :
                    /\ KeyText(k) /\ map2[s][k] \in Seq(Int)
                    /\ \A i \in DOMAIN Parts(map2[s][k]) : ValueText(Parts(map2[s][k])[i])
  <2>1. CASE s = name
    <3>1. map2[s] = <<>>
      BY <1>1, <2>1
    <3> QED
      BY <1>3, <2>1, <3>1
  <2>2. CASE s # name
    <3>1. s \in DOMAIN map /\ map2[s] = map[s]
      BY <1>1, <2>2
    <3> QED
      BY <3>1 DEF Legible
  <2> QED
    BY <2>1, <2>2
<1> QED
  BY <1>1, <1>2, <1>4 DEF Legible, map2

LEMMA ValueLegible ==
    ASSUME NEW map, Legible(map), NEW name \in DOMAIN map,
           NEW key, KeyText(key), NEW val, ValueText(val)
    PROVE  Legible([map EXCEPT ![name] = Insert(map[name], key, val)])
<1> DEFINE section == Insert(map[name], key, val)
           map2 == [map EXCEPT ![name] = section]
           data == IF key \in DOMAIN map[name] THEN map[name][key] \o <<0>> \o val ELSE val
<1>1. /\ DOMAIN section = DOMAIN map[name] \cup {key} /\ section[key] = data
      /\ \A k \in DOMAIN map[name] : k # key => section[k] = map[name][k]
      /\ section = [k \in DOMAIN section |-> section[k]]
  <2>1. section = With(map[name], key, data)
    BY DEF Insert
  <2> HIDE DEF section, data
  <2>2. /\ DOMAIN section = DOMAIN map[name] \cup {key} /\ section[key] = data
        /\ \A k \in DOMAIN map[name] : k # key => section[k] = map[name][k]
    BY <2>1 DEF With
  <2>3. section = [k \in DOMAIN map[name] \cup {key} |-> IF k = key THEN data ELSE map[name][k]]
    BY <2>1 DEF With
  <2>4. section = [k \in DOMAIN section |-> section[k]]
    BY <2>3
  <2> QED
    BY <2>2, <2>4
<1> HIDE DEF section, data
<1>2. /\ DOMAIN map2 = DOMAIN map /\ map2[name] = section
      /\ \A s \in DOMAIN map : s # name => map2[s] = map[s]
      /\ map2 = [s \in DOMAIN map2 |-> map2[s]]
  OBVIOUS
<1> HIDE DEF map2
<1>3. data \in Seq(Int) /\ \A i \in DOMAIN Parts(data) : ValueText(Parts(data)[i])
  <2>0. val \in CStrings /\ val \in Seq(Int)
    BY DEF ValueText, CStrings, Codes
  <2>1. CASE key \in DOMAIN map[name]
    <3> DEFINE old == map[name][key]
    <3>1. old \in Seq(Int) /\ \A i \in DOMAIN Parts(old) : ValueText(Parts(old)[i])
      BY <2>1 DEF Legible
    <3>2. data = old \o <<0>> \o val
      BY <2>1 DEF data
    <3> HIDE DEF old
    <3>3. data \in Seq(Int)
      BY <2>0, <3>1, <3>2
    <3>4. Parts(data) = Append(Parts(old), val)
      BY <2>0, <3>1, <3>2, PartsAppend
    <3>5. Cardinality(Starts(old)) \in Nat
      BY <3>1, PartsFirst
    <3> DEFINE n == Cardinality(Starts(old))
               f == Parts(old)
    <3>6. f = [i \in 1 .. n |-> f[i]] /\ DOMAIN f = 1 .. n
      BY PartsDef
    <3> HIDE DEF n, f
    <3>7. Append(f, val) = [i \in 1 .. n + 1 |-> IF i = n + 1 THEN val ELSE f[i]]
      <4>1. n \in Nat
        BY <3>5 DEF n
      <4> QED
        BY <3>6, <4>1, AppendIs
    <3>8. ASSUME NEW i \in DOMAIN Append(f, val)
          PROVE  ValueText(Append(f, val)[i])
      <4>1. i \in 1 .. n + 1
        BY <3>7
      <4>2. CASE i = n + 1
        BY <3>7, <4>1, <4>2
      <4>3. CASE i # n + 1
        <5>1. i \in 1 .. n
          BY <3>5, <4>1, <4>3 DEF n
        <5>2. Append(f, val)[i] = f[i]
          BY <3>7, <4>1, <4>3
        <5>3. ValueText(f[i])
          BY <3>1, <3>6, <5>1 DEF f
        <5> QED
          BY <5>2, <5>3
      <4> QED
        BY <4>2, <4>3
    <3> QED
      BY <3>3, <3>4, <3>8 DEF f
  <2>2. CASE key \notin DOMAIN map[name]
    <3>1. data = val
      BY <2>2 DEF data
    <3>2. Parts(val) = <<val>>
      BY <2>0, PartsOne
    <3>3. \A i \in DOMAIN <<val>> : <<val>>[i] = val
      OBVIOUS
    <3> QED
      BY <2>0, <3>1, <3>2, <3>3
  <2> QED
    BY <2>1, <2>2
<1>4. IsFiniteSet(DOMAIN map2)
  BY <1>2 DEF Legible
<1>5. ASSUME NEW s \in DOMAIN map2
      PROVE  /\ NameText(s) /\ map2[s] = [k \in DOMAIN map2[s] |-> map2[s][k]] /\ IsFiniteSet(DOMAIN map2[s])
             /\ \A k \in DOMAIN map2[s] :
                    /\ KeyText(k) /\ map2[s][k] \in Seq(Int)
                    /\ \A i \in DOMAIN Parts(map2[s][k]) : ValueText(Parts(map2[s][k])[i])
  <2>1. CASE s # name
    <3>1. s \in DOMAIN map /\ map2[s] = map[s]
      BY <1>2, <2>1
    <3> QED
      BY <3>1 DEF Legible
  <2>2. CASE s = name
    <3>1. map2[s] = section /\ NameText(s)
      BY <1>2, <2>2 DEF Legible
    <3>2. IsFiniteSet(DOMAIN section)
      <4>1. IsFiniteSet(DOMAIN map[name])
        BY DEF Legible
      <4> QED
        BY <1>1, <4>1, FS_AddElement
    <3>3. ASSUME NEW k \in DOMAIN section
          PROVE  /\ KeyText(k) /\ section[k] \in Seq(Int)
                 /\ \A i \in DOMAIN Parts(section[k]) : ValueText(Parts(section[k])[i])
      <4>1. CASE k = key
        BY <1>1, <1>3, <4>1
      <4>2. CASE k # key
        <5>1. k \in DOMAIN map[name] /\ section[k] = map[name][k]
          BY <1>1, <4>2
        <5> QED
          BY <5>1 DEF Legible
      <4> QED
        BY <4>1, <4>2
    <3> QED
      BY <1>1, <3>1, <3>2, <3>3
  <2> QED
    BY <2>1, <2>2
<1> QED
  BY <1>2, <1>4, <1>5 DEF Legible, map2, section

LEMMA LineLegible ==
    ASSUME NEW c, StoreInv(c), Legible(c.configMap), NEW line \in CStrings, NEW stray \in Int
    PROVE  Legible(LoadLine(c, line, stray).configMap)
<1> DEFINE section == IsSectionName(line)
           r == ParseValue(AfterIsSectionName(line), stray)
           c2 == LoadLine(c, line, stray)
<1>1. /\ section \in Seq(CStrings)
      /\ section # <<>> => NameText(section[1])
  <2>1. section \in Seq(CStrings)
    BY Section
  <2>2. ASSUME section # <<>>
        PROVE  NameText(section[1])
    <3>1. \/ section = <<>>
          \/ /\ section = <<SubSeq(line, 2, LastInk(line) - 1)>>
             /\ \A i \in DOMAIN SubSeq(line, 2, LastInk(line) - 1) : NameChar(SubSeq(line, 2, LastInk(line) - 1)[i])
      BY DEF IsSectionName
    <3>2. section[1] \in CStrings
      <4> HIDE DEF section
      <4> QED
        BY <2>1, <2>2
    <3>3. section[1] = SubSeq(line, 2, LastInk(line) - 1)
      <4> DEFINE t == SubSeq(line, 2, LastInk(line) - 1)
      <4>1. section = <<t>>
        BY <2>2, <3>1
      <4> HIDE DEF section, t
      <4>2. section[1] = t
        BY <4>1
      <4> QED
        BY <4>2 DEF t
    <3> HIDE DEF section
    <3> QED
      BY <2>2, <3>1, <3>2, <3>3 DEF NameText
  <2> QED
    BY <2>1, <2>2
<1>2. /\ r.ret = -1 \/ r.ret = -2 \/ r.ret = 0
      /\ r.ret = 0 => KeyText(r.key) /\ ValueText(r.val)
  <2>1. AfterIsSectionName(line) \in CStrings
    BY Section
  <2> QED
    BY <2>1, Parsed, ParsedTexts
<1>3. c = [m |-> c.m, configMap |-> c.configMap, accepted |-> c.accepted, reading |-> c.reading]
  BY DEF StoreInv
<1> HIDE DEF section, r
<1>4. CASE section # <<>>
  <2>1. c2 = [c EXCEPT !.m = section,
                       !.configMap = IF section[1] \in DOMAIN @ THEN @ ELSE With(@, section[1], <<>>)]
    BY <1>4 DEF LoadLine, section
  <2>2. c2.configMap = IF section[1] \in DOMAIN c.configMap THEN c.configMap
                       ELSE With(c.configMap, section[1], <<>>)
    BY <1>3, <2>1
  <2> HIDE DEF c2
  <2>3. CASE section[1] \in DOMAIN c.configMap
    BY <2>2, <2>3 DEF c2
  <2>4. CASE section[1] \notin DOMAIN c.configMap
    BY <1>1, <1>4, <2>2, <2>4, SectionLegible DEF c2
  <2> QED
    BY <2>3, <2>4
<1>5. CASE section = <<>> /\ r.ret = -1
  BY <1>5 DEF LoadLine, section, r
<1>6. CASE section = <<>> /\ (r.ret = -2 \/ (r.ret = 0 /\ c.m = <<>>))
  <2>1. c2 = [c EXCEPT !.reading = FALSE]
    BY <1>6 DEF LoadLine, section, r
  <2>2. c2.configMap = c.configMap
    BY <1>3, <2>1
  <2> QED
    BY <2>2
<1>7. CASE section = <<>> /\ r.ret = 0 /\ c.m # <<>>
  <2>1. c2 = [c EXCEPT !.configMap[c.m[1]] = Insert(@, r.key, r.val),
                       !.accepted = Append(@, <<c.m[1], r.key, r.val>>)]
    BY <1>7 DEF LoadLine, section, r
  <2>2. c.m[1] \in DOMAIN c.configMap
    BY <1>7 DEF StoreInv
  <2>3. c2.configMap = [c.configMap EXCEPT ![c.m[1]] = Insert(c.configMap[c.m[1]], r.key, r.val)]
    BY <1>3, <2>1
  <2> HIDE DEF c2
  <2> QED
    BY <1>2, <1>7, <2>2, <2>3, ValueLegible DEF c2
<1> QED
  BY <1>2, <1>4, <1>5, <1>6, <1>7

LEMMA LegibleKept ==
    ASSUME ConfigIInv, Legible(config.configMap), [ConfigNext]_configVars
    PROVE  Legible(config'.configMap)
<1>1. CASE LoadOpen
  <2>1. config'.configMap = config.configMap
    BY <1>1 DEF LoadOpen, ConfigIInv, StoreInv
  <2> QED
    BY <2>1
<1>2. CASE LoadNext
  <2>1. fileNo \in 1 .. Len(files) /\ lineNo + 1 \in 1 .. Len(files[fileNo]) /\ files \in Seq(Seq(CStrings))
    <3>1. /\ files \in Seq(Seq(CStrings)) /\ fileNo \in 0 .. Len(files) /\ Len(files) \in Nat
          /\ \A n \in 1 .. Len(files) : Len(files[n]) \in Nat
          /\ config.reading /\ lineNo < Len(files[fileNo])
      BY <1>2 DEF LoadNext, ConfigIInv, ConfigTypeOK
    <3>2. fileNo > 0 /\ (fileNo > 0 => lineNo \in 0 .. Len(files[fileNo]))
      BY <3>1 DEF ConfigIInv, ConfigTypeOK
    <3>3. fileNo \in 1 .. Len(files) /\ lineNo \in 0 .. Len(files[fileNo])
      BY <3>1, <3>2
    <3> QED
      BY <3>1, <3>3
  <2>2. files[fileNo][lineNo + 1] \in CStrings
    BY <2>1
  <2>3. PICK stray \in StrayBytes : config' = LoadLine(config, files[fileNo][lineNo + 1], stray)
    BY <1>2 DEF LoadNext
  <2>4. stray \in Int
    BY ConfigAssumption
  <2>5. Legible(LoadLine(config, files[fileNo][lineNo + 1], stray).configMap)
    BY <2>2, <2>4, LineLegible DEF ConfigIInv
  <2> QED
    BY <2>3, <2>5
<1>3. CASE LoadEnd
  <2>1. config'.configMap = config.configMap
    BY <1>3 DEF LoadEnd, ConfigIInv, StoreInv
  <2> QED
    BY <2>1
<1>4. CASE UNCHANGED configVars
  BY <1>4 DEF configVars
<1> QED
  BY <1>1, <1>2, <1>3, <1>4 DEF ConfigNext

-----------------------------------------------------------------------------
(* What toString writes is loaded again                                    *)

(* The map for the keys in S, and the stores that a load can have there.   *)
Only(map, S) == [x \in S |-> map[x]]
Stores(M, map) == [m : M, configMap : {map}, accepted : Seq(Accepted), reading : {TRUE}]

LEMMA WithTwice ==
    ASSUME NEW P, NEW k, NEW u, NEW w
    PROVE  With(With(P, k, u), k, w) = With(P, k, w)
BY DEF With

LEMMA WithChanged ==
    ASSUME NEW B, NEW s, NEW Q, NEW R
    PROVE  [With(B, s, Q) EXCEPT ![s] = R] = With(B, s, R)
BY DEF With

LEMMA OnlyMore ==
    ASSUME NEW map, NEW S, NEW x
    PROVE  With(Only(map, S), x, map[x]) = Only(map, S \cup {x})
BY DEF With, Only

(* One more key with its value.                                            *)
LEMMA KeyLineLoaded ==
    ASSUME NEW B, NEW s \in CStrings, NEW Q, NEW c \in Stores({<<s>>}, With(B, s, Q)),
           NEW k, PlainKey(k), NEW v, PlainValue(v), NEW stray \in Int
    PROVE  LoadLine(c, KeyLine(k, v), stray) \in Stores({<<s>>}, With(B, s, Insert(Q, k, v)))
<1> DEFINE line == KeyLine(k, v)
           r == ParseValue(AfterIsSectionName(line), stray)
           d == LoadLine(c, line, stray)
           map == With(B, s, Q)
           map2 == With(B, s, Insert(Q, k, v))
<1>1. IsSectionName(line) = <<>> /\ r.ret = 0 /\ r.key = k /\ r.val = v
  BY KeyLineRead
<1>2. /\ c = [m |-> <<s>>, configMap |-> map, accepted |-> c.accepted, reading |-> TRUE]
      /\ c.accepted \in Seq(Accepted)
  BY DEF Stores
<1>3. c.m = <<s>> /\ c.m # <<>> /\ c.m[1] = s /\ c.configMap = map
  BY <1>2
<1>4. d = [c EXCEPT !.configMap[c.m[1]] = Insert(@, r.key, r.val),
                    !.accepted = Append(@, <<c.m[1], r.key, r.val>>)]
  <2> HIDE DEF r, line
  <2> QED
    BY <1>1, <1>3 DEF LoadLine, r, line
<1> HIDE DEF r, line, d, map
<1>5. d = [m |-> <<s>>, configMap |-> [map EXCEPT ![s] = Insert(map[s], k, v)],
           accepted |-> Append(c.accepted, <<s, k, v>>), reading |-> TRUE]
  <2>1. c.m[1] = s /\ r.key = k /\ r.val = v
    BY <1>1, <1>3
  <2>2. d = [c EXCEPT !.configMap[s] = Insert(@, k, v), !.accepted = Append(@, <<s, k, v>>)]
    BY <1>4, <2>1
  <2> DEFINE acc == c.accepted
             acc2 == Append(acc, <<s, k, v>>)
             ins == Insert(map[s], k, v)
  <2>3. c = [m |-> <<s>>, configMap |-> map, accepted |-> acc, reading |-> TRUE]
    BY <1>2
  <2>4. c.configMap = map /\ c.accepted = acc
    BY <2>3
  <2>5. d = [c EXCEPT !.configMap = [map EXCEPT ![s] = ins], !.accepted = acc2]
    BY <2>2, <2>4
  <2> HIDE DEF acc2, ins, acc
  <2> DEFINE map3 == [map EXCEPT ![s] = ins]
  <2>6. d = [c EXCEPT !.configMap = map3, !.accepted = acc2]
    BY <2>5
  <2> HIDE DEF map3
  <2>7. d = [m |-> <<s>>, configMap |-> map3, accepted |-> acc2, reading |-> TRUE]
    BY <2>3, <2>6
  <2> QED
    BY <2>7 DEF map3, acc2, acc, ins
<1>6. map[s] = Q
  BY DEF map, With
<1>7. [map EXCEPT ![s] = Insert(map[s], k, v)] = map2
  BY <1>6, WithChanged DEF map
<1>8. Append(c.accepted, <<s, k, v>>) \in Seq(Accepted)
  <2>1. <<s, k, v>> \in Accepted
    BY DEF Accepted, PlainKey, PlainValue
  <2> QED
    BY <1>2, <2>1
<1> HIDE DEF map2
<1> QED
  BY <1>5, <1>7, <1>8 DEF Stores, d, line, map2

(* The texts of a store that is reloadable.                                *)
LEMMA PlainTexts ==
    ASSUME NEW map, Legible(map), Reloadable(map), NEW s \in DOMAIN map, NEW k \in DOMAIN map[s]
    PROVE  /\ PlainKey(k) /\ s \in CStrings /\ map[s][k] \in Seq(Int)
           /\ Cardinality(Starts(map[s][k])) \in Nat \ {0}
           /\ DOMAIN Parts(map[s][k]) = 1 .. Cardinality(Starts(map[s][k]))
           /\ \A i \in DOMAIN Parts(map[s][k]) : PlainValue(Parts(map[s][k])[i])
<1> DEFINE data == map[s][k]
           n == Cardinality(Starts(data))
<1>1. /\ KeyText(k) /\ data \in Seq(Int) /\ s \in CStrings
      /\ \A i \in DOMAIN Parts(data) : ValueText(Parts(data)[i])
  BY DEF Legible, NameText
<1>2. /\ k[1] # Equals /\ k[1] # Hash
      /\ \A i \in DOMAIN k : k[i] >= Space
      /\ \A i \in DOMAIN data : data[i] = 0 \/ (data[i] >= Space /\ data[i] # Hash)
  BY DEF Reloadable
<1>3. PlainKey(k)
  <2>1. DOMAIN k = 1 .. Len(k)
    BY <1>1 DEF KeyText, CStrings
  <2>2. k[1] # Space
    BY <1>1 DEF KeyText, Blanks, Space
  <2> QED
    BY <1>1, <1>2, <2>1, <2>2 DEF KeyText, PlainKey
<1> HIDE DEF data
<1>4. n \in Nat \ {0} /\ DOMAIN Parts(data) = 1 .. n
  BY <1>1, PartsFirst, PartsDef
<1> HIDE DEF n
<1>5. ASSUME NEW i \in 1 .. n
      PROVE  PlainValue(Parts(data)[i])
  <2> DEFINE v == Parts(data)[i]
  <2>1. v \in CStrings /\ \A l \in 1 .. Len(v) : \E j \in DOMAIN data : v[l] = data[j]
    BY <1>1, PartBetween DEF n
  <2>2. ValueText(v)
    BY <1>1, <1>4
  <2> HIDE DEF v
  <2>3. ASSUME NEW l \in 1 .. Len(v)
        PROVE  v[l] >= Space /\ v[l] # Hash
    <3>1. v[l] # 0
      BY <2>1 DEF CStrings, Codes
    <3> QED
      BY <1>2, <2>1, <3>1
  <2> QED
    BY <2>2, <2>3 DEF PlainValue, ValueText, v
<1> QED
  BY <1>1, <1>3, <1>4, <1>5 DEF data, n

(* The lines of a key add it with all its strings.                         *)
LEMMA KeyLinesMake ==
    ASSUME NEW map, Legible(map), Reloadable(map), NEW s \in DOMAIN map, NEW k \in DOMAIN map[s],
           NEW stray \in Int, NEW B, NEW P, k \notin DOMAIN P, NEW c \in Stores({<<s>>}, With(B, s, P))
    PROVE  /\ KeyLines(map, s, k) \in Seq(CStrings)
           /\ \E d \in Stores({<<s>>}, With(B, s, With(P, k, map[s][k]))) :
                  Makes(c, KeyLines(map, s, k), d, stray)
<1> DEFINE data == map[s][k]
           n == Cardinality(Starts(data))
           lines == KeyLines(map, s, k)
           Upto0(i) == With(P, k, UptoPart(data, i))
           G == [i \in 0 .. n |-> IF i = 0 THEN Stores({<<s>>}, With(B, s, P))
                                  ELSE Stores({<<s>>}, With(B, s, Upto0(i)))]
<1>1. /\ PlainKey(k) /\ s \in CStrings /\ data \in Seq(Int) /\ n \in Nat \ {0}
      /\ DOMAIN Parts(data) = 1 .. n /\ \A i \in 1 .. n : PlainValue(Parts(data)[i])
  <2>1. /\ PlainKey(k) /\ s \in CStrings /\ data \in Seq(Int) /\ n \in Nat \ {0}
        /\ DOMAIN Parts(data) = 1 .. n /\ \A i \in DOMAIN Parts(data) : PlainValue(Parts(data)[i])
    BY PlainTexts
  <2> HIDE DEF n, data
  <2> QED
    BY <2>1
<1>2. lines = [i \in 1 .. n |-> KeyLine(k, Parts(data)[i])]
  <2>1. lines = [i \in DOMAIN Parts(data) |-> KeyLine(k, Parts(data)[i])]
    BY DEF KeyLines, KeyLine
  <2> HIDE DEF lines, n, data
  <2> QED
    BY <1>1, <2>1
<1> HIDE DEF data, n
<1>3. \A i \in 1 .. n : KeyLine(k, Parts(data)[i]) \in CStrings
  BY <1>1, KeyLineIs DEF PlainKey, PlainValue
<1> HIDE DEF lines
<1>4. lines \in Seq(CStrings) /\ Len(lines) = n
  BY <1>1, <1>2, <1>3
<1>5. UptoPart(data, n) = data
  BY <1>1, UptoLast DEF n
<1>6. ASSUME NEW i \in 1 .. n, NEW x \in G[i - 1]
      PROVE  LoadLine(x, lines[i], stray) \in G[i]
  <2> DEFINE v == Parts(data)[i]
  <2>1. lines[i] = KeyLine(k, v) /\ PlainValue(v)
    BY <1>1, <1>2
  <2>2. i \in Nat /\ i # 0 /\ i - 1 \in 0 .. n /\ G[i] = Stores({<<s>>}, With(B, s, Upto0(i)))
    <3>1. i \in 0 .. n /\ i - 1 \in 0 .. n /\ i # 0 /\ i \in Nat
      BY <1>1
    <3> HIDE DEF Upto0
    <3> QED
      BY <3>1
  <2> HIDE DEF v
  <2>3. CASE i = 1
    <3>1. x \in Stores({<<s>>}, With(B, s, P))
      <4>1. i - 1 = 0
        BY <2>3
      <4>2. G[i - 1] = Stores({<<s>>}, With(B, s, P))
        <5> HIDE DEF Upto0
        <5> QED
          BY <2>2, <4>1
      <4> QED
        BY <4>2
    <3>2. LoadLine(x, KeyLine(k, v), stray) \in Stores({<<s>>}, With(B, s, Insert(P, k, v)))
      BY <1>1, <2>1, <3>1, KeyLineLoaded
    <3>3. Insert(P, k, v) = With(P, k, v)
      BY DEF Insert
    <3>4. UptoPart(data, i) = v
      <4>1. 1 \in 1 .. Cardinality(Starts(data))
        BY <1>1 DEF n
      <4>2. UptoPart(data, 1) = Parts(data)[1]
        BY <1>1, <4>1, PartBetween
      <4> QED
        BY <2>3, <4>2 DEF v
    <3> QED
      BY <2>1, <2>2, <3>2, <3>3, <3>4
  <2>4. CASE i # 1
    <3> DEFINE u == UptoPart(data, i - 1)
    <3>1. x \in Stores({<<s>>}, With(B, s, With(P, k, u)))
      <4>1. i - 1 # 0
        BY <2>2, <2>4
      <4>2. G[i - 1] = Stores({<<s>>}, With(B, s, Upto0(i - 1)))
        <5> HIDE DEF Upto0
        <5> QED
          BY <2>2, <4>1
      <4> QED
        BY <4>2
    <3>2. UptoPart(data, i) = u \o <<0>> \o v
      <4>1. i \in 1 .. Cardinality(Starts(data)) /\ i > 1
        BY <2>2, <2>4 DEF n
      <4> QED
        BY <1>1, <4>1, PartBetween DEF v
    <3> HIDE DEF u
    <3>3. LoadLine(x, KeyLine(k, v), stray) \in Stores({<<s>>}, With(B, s, Insert(With(P, k, u), k, v)))
      BY <1>1, <2>1, <3>1, KeyLineLoaded
    <3>4. Insert(With(P, k, u), k, v) = With(P, k, u \o <<0>> \o v)
      <4>1. k \in DOMAIN With(P, k, u) /\ With(P, k, u)[k] = u
        BY DEF With
      <4>2. Insert(With(P, k, u), k, v) = With(With(P, k, u), k, u \o <<0>> \o v)
        BY <4>1 DEF Insert
      <4> QED
        BY <4>2, WithTwice
    <3> QED
      BY <2>1, <2>2, <3>2, <3>3, <3>4
  <2> QED
    BY <2>3, <2>4
<1>7. c \in G[0] /\ G[n] = Stores({<<s>>}, With(B, s, With(P, k, data)))
  <2>1. 0 \in 0 .. n /\ n \in 0 .. n /\ n # 0
    BY <1>1
  <2>2. G[0] = Stores({<<s>>}, With(B, s, P)) /\ G[n] = Stores({<<s>>}, With(B, s, Upto0(n)))
    <3> HIDE DEF Upto0
    <3> QED
      BY <2>1
  <2> QED
    BY <1>5, <2>2
<1> HIDE DEF G
<1>8. \E d \in G[Len(lines)] : Makes(c, lines, d, stray)
  BY <1>4, <1>6, <1>7, MakesByLines
<1> QED
  BY <1>4, <1>7, <1>8 DEF lines, data

(* The line of a section that is new to the store opens it.                *)
LEMMA SectionLineLoaded ==
    ASSUME NEW s, NameText(s), NEW base, s \notin DOMAIN base, NEW M, NEW c \in Stores(M, base), NEW stray
    PROVE  LoadLine(c, SectionLine(s), stray) \in Stores({<<s>>}, With(base, s, <<>>))
<1> DEFINE line == SectionLine(s)
           d == LoadLine(c, line, stray)
           map2 == With(base, s, <<>>)
<1>1. IsSectionName(line) = <<s>> /\ <<s>> # <<>> /\ <<s>>[1] = s
  BY SectionLineRead
<1>2. c.configMap = base /\ c.accepted \in Seq(Accepted) /\ c.reading = TRUE
  BY DEF Stores
<1>3. c = [m |-> c.m, configMap |-> base, accepted |-> c.accepted, reading |-> TRUE]
  BY DEF Stores
<1> HIDE DEF line, map2
<1>4. d = [c EXCEPT !.m = <<s>>, !.configMap = IF s \in DOMAIN @ THEN @ ELSE With(@, s, <<>>)]
  BY <1>1 DEF LoadLine
<1>5. d = [c EXCEPT !.m = <<s>>, !.configMap = map2]
  BY <1>2, <1>4 DEF map2
<1> HIDE DEF d
<1>6. d = [m |-> <<s>>, configMap |-> map2, accepted |-> c.accepted, reading |-> TRUE]
  <2>1. PICK m, acc : m = c.m /\ acc = c.accepted
    OBVIOUS
  <2>2. c = [m |-> m, configMap |-> base, accepted |-> acc, reading |-> TRUE]
    BY <1>3, <2>1
  <2>3. PICK t : t = <<s>>
    OBVIOUS
  <2>4. d = [m |-> t, configMap |-> map2, accepted |-> acc, reading |-> TRUE]
    BY <1>5, <2>2, <2>3
  <2> QED
    BY <2>1, <2>3, <2>4
<1> QED
  BY <1>2, <1>6 DEF Stores, d, line, map2

(* All the keys of a section, one after the other.                         *)
LEMMA KeysMake ==
    ASSUME NEW map, Legible(map), Reloadable(map), NEW s \in DOMAIN map, NEW stray \in Int,
           NEW base, NEW c \in Stores({<<s>>}, With(base, s, <<>>))
    PROVE  LET keys == SetToSeq(GetSectionKey(map, s))
               lines == FlattenSeq([i \in DOMAIN keys |-> KeyLines(map, s, keys[i])])
           IN  /\ lines \in Seq(CStrings)
               /\ \E d \in Stores({<<s>>}, With(base, s, map[s])) : Makes(c, lines, d, stray)
<1> DEFINE S == DOMAIN map[s]
           keys == SetToSeq(S)
           n == Len(keys)
           ss == [i \in DOMAIN keys |-> KeyLines(map, s, keys[i])]
           Some(i) == {keys[j] : j \in 1 .. i}
           G == [i \in 0 .. n |-> Stores({<<s>>}, With(base, s, Only(map[s], Some(i))))]
<1>1. IsFiniteSet(S) /\ map[s] = Only(map[s], S)
  BY DEF Legible, Only
<1>2. GetSectionKey(map, s) = S
  BY DEF GetSectionKey
<1>3. /\ keys \in Seq(S) /\ S = {keys[i] : i \in 1 .. n}
      /\ \A i \in 1 .. n : \A j \in 1 .. n : keys[i] = keys[j] => i = j
  BY <1>1, SetInSeq
<1> HIDE DEF S, keys
<1>4. n \in Nat /\ DOMAIN keys = 1 .. n /\ \A i \in 1 .. n : keys[i] \in S
  BY <1>3
<1>5. \A i \in 1 .. n : KeyLines(map, s, keys[i]) \in Seq(CStrings)
  <2> TAKE i \in 1 .. n
  <2>1. keys[i] \in DOMAIN map[s] /\ keys[i] \notin DOMAIN <<>>
    BY <1>4 DEF S
  <2> QED
    BY <2>1, KeyLinesMake
<1>6. ss \in Seq(Seq(CStrings)) /\ Len(ss) = n /\ \A i \in 1 .. n : ss[i] = KeyLines(map, s, keys[i])
  BY <1>4, <1>5
<1>7. ASSUME NEW i \in 1 .. n, NEW x \in G[i - 1]
      PROVE  \E d \in G[i] : Makes(x, ss[i], d, stray)
  <2> DEFINE k == keys[i]
             T == Some(i - 1)
             P == Only(map[s], T)
  <2>1. i \in 0 .. n /\ i - 1 \in 0 .. n /\ 1 .. i = (1 .. i - 1) \cup {i} /\ i \notin 1 .. i - 1
    BY <1>4
  <2>2. G[i] = Stores({<<s>>}, With(base, s, Only(map[s], Some(i))))
        /\ G[i - 1] = Stores({<<s>>}, With(base, s, P))
    <3> HIDE DEF Some
    <3> QED
      BY <2>1
  <2>3. k \in DOMAIN map[s] /\ k \notin T /\ Some(i) = T \cup {k}
    <3>1. k \in DOMAIN map[s]
      BY <1>4 DEF S
    <3>2. \A j \in 1 .. i - 1 : j \in 1 .. n /\ j # i
      BY <1>4
    <3>3. k \notin T
      BY <1>3, <3>2
    <3>4. Some(i) = T \cup {k}
      BY <2>1
    <3> QED
      BY <3>1, <3>3, <3>4
  <2> HIDE DEF T, k
  <2>4. k \notin DOMAIN P
    BY <2>3 DEF Only
  <2>5. With(P, k, map[s][k]) = Only(map[s], Some(i))
    BY <2>3, OnlyMore
  <2> HIDE DEF P, Some, G
  <2>6. x \in Stores({<<s>>}, With(base, s, P))
    BY <2>2
  <2>7. \E d \in Stores({<<s>>}, With(base, s, With(P, k, map[s][k]))) :
            Makes(x, KeyLines(map, s, k), d, stray)
    BY <2>3, <2>4, <2>6, KeyLinesMake
  <2> QED
    BY <1>6, <2>2, <2>5, <2>7 DEF k
<1>8. G[0] = Stores({<<s>>}, With(base, s, <<>>)) /\ G[n] = Stores({<<s>>}, With(base, s, map[s]))
  <2>1. Some(0) = {} /\ Some(n) = S /\ 0 \in 0 .. n /\ n \in 0 .. n
    BY <1>3, <1>4
  <2>2. Only(map[s], {}) = <<>>
    BY DEF Only
  <2> HIDE DEF Some
  <2> QED
    BY <1>1, <2>1, <2>2
<1> HIDE DEF G, ss
<1>9. FlattenSeq(ss) \in Seq(CStrings) /\ \E d \in G[Len(ss)] : Makes(c, FlattenSeq(ss), d, stray)
  BY <1>6, <1>7, <1>8, MakesByParts
<1> QED
  BY <1>2, <1>6, <1>8, <1>9 DEF ss, keys

(* The lines of a section that is new to the store add it as it is.        *)
LEMMA SectionLinesMake ==
    ASSUME NEW map, Legible(map), Reloadable(map), NEW s \in DOMAIN map, NEW stray \in Int,
           NEW base, s \notin DOMAIN base, NEW M, NEW c \in Stores(M, base)
    PROVE  /\ SectionLines(map, s) \in Seq(CStrings)
           /\ \E d \in Stores({<<s>>}, With(base, s, map[s])) : Makes(c, SectionLines(map, s), d, stray)
<1> DEFINE line == SectionLine(s)
           keys == SetToSeq(GetSectionKey(map, s))
           lines == FlattenSeq([i \in DOMAIN keys |-> KeyLines(map, s, keys[i])])
           b == LoadLine(c, line, stray)
<1>1. NameText(s)
  BY DEF Legible
<1>2. line \in CStrings
  BY <1>1, SectionLineRead
<1>3. b \in Stores({<<s>>}, With(base, s, <<>>))
  BY <1>1, SectionLineLoaded
<1>4. SectionLines(map, s) = <<line>> \o lines
  BY DEF SectionLines, SectionLine
<1> HIDE DEF b
<1>5. PICK d \in Stores({<<s>>}, With(base, s, map[s])) : lines \in Seq(CStrings) /\ Makes(b, lines, d, stray)
  <2> HIDE DEF keys
  <2> SUFFICES /\ lines \in Seq(CStrings)
               /\ \E d \in Stores({<<s>>}, With(base, s, map[s])) : Makes(b, lines, d, stray)
    OBVIOUS
  <2> USE DEF keys
  <2> QED
    BY <1>3, KeysMake
<1> HIDE DEF lines, line
<1>6. Makes(c, <<line>>, b, stray)
  <2>1. <<>> \in Seq(CStrings) /\ Append(<<>>, line) = <<line>>
    OBVIOUS
  <2>2. Makes(c, <<>>, c, stray)
    BY MakesNone
  <2>3. Makes(c, Append(<<>>, line), b, stray)
    BY <1>2, <2>1, <2>2, MakesOn DEF b
  <2> QED
    BY <2>1, <2>3
<1>7. <<line>> \in Seq(CStrings) /\ <<line>> \o lines \in Seq(CStrings)
  BY <1>2, <1>5
<1>8. Makes(c, <<line>> \o lines, d, stray)
  BY <1>5, <1>6, <1>7, MakesFurther
<1> QED
  BY <1>4, <1>5, <1>7, <1>8

(* The lines of the whole store.                                           *)
LEMMA StoreLoaded ==
    ASSUME NEW map, Legible(map), Reloadable(map), NEW stray \in Int
    PROVE  LET d == Loaded([NoConfig EXCEPT !.reading = TRUE], ToLines(map), stray)
           IN  d.reading /\ d.configMap = map
<1> DEFINE S == DOMAIN map
           sections == SetToSeq(S)
           n == Len(sections)
           ss == [i \in DOMAIN sections |-> SectionLines(map, sections[i])]
           Some(i) == {sections[j] : j \in 1 .. i}
           All(m) == Stores(Seq(CStrings), m)
           G == [i \in 0 .. n |-> All(Only(map, Some(i)))]
           c == [NoConfig EXCEPT !.reading = TRUE]
<1>1. IsFiniteSet(S) /\ map = Only(map, S) /\ \A s \in S : s \in CStrings
  BY DEF Legible, Only, NameText
<1>2. /\ sections \in Seq(S) /\ S = {sections[i] : i \in 1 .. n}
      /\ \A i \in 1 .. n : \A j \in 1 .. n : sections[i] = sections[j] => i = j
  BY <1>1, SetInSeq
<1>3. ToLines(map) = Append(FlattenSeq(ss), <<10>>)
  BY DEF ToLines, GetSectionName
<1> HIDE DEF S, sections
<1>4. n \in Nat /\ DOMAIN sections = 1 .. n /\ \A i \in 1 .. n : sections[i] \in S
  BY <1>2
<1>5. Only(map, {}) = <<>> /\ DOMAIN Only(map, {}) = {}
  BY DEF Only
<1>6. c \in All(Only(map, {}))
  <2>1. c = [m |-> <<>>, configMap |-> <<>>, accepted |-> <<>>, reading |-> TRUE]
    <3>1. PICK e : e = <<>>
      OBVIOUS
    <3>2. NoConfig = [m |-> e, configMap |-> e, accepted |-> e, reading |-> FALSE]
      BY <3>1 DEF NoConfig
    <3>3. \A no, yes : [[m |-> e, configMap |-> e, accepted |-> e, reading |-> no] EXCEPT !.reading = yes]
                        = [m |-> e, configMap |-> e, accepted |-> e, reading |-> yes]
      OBVIOUS
    <3>4. c = [m |-> e, configMap |-> e, accepted |-> e, reading |-> TRUE]
      BY <3>2, <3>3, Zenon
    <3> QED
      BY <3>1, <3>4
  <2>2. <<>> \in Seq(CStrings) /\ <<>> \in Seq(Accepted)
    OBVIOUS
  <2> QED
    BY <1>5, <2>1, <2>2 DEF Stores
<1> HIDE DEF c
<1>7. \A i \in 1 .. n : SectionLines(map, sections[i]) \in Seq(CStrings)
  <2> TAKE i \in 1 .. n
  <2>1. sections[i] \in DOMAIN map /\ sections[i] \notin DOMAIN Only(map, {})
    BY <1>4, <1>5 DEF S
  <2> QED
    BY <1>6, <2>1, SectionLinesMake
<1>8. ss \in Seq(Seq(CStrings)) /\ Len(ss) = n /\ \A i \in 1 .. n : ss[i] = SectionLines(map, sections[i])
  BY <1>4, <1>7
<1>9. ASSUME NEW i \in 1 .. n, NEW x \in G[i - 1]
      PROVE  \E d \in G[i] : Makes(x, ss[i], d, stray)
  <2> DEFINE s == sections[i]
             T == Some(i - 1)
             P == Only(map, T)
  <2>1. i \in 0 .. n /\ i - 1 \in 0 .. n /\ 1 .. i = (1 .. i - 1) \cup {i} /\ i \notin 1 .. i - 1
    BY <1>4
  <2>2. G[i] = All(Only(map, Some(i))) /\ G[i - 1] = All(P)
    <3> HIDE DEF Some, All
    <3> QED
      BY <2>1
  <2>3. s \in DOMAIN map /\ s \in CStrings /\ s \notin T /\ Some(i) = T \cup {s}
    <3>1. s \in DOMAIN map /\ s \in CStrings
      BY <1>1, <1>4 DEF S
    <3>2. \A j \in 1 .. i - 1 : j \in 1 .. n /\ j # i
      BY <1>4
    <3>3. s \notin T
      BY <1>2, <3>2
    <3>4. Some(i) = T \cup {s}
      BY <2>1
    <3> QED
      BY <3>1, <3>3, <3>4
  <2> HIDE DEF T, s
  <2>4. s \notin DOMAIN P
    BY <2>3 DEF Only
  <2>5. With(P, s, map[s]) = Only(map, Some(i))
    BY <2>3, OnlyMore
  <2> HIDE DEF P, Some, G
  <2>6. x \in Stores(Seq(CStrings), P)
    BY <2>2
  <2>7. \E d \in Stores({<<s>>}, With(P, s, map[s])) : Makes(x, SectionLines(map, s), d, stray)
    BY <2>3, <2>4, <2>6, SectionLinesMake
  <2>8. Stores({<<s>>}, With(P, s, map[s])) \subseteq All(With(P, s, map[s]))
    <3>1. PICK Q : Q = With(P, s, map[s])
      OBVIOUS
    <3>2. {<<s>>} \subseteq Seq(CStrings)
      BY <2>3
    <3>3. PICK M : M = {<<s>>}
      OBVIOUS
    <3>4. Stores(M, Q) \subseteq Stores(Seq(CStrings), Q)
      BY <3>2, <3>3 DEF Stores
    <3> QED
      BY <3>1, <3>3, <3>4
  <2> HIDE DEF All
  <2> QED
    BY <1>8, <2>2, <2>5, <2>7, <2>8 DEF s
<1>10. c \in G[0] /\ G[n] = All(map)
  <2>1. Some(0) = {} /\ Some(n) = S /\ 0 \in 0 .. n /\ n \in 0 .. n
    BY <1>2, <1>4
  <2> HIDE DEF Some, All
  <2> QED
    BY <1>1, <1>6, <2>1
<1> HIDE DEF G, ss
<1>11. FlattenSeq(ss) \in Seq(CStrings) /\ \E d \in G[Len(ss)] : Makes(c, FlattenSeq(ss), d, stray)
  BY <1>8, <1>9, <1>10, MakesByParts
<1>12. PICK d \in All(map) : Makes(c, FlattenSeq(ss), d, stray)
  BY <1>8, <1>10, <1>11
<1>13. <<10>> \in CStrings
  BY DEF CStrings, Codes
<1>14. Makes(c, Append(FlattenSeq(ss), <<10>>), d, stray)
  <2>1. LoadLine(d, <<10>>, stray) = d
    BY LastLineRead
  <2>2. PICK lines, line : lines = FlattenSeq(ss) /\ line = <<10>>
    OBVIOUS
  <2>3. lines \in Seq(CStrings) /\ line \in CStrings /\ Makes(c, lines, d, stray)
    BY <1>11, <1>12, <1>13, <2>2
  <2>4. Makes(c, Append(lines, line), LoadLine(d, line, stray), stray)
    BY <2>3, MakesOn
  <2> QED
    BY <2>1, <2>2, <2>4
<1>15. Append(FlattenSeq(ss), <<10>>) \in Seq(CStrings)
  BY <1>11, <1>13
<1>16. Loaded(c, ToLines(map), stray) = d
  BY <1>3, <1>14, <1>15, MakesIsLoaded
<1>17. d.reading /\ d.configMap = map
  BY DEF Stores
<1> QED
  BY <1>16, <1>17 DEF c

(* Whatever files were loaded, the lines that toString makes of the store  *)
(* give the same store again, unless it holds what Reloadable excludes.    *)
THEOREM StoreIsReloaded ==
    ASSUME NEW lists \in SUBSET Seq(Seq(CStrings))
    PROVE  ConfigSpec(lists) => []RoundTrip
<1> DEFINE Inv == ConfigIInv /\ Legible(config.configMap)
<1>1. ConfigInit(lists) => Inv
  <2>1. ConfigInit(lists) => ConfigIInv
    BY ConfigStart
  <2>2. Legible(<<>>)
    <3>1. DOMAIN <<>> = {} /\ IsFiniteSet({})
      BY FS_EmptySet
    <3> QED
      BY <3>1 DEF Legible
  <2> QED
    BY <2>1, <2>2 DEF ConfigInit, NoConfig
<1>2. Inv /\ [ConfigNext]_configVars => Inv'
  BY ConfigStep, LegibleKept
<1>3. Inv => RoundTrip
  <2> SUFFICES ASSUME Inv, Reloadable(config.configMap), NEW stray \in StrayBytes
               PROVE  LET d == Loaded([NoConfig EXCEPT !.reading = TRUE], ToLines(config.configMap), stray)
                      IN  d.reading /\ d.configMap = config.configMap
    BY DEF RoundTrip
  <2>1. stray \in Int
    BY ConfigAssumption
  <2> QED
    BY <2>1, StoreLoaded
<1> QED
  BY <1>1, <1>2, <1>3, PTL DEF ConfigSpec
=============================================================================
