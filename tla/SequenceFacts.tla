--------------------------- MODULE SequenceFacts ---------------------------
(***************************************************************************)
(* What the operators of Slices return, for every sequence and every       *)
(* finite set.  TaskLookup builds Mesos' lists and the search through them *)
(* from these.                                                             *)
(*                                                                         *)
(* There is no induction rule to cite: that a fact holds for each index    *)
(* is shown by taking the smallest index at which it would fail.           *)
(***************************************************************************)
EXTENDS Slices, SequenceTheorems, FiniteSetTheorems, WellFoundedInduction, TLAPS

LEMMA Smallest ==
  ASSUME NEW T, T \subseteq Nat, T # {}
  PROVE  \E x \in T : \A y \in T : x <= y
<1>1. \E x \in T : \A y \in T : ~(<<y, x>> \in OpToRel(<, Nat))
  BY NatLessThanWellFounded, WFMin, Zenon
<1>2. \A x, y \in Nat : y < x => <<y, x>> \in OpToRel(<, Nat)
  BY DEF OpToRel
<1>3. \E x \in T : \A y \in T : ~(y < x)
  BY <1>1, <1>2, Zenon
<1> QED
  BY <1>3

\* The function that Appended defines by recursion, up to k.
Appends(f, ss, k) == f = [i \in 0 .. k |-> IF i = 0 THEN <<>> ELSE f[i - 1] \o ss[i]]

LEMMA AppendsNext ==
  ASSUME NEW ss, NEW k \in Nat, NEW f, Appends(f, ss, k)
  PROVE  \E g : Appends(g, ss, k + 1)
<1> DEFINE g == [i \in 0 .. k + 1 |-> IF i = k + 1 THEN f[k] \o ss[k + 1] ELSE f[i]]
           e(i) == IF i = 0 THEN <<>> ELSE g[i - 1] \o ss[i]
<1>1. ASSUME NEW i \in 0 .. k PROVE f[i] = IF i = 0 THEN <<>> ELSE f[i - 1] \o ss[i]
  BY Zenon DEF Appends
<1>2. ASSUME NEW i \in 0 .. k PROVE g[i] = f[i]
  <2>1. i \in 0 .. k + 1 /\ i # k + 1
    OBVIOUS
  <2> QED
    BY <2>1, Zenon
<1>3. g[k + 1] = f[k] \o ss[k + 1]
  <2>1. k + 1 \in 0 .. k + 1
    OBVIOUS
  <2> QED
    BY <2>1, Zenon
<1>4. ASSUME NEW i \in 0 .. k + 1 PROVE g[i] = e(i)
  <2> HIDE DEF g
  <2>1. CASE i = k + 1
    <3>1. i # 0 /\ i - 1 = k /\ k \in 0 .. k
      BY <2>1
    <3> QED
      BY <1>2, <1>3, <2>1, <3>1, Zenon
  <2>2. CASE i \in 0 .. k /\ i = 0
    BY <1>1, <1>2, <2>2, Zenon
  <2>3. CASE i \in 0 .. k /\ i # 0
    <3>1. i - 1 \in 0 .. k
      BY <2>3
    <3> QED
      BY <1>1, <1>2, <2>3, <3>1, Zenon
  <2>4. i = k + 1 \/ i \in 0 .. k
    OBVIOUS
  <2> QED
    BY <2>1, <2>2, <2>3, <2>4, Zenon
<1>5. g = [i \in 0 .. k + 1 |-> g[i]]
  BY Zenon
<1>6. g = [i \in 0 .. k + 1 |-> e(i)]
  <2> HIDE DEF g, e
  <2> QED
    BY <1>4, <1>5, Zenon
<1>7. Appends(g, ss, k + 1)
  BY <1>6, Zenon DEF Appends
<1> QED
  BY <1>7, Zenon

LEMMA AppendsExists ==
  ASSUME NEW ss, NEW n \in Nat
  PROVE  \E f : Appends(f, ss, n)
<1> DEFINE T == {k \in Nat : ~\E f : Appends(f, ss, k)}
<1> SUFFICES ASSUME T # {} PROVE FALSE
  BY Zenon
<1>1. PICK k \in T : \A y \in T : k <= y
  BY Smallest, Zenon
<1>2. k \in Nat /\ ~\E f : Appends(f, ss, k)
  BY Zenon
<1>3. k # 0
  <2> DEFINE f == [i \in 0 .. 0 |-> <<>>]
  <2>1. \A i \in 0 .. 0 : i = 0
    OBVIOUS
  <2>2. Appends(f, ss, 0)
    BY <2>1, Zenon DEF Appends
  <2> QED
    BY <1>2, <2>2, Zenon
<1>4. k - 1 \in Nat /\ ~(k <= k - 1) /\ (k - 1) + 1 = k
  BY <1>2, <1>3
<1>5. \E f : Appends(f, ss, k - 1)
  BY <1>1, <1>4, Zenon
<1>6. \E g : Appends(g, ss, (k - 1) + 1)
  BY <1>4, <1>5, AppendsNext, Zenon
<1> QED
  BY <1>2, <1>4, <1>6, Zenon

\* Appended is the last value of that function.
LEMMA AppendedSteps ==
  ASSUME NEW ss, Len(ss) \in Nat
  PROVE  \E f : /\ Appended(ss) = f[Len(ss)]
                /\ f[0] = <<>>
                /\ \A i \in 1 .. Len(ss) : f[i] = f[i - 1] \o ss[i]
<1> DEFINE n == Len(ss)
           f[i \in 0 .. n] == IF i = 0 THEN <<>> ELSE f[i - 1] \o ss[i]
<1>1. Appended(ss) = f[n]
  BY Zenon DEF Appended
<1>2. Appends(f, ss, n)
  <2>1. f = CHOOSE g : Appends(g, ss, n)
    BY Zenon DEF Appends
  <2> HIDE DEF f
  <2> QED
    BY <2>1, AppendsExists, Zenon
<1> HIDE DEF f
<1>3. \A i \in 0 .. n : f[i] = IF i = 0 THEN <<>> ELSE f[i - 1] \o ss[i]
  BY <1>2, Zenon DEF Appends
<1>4. 0 \in 0 .. n /\ \A i \in 1 .. n : i \in 0 .. n /\ i # 0
  OBVIOUS
<1>5. f[0] = <<>> /\ \A i \in 1 .. n : f[i] = f[i - 1] \o ss[i]
  BY <1>3, <1>4, Zenon
<1> QED
  BY <1>1, <1>5, Zenon

\* What is known of the concatenation x of the first k sequences of ss.
IsFlat(x, ss, k, S) ==
  /\ x \in Seq(S)
  /\ x = <<>> => \A i \in 1 .. k : ss[i] = <<>>
  /\ Len(x) = 1 => \E i \in 1 .. k : ss[i] = x /\ \A j \in 1 .. k \ {i} : ss[j] = <<>>
  /\ IF k = 0 THEN x = <<>> ELSE StartsWith(x, ss[1])

LEMMA IsFlatFirst ==
  ASSUME NEW S, NEW ss
  PROVE  IsFlat(<<>>, ss, 0, S)
<1>1. 1 .. 0 = {} /\ Len(<<>>) # 1 /\ <<>> \in Seq(S)
  OBVIOUS
<1> QED
  BY <1>1, Zenon DEF IsFlat

LEMMA IsFlatNext ==
  ASSUME NEW S, NEW ss, NEW k \in Nat, ss[1] \in Seq(S), ss[k + 1] \in Seq(S), NEW x,
         IsFlat(x, ss, k, S)
  PROVE  IsFlat(x \o ss[k + 1], ss, k + 1, S)
<1> DEFINE z == ss[k + 1]
           y == x \o z
<1>1. x \in Seq(S) /\ z \in Seq(S)
  BY DEF IsFlat
<1>2. /\ y \in Seq(S) /\ Len(y) = Len(x) + Len(z)
      /\ \A i \in 1 .. Len(x) + Len(z) : y[i] = IF i <= Len(x) THEN x[i] ELSE z[i - Len(x)]
  BY <1>1, ConcatProperties, Zenon
<1>3. Len(x) \in Nat /\ Len(z) \in Nat /\ (Len(x) = 0 => x = <<>>) /\ (Len(z) = 0 => z = <<>>)
  BY <1>1
<1>4. /\ x = <<>> => y = z
      /\ z = <<>> => y = x
  BY <1>1, ConcatEmptySeq, Zenon
<1>5. 1 .. k + 1 = (1 .. k) \cup {k + 1} /\ k + 1 \notin 1 .. k /\ k + 1 # 0
  OBVIOUS
<1> DEFINE lx == Len(x)
           ly == Len(y)
           lz == Len(z)
<1>10. lx \in Nat /\ lz \in Nat /\ ly = lx + lz
  BY <1>2, <1>3, Zenon
<1> HIDE DEF y, lx, ly, lz
<1>6. ASSUME y = <<>> PROVE \A i \in 1 .. k + 1 : ss[i] = <<>>
  <2>1. Len(y) = 0
    BY <1>6
  <2>4. ly = 0 => lx = 0 /\ lz = 0
    BY <1>10
  <2>2. Len(x) = 0 /\ Len(z) = 0
    BY <2>1, <2>4 DEF lx, ly, lz
  <2>3. x = <<>> /\ z = <<>>
    BY <1>3, <2>2
  <2> QED
    BY <1>5, <2>3, Zenon DEF IsFlat
<1>7. ASSUME Len(y) = 1
      PROVE  \E i \in 1 .. k + 1 : ss[i] = y /\ \A j \in 1 .. k + 1 \ {i} : ss[j] = <<>>
  <2>1. \/ Len(x) = 1 /\ Len(z) = 0
        \/ Len(x) = 0 /\ Len(z) = 1
    <3>1. ly = 1 => (lx = 1 /\ lz = 0) \/ (lx = 0 /\ lz = 1)
      BY <1>10
    <3> QED
      BY <1>7, <3>1, Zenon DEF lx, ly, lz
  <2>2. CASE Len(x) = 1 /\ Len(z) = 0
    <3>1. y = x /\ z = <<>>
      BY <1>3, <1>4, <2>2, Zenon
    <3>2. PICK i \in 1 .. k : ss[i] = x /\ \A j \in 1 .. k \ {i} : ss[j] = <<>>
      BY <2>2, Zenon DEF IsFlat
    <3>3. i \in 1 .. k + 1 /\ \A j \in 1 .. k + 1 \ {i} : ss[j] = <<>>
      BY <1>5, <3>1, <3>2, Zenon
    <3> QED
      BY <3>1, <3>2, <3>3, Zenon
  <2>3. CASE Len(x) = 0 /\ Len(z) = 1
    <3>1. y = z /\ x = <<>>
      BY <1>3, <1>4, <2>3, Zenon
    <3>2. \A j \in 1 .. k + 1 \ {k + 1} : ss[j] = <<>>
      BY <1>5, <3>1, Zenon DEF IsFlat
    <3> QED
      BY <1>5, <3>1, <3>2, Zenon
  <2> QED
    BY <2>1, <2>2, <2>3
<1>8. StartsWith(y, ss[1])
  <2>1. CASE k = 0
    <3>1. x = <<>> /\ z = ss[1]
      <4>1. k + 1 = 1
        BY <2>1
      <4> QED
        BY <2>1, <4>1, Zenon DEF IsFlat
    <3>2. y = ss[1] /\ Len(ss[1]) <= Len(ss[1])
      BY <1>4, <3>1
    <3> QED
      BY <3>2, Zenon DEF StartsWith
  <2>2. CASE k # 0
    <3> DEFINE l1 == Len(ss[1])
    <3>1. StartsWith(x, ss[1])
      BY <2>2, Zenon DEF IsFlat
    <3>2. l1 \in Nat /\ l1 <= lx
      BY <3>1 DEF StartsWith, lx
    <3> HIDE DEF l1
    <3>3. l1 <= ly /\ \A i \in 1 .. l1 : i \in 1 .. lx + lz /\ i <= lx
      BY <1>10, <3>2
    <3>4. \A i \in 1 .. l1 : y[i] = x[i]
      BY <1>2, <3>3, Zenon DEF lx, lz
    <3>5. \A i \in 1 .. l1 : x[i] = ss[1][i]
      BY <3>1, Zenon DEF StartsWith, l1
    <3> QED
      BY <3>3, <3>4, <3>5, Zenon DEF StartsWith, l1, ly
  <2> QED
    BY <2>1, <2>2, Zenon
<1>9. IsFlat(y, ss, k + 1, S)
  BY <1>2, <1>5, <1>6, <1>7, <1>8, Zenon DEF IsFlat
<1> QED
  BY <1>9 DEF y

\* What Appended returns.
LEMMA AppendedIsFlat ==
  ASSUME NEW S, NEW ss \in Seq(Seq(S))
  PROVE  IsFlat(Appended(ss), ss, Len(ss), S)
<1> DEFINE n == Len(ss)
<1>1. n \in Nat /\ \A i \in 1 .. n : ss[i] \in Seq(S)
  OBVIOUS
<1>2. PICK f : /\ Appended(ss) = f[n]
               /\ f[0] = <<>>
               /\ \A i \in 1 .. n : f[i] = f[i - 1] \o ss[i]
  BY <1>1, AppendedSteps, Zenon
<1> DEFINE T == {k \in 0 .. n : ~IsFlat(f[k], ss, k, S)}
<1> HIDE DEF n
<1>3. T = {}
  <2> SUFFICES ASSUME T # {} PROVE FALSE
    BY Zenon
  <2>1. T \subseteq Nat
    <3>1. \A k \in 0 .. n : k \in Nat
      BY <1>1
    <3> QED
      BY <3>1, Zenon
  <2>2. PICK k \in T : \A y \in T : k <= y
    BY <2>1, Smallest, Zenon
  <2>3. k \in 0 .. n /\ ~IsFlat(f[k], ss, k, S)
    BY Zenon
  <2>4. k # 0
    BY <1>2, <2>3, IsFlatFirst, Zenon
  <2>5. /\ k - 1 \in 0 .. n /\ k \in 1 .. n /\ 1 \in 1 .. n
        /\ ~(k <= k - 1) /\ (k - 1) + 1 = k /\ k - 1 \in Nat
    BY <1>1, <2>3, <2>4
  <2>6. IsFlat(f[k - 1], ss, k - 1, S)
    BY <2>2, <2>5, Zenon
  <2>7. IsFlat(f[k - 1] \o ss[(k - 1) + 1], ss, (k - 1) + 1, S)
    <3>1. ss[1] \in Seq(S) /\ ss[(k - 1) + 1] \in Seq(S)
      BY <1>1, <2>5, Zenon
    <3> QED
      BY <2>5, <2>6, <3>1, IsFlatNext, Zenon
  <2>8. IsFlat(f[k - 1] \o ss[k], ss, k, S)
    BY <2>5, <2>7, Zenon
  <2> QED
    BY <1>2, <2>3, <2>5, <2>8, Zenon
<1>4. n \in 0 .. n
  BY <1>1
<1> QED
  BY <1>2, <1>3, <1>4, Zenon DEF n

LEMMA AppendedEmpty == Appended(<<>>) = <<>>
<1>1. <<>> \in Seq(Seq({})) /\ Len(<<>>) = 0
  OBVIOUS
<1> QED
  BY <1>1, AppendedIsFlat, Zenon DEF IsFlat

\* Listed has each element once.
LEMMA ListedOnce ==
  ASSUME NEW S, IsFiniteSet(S)
  PROVE  /\ Listed(S) \in Seq(S)
         /\ \A x \in S : \E i \in 1 .. Len(Listed(S)) : Listed(S)[i] = x
         /\ \A i, j \in 1 .. Len(Listed(S)) : Listed(S)[i] = Listed(S)[j] => i = j
<1> DEFINE n == Cardinality(S)
           f == Listed(S)
<1>1. n \in Nat /\ ExistsBijection(1 .. n, S)
  BY FS_CardinalityType, Zenon
<1>2. \E g \in [1 .. n -> S] : IsInjective(g)
  BY <1>1, Zenon DEF ExistsBijection, Bijection, Injection
<1>3. f \in [1 .. n -> S] /\ IsInjective(f)
  BY <1>2, Zenon DEF Listed
<1> HIDE DEF n, f
<1>4. f \in Seq(S) /\ Len(f) = n /\ DOMAIN f = 1 .. n
  BY <1>1, <1>3
<1>5. IsFiniteSet(1 .. n) /\ Cardinality(1 .. n) = n
  <2>1. 1 \in Int /\ n \in Int /\ (IF 1 > n THEN 0 ELSE n - 1 + 1) = n
    BY <1>1
  <2> QED
    BY <2>1, FS_Interval, Zenon
<1>6. f \in Injection(1 .. n, S)
  BY <1>3, Zenon DEF Injection
<1>7. f \in Surjection(1 .. n, S)
  BY <1>5, <1>6, FS_Injection, Zenon DEF n
<1>8. \A x \in S : \E i \in 1 .. n : f[i] = x
  BY <1>7, Zenon DEF Surjection
<1>9. \A i, j \in 1 .. n : f[i] = f[j] => i = j
  BY <1>3, <1>4, Zenon DEF IsInjective
<1> QED
  BY <1>4, <1>8, <1>9, Zenon DEF f

LEMMA LargerSeq ==
  ASSUME NEW S, NEW T, S \subseteq T, NEW x \in Seq(S)
  PROVE  x \in Seq(T)
<1>1. Len(x) \in Nat /\ DOMAIN x = 1 .. Len(x) /\ \A i \in 1 .. Len(x) : x[i] \in S
  OBVIOUS
<1>2. x = [i \in 1 .. Len(x) |-> x[i]]
  BY <1>1
<1>3. \A i \in 1 .. Len(x) : x[i] \in T
  BY <1>1, Zenon
<1>4. x \in [1 .. Len(x) -> T]
  BY <1>2, <1>3, Zenon
<1> QED
  BY <1>1, <1>4

LEMMA Single ==
  ASSUME NEW S, NEW e \in S
  PROVE  <<e>> \in Seq(S) /\ <<e>>[1] = e
OBVIOUS

\* What Appended begins with when the sequences are c or d, and d is ruled out.
LEMMA AppendedPrefix ==
  ASSUME NEW S, NEW c \in Seq(S), NEW d \in Seq(S), NEW ss \in Seq({c, d}), ss # <<>>,
         \A i \in DOMAIN ss : ss[i][1] # d[1]
  PROVE  StartsWith(Appended(ss), c)
<1>1. {c, d} \subseteq Seq(S)
  BY Zenon
<1>2. ss \in Seq(Seq(S))
  BY <1>1, LargerSeq, Zenon
<1>3. 1 \in DOMAIN ss /\ ss[1] \in {c, d} /\ Len(ss) # 0
  OBVIOUS
<1>4. ss[1] = c
  BY <1>3, Zenon
<1> QED
  BY <1>2, <1>3, <1>4, AppendedIsFlat, Zenon DEF IsFlat
=============================================================================
