------------------------------ MODULE DataLemmas ------------------------------
(***************************************************************************)
(* Facts about numbers, loops and finite sets of numbers that the proofs   *)
(* about Retrieval and MineruLibrary rest on.                              *)
(*                                                                         *)
(* The induction theorems of the library take the predicate as an operator *)
(* and no installed prover can give them one.  Here each induction takes a *)
(* set instead, and is proved from the fact that < has no infinite descent *)
(* on the naturals: a set of counterexamples would have a least one.       *)
(***************************************************************************)
EXTENDS FiniteSetTheorems, SequencesExt, FiniteSetsExt, TLAPS

(* A set of naturals that is not empty has a least element.                *)
LEMMA LeastNatural ==
  ASSUME NEW T, T \subseteq Nat, T # {}
  PROVE  \E n \in T : \A m \in T : n <= m
<1> DEFINE R == OpToRel(<, Nat)
<1>1. IsWellFoundedOn(R, Nat)
  BY NatLessThanWellFounded
<1> HIDE DEF R
<1>2. PICK n \in T : \A m \in T : ~(<<m, n>> \in R)
  BY <1>1, WFMin
<1>3. \A m \in T : m < n => <<m, n>> \in R
  BY DEF R, OpToRel
<1>4. n \in Nat /\ \A m \in T : m \in Nat /\ ~(m < n)
  BY <1>2, <1>3
<1> QED BY <1>4

(* Min is that element.                                                    *)
LEMMA MinIsLeast ==
  ASSUME NEW T, T \subseteq Nat, T # {}
  PROVE  Min(T) \in T /\ \A m \in T : Min(T) <= m
BY LeastNatural DEF Min

(* A set of naturals with a bound has a greatest element, which Max gives. *)
LEMMA MaxIsGreatest ==
  ASSUME NEW T, T \subseteq Nat, T # {}, NEW b \in Nat, \A n \in T : n <= b
  PROVE  Max(T) \in T /\ \A m \in T : m <= Max(T)
<1> DEFINE gaps == {b - n : n \in T}
<1>1. gaps \subseteq Nat /\ gaps # {}
  <2>1. \A n \in T : n \in Nat /\ n <= b /\ b - n \in Nat
    OBVIOUS
  <2>2. PICK n \in T : TRUE
    OBVIOUS
  <2>3. b - n \in gaps
    OBVIOUS
  <2> QED BY <2>1, <2>3
<1>2. PICK g \in gaps : \A h \in gaps : g <= h
  BY <1>1, LeastNatural
<1>3. PICK n \in T : g = b - n
  BY <1>2
<1>4. \A m \in T : m <= n
  <2> TAKE m \in T
  <2>1. g <= b - m
    BY <1>2
  <2> QED BY <2>1, <1>3
<1> QED BY <1>4 DEF Max

(* What holds before a loop and is kept by each of its steps holds after   *)
(* any number of them.                                                     *)
LEMMA LoopInduction ==
  ASSUME NEW N \in Nat, NEW P,
         0 \in P, \A n \in 1..N : n - 1 \in P => n \in P
  PROVE  \A n \in 0..N : n \in P
<1> DEFINE bad == {n \in 0..N : n \notin P}
<1> SUFFICES ASSUME bad # {} PROVE FALSE
  OBVIOUS
<1>1. PICK n \in bad : \A m \in bad : n <= m
  <2> HIDE DEF bad
  <2>1. bad \subseteq Nat
    BY DEF bad
  <2> QED BY <2>1, LeastNatural
<1>2. CASE n = 0
  BY <1>1, <1>2
<1>3. CASE n # 0
  <2>1. n \in 1..N /\ n - 1 \in 0..N /\ ~(n <= n - 1)
    BY <1>1, <1>3
  <2>2. n - 1 \in P
    BY <1>1, <2>1
  <2> QED BY <1>1, <2>1, <2>2
<1> QED BY <1>2, <1>3

(* f holds the values of a loop of N steps, from the first on.             *)
IsLoop(f, N, V, first, step) ==
  /\ f \in [0..N -> V]
  /\ f[0] = first
  /\ \A n \in 1..N : f[n] = step[n][f[n - 1]]

(* A loop has the values that its steps give, one after the other: the     *)
(* recursive function that a definition writes down exists.                *)
LEMMA LoopValues ==
  ASSUME NEW N \in Nat, NEW V, NEW first \in V, NEW step \in [1..N -> [V -> V]]
  PROVE  \E f : IsLoop(f, N, V, first, step)
<1> DEFINE P == {k \in 0..N : \E f : IsLoop(f, k, V, first, step)}
<1>1. 0 \in P
  <2>1. IsLoop([n \in 0..0 |-> first], 0, V, first, step)
    BY DEF IsLoop
  <2> QED BY <2>1
<1>2. ASSUME NEW k \in 1..N, k - 1 \in P
      PROVE  k \in P
  <2>1. PICK f : IsLoop(f, k - 1, V, first, step)
    BY <1>2
  <2> DEFINE g == [n \in 0..k |-> IF n = k THEN step[k][f[k - 1]] ELSE f[n]]
  <2>2. f \in [0..(k - 1) -> V] /\ f[0] = first
        /\ \A n \in 1..(k - 1) : f[n] = step[n][f[n - 1]]
    BY <2>1 DEF IsLoop
  <2>3. f[k - 1] \in V /\ step[k][f[k - 1]] \in V
    BY <2>2
  <2>4. g \in [0..k -> V]
    BY <2>2, <2>3
  <2>5. g[0] = first
    BY <2>2
  <2>6. ASSUME NEW n \in 1..k PROVE g[n] = step[n][g[n - 1]]
    <3>1. n - 1 \in 0..k /\ n - 1 # k /\ g[n - 1] = f[n - 1]
      OBVIOUS
    <3>2. CASE n = k
      BY <3>1, <3>2
    <3>3. CASE n # k
      BY <3>1, <3>3, <2>2
    <3> QED BY <3>2, <3>3
  <2> HIDE DEF g
  <2>7. IsLoop(g, k, V, first, step)
    BY <2>4, <2>5, <2>6 DEF IsLoop
  <2> QED BY <2>7
<1> HIDE DEF P
<1>3. \A n \in 0..N : n \in P
  BY <1>1, <1>2, LoopInduction
<1>4. N \in P
  BY <1>3
<1> QED BY <1>4 DEF P

(* Of two elements of a finite set of naturals, the larger has more        *)
(* elements before it.                                                     *)
LEMMA RankGrows ==
  ASSUME NEW S, S \subseteq Nat, IsFiniteSet(S), NEW i \in S, NEW j \in S, i < j
  PROVE  /\ Cardinality({k \in S : k < i}) \in Nat
         /\ Cardinality({k \in S : k < j}) \in Nat
         /\ Cardinality({k \in S : k < i}) < Cardinality({k \in S : k < j})
<1> DEFINE I == {k \in S : k < i}
           J == {k \in S : k < j}
<1>1. I \subseteq J /\ i \in J /\ i \notin I /\ J \subseteq S
  <2>1. \A k \in S : k \in Nat /\ (k < i => k < j) /\ ~(i < i)
    OBVIOUS
  <2> QED BY <2>1
<1> HIDE DEF I, J
<1>2. IsFiniteSet(J)
  BY <1>1, FS_Subset
<1>3. I \in SUBSET J /\ I # J
  BY <1>1
<1>4. /\ IsFiniteSet(I) /\ Cardinality(I) <= Cardinality(J)
      /\ Cardinality(J) = Cardinality(I) => J = I
  BY <1>2, <1>3, FS_Subset
<1>5. Cardinality(I) \in Nat /\ Cardinality(J) \in Nat
  BY <1>2, <1>4, FS_CardinalityType
<1>6. Cardinality(I) < Cardinality(J)
  BY <1>3, <1>4, <1>5
<1> QED BY <1>5, <1>6 DEF I, J

(* Every rank from 0 to the size less one belongs to one element.          *)
LEMMA RanksTaken ==
  ASSUME NEW S, S \subseteq Nat, IsFiniteSet(S), NEW n \in 1..Cardinality(S)
  PROVE  \E i \in S : Cardinality({k \in S : k < i}) = n - 1
<1> DEFINE rank == [i \in S |-> Cardinality({k \in S : k < i})]
           T == 0..(Cardinality(S) - 1)
<1>1. Cardinality(S) \in Nat
  BY FS_CardinalityType
<1>2. ASSUME NEW i \in S PROVE rank[i] \in T
  <2> DEFINE I == {k \in S : k < i}
  <2>1. I \in SUBSET S /\ i \notin I
    OBVIOUS
  <2> HIDE DEF I
  <2>2. IsFiniteSet(I) /\ Cardinality(I) <= Cardinality(S)
        /\ (Cardinality(S) = Cardinality(I) => S = I)
    BY <2>1, FS_Subset
  <2>3. Cardinality(I) \in Nat
    BY <2>2, FS_CardinalityType
  <2>4. Cardinality(I) \in T
    BY <1>1, <2>1, <2>2, <2>3
  <2> QED BY <2>4 DEF I
<1>3. ASSUME NEW i \in S, NEW j \in S, rank[i] = rank[j] PROVE i = j
  <2> SUFFICES ASSUME i # j PROVE FALSE
    OBVIOUS
  <2>1. CASE i < j
    <3>1. rank[i] < rank[j] /\ rank[i] \in Nat
      BY <2>1, RankGrows
    <3> QED BY <3>1, <1>3
  <2>2. CASE j < i
    <3>1. rank[j] < rank[i] /\ rank[j] \in Nat
      BY <2>2, RankGrows
    <3> QED BY <3>1, <1>3
  <2> QED BY <2>1, <2>2
<1> HIDE DEF rank, T
<1>4. rank \in [S -> T]
  BY <1>2 DEF rank
<1>5. rank \in Injection(S, T)
  BY <1>3, <1>4 DEF Injection, IsInjective
<1>6. IsFiniteSet(T) /\ Cardinality(T) = Cardinality(S)
  <2>1. 0 \in Int /\ Cardinality(S) - 1 \in Int
        /\ (0 > Cardinality(S) - 1 => Cardinality(S) = 0)
        /\ (Cardinality(S) - 1) - 0 + 1 = Cardinality(S)
    BY <1>1
  <2>2. IsFiniteSet(T)
        /\ Cardinality(T) = IF 0 > Cardinality(S) - 1 THEN 0 ELSE (Cardinality(S) - 1) - 0 + 1
    BY <2>1, FS_Interval DEF T
  <2> QED BY <2>1, <2>2
<1>7. rank \in Surjection(S, T)
  BY <1>5, <1>6, FS_Injection
<1>8. n - 1 \in T
  BY <1>1 DEF T
<1>9. \E i \in S : rank[i] = n - 1
  BY <1>7, <1>8 DEF Surjection
<1> QED BY <1>9 DEF rank

(* The elements of a set of numbers in order: the n-th has n - 1 before    *)
(* it.  The models write their lists so.                                   *)
Ranked(S) ==
  [n \in 1..Cardinality(S) |-> CHOOSE i \in S : Cardinality({j \in S : j < i}) = n - 1]

(* Each element of the set is in the list, once and in order.              *)
LEMMA RankedList ==
  ASSUME NEW S, S \subseteq Nat, IsFiniteSet(S)
  PROVE  /\ Ranked(S) \in Seq(S)
         /\ DOMAIN Ranked(S) = 1..Cardinality(S) /\ Cardinality(S) \in Nat
         /\ \A m, n \in DOMAIN Ranked(S) : m < n => Ranked(S)[m] < Ranked(S)[n]
         /\ \A i \in S : \E n \in DOMAIN Ranked(S) : Ranked(S)[n] = i
         /\ S = {} => Ranked(S) = <<>>
<1> DEFINE s == Ranked(S)
           pick(n) == CHOOSE i \in S : Cardinality({j \in S : j < i}) = n - 1
           rank == [i \in S |-> Cardinality({j \in S : j < i})]
<1>1. IsFiniteSet(S) /\ Cardinality(S) \in Nat /\ S \subseteq Nat
  BY FS_CardinalityType
<1>2. \A i, j \in S : i < j => rank[i] \in Nat /\ rank[j] \in Nat /\ rank[i] < rank[j]
  BY <1>1, RankGrows
<1>3. s = [n \in 1..Cardinality(S) |-> pick(n)]
  BY DEF Ranked
<1>4. ASSUME NEW n \in 1..Cardinality(S)
      PROVE  pick(n) \in S /\ rank[pick(n)] = n - 1
  <2>1. \E i \in S : Cardinality({j \in S : j < i}) = n - 1
    BY <1>1, RanksTaken
  <2>2. pick(n) \in S /\ Cardinality({j \in S : j < pick(n)}) = n - 1
    BY <2>1
  <2> HIDE DEF pick
  <2> QED BY <2>2
<1> HIDE DEF s, pick, rank
<1>5. ASSUME NEW n \in 1..Cardinality(S) PROVE s[n] \in S /\ rank[s[n]] = n - 1
  BY <1>3, <1>4
<1>6. s \in Seq(S) /\ Len(s) = Cardinality(S) /\ DOMAIN s = 1..Cardinality(S)
  BY <1>1, <1>3, <1>4
<1>7. ASSUME NEW m \in DOMAIN s, NEW n \in DOMAIN s, m < n PROVE s[m] < s[n]
  <2>1. s[m] \in S /\ s[n] \in S /\ rank[s[m]] = m - 1 /\ rank[s[n]] = n - 1
    BY <1>5, <1>6
  <2>2. m \in Nat /\ n \in Nat /\ s[m] \in Nat /\ s[n] \in Nat
    <3>1. m \in 1..Cardinality(S) /\ n \in 1..Cardinality(S)
      BY <1>6
    <3>2. m \in Nat /\ n \in Nat
      BY <3>1, <1>1
    <3>3. s[m] \in Nat /\ s[n] \in Nat
      BY <2>1, <1>1
    <3> QED BY <3>2, <3>3
  <2>3. m - 1 # n - 1 /\ ~(n - 1 < m - 1)
    BY <2>2, <1>7
  <2>4. s[m] # s[n] /\ ~(s[n] < s[m])
    BY <2>1, <2>3, <1>2
  <2> QED BY <2>2, <2>4
<1>10. ASSUME NEW i \in S PROVE \E n \in DOMAIN s : s[n] = i
  <2> DEFINE B == {j \in S : j < i}
  <2>1. B \in SUBSET S /\ i \notin B /\ rank[i] = Cardinality(B)
    BY <1>1 DEF rank
  <2> HIDE DEF B
  <2>2. /\ IsFiniteSet(B) /\ Cardinality(B) <= Cardinality(S)
        /\ Cardinality(S) = Cardinality(B) => S = B
    BY <1>1, <2>1, FS_Subset
  <2>3. Cardinality(B) \in Nat
    BY <2>2, FS_CardinalityType
  <2> DEFINE n == Cardinality(B) + 1
  <2>4. n \in 1..Cardinality(S) /\ n - 1 = rank[i]
    BY <1>1, <2>1, <2>2, <2>3
  <2>5. s[n] \in S /\ rank[s[n]] = rank[i]
    BY <1>5, <2>4
  <2>6. i \in Nat /\ s[n] \in Nat
    BY <1>1, <2>5
  <2>7. ~(s[n] < i) /\ ~(i < s[n])
    <3> HIDE DEF n
    <3>1. PICK j \in S : j = s[n]
      BY <2>5
    <3>2. j < i => rank[j] \in Nat /\ rank[i] \in Nat /\ rank[j] < rank[i]
      BY <1>2
    <3>3. i < j => rank[j] \in Nat /\ rank[i] \in Nat /\ rank[i] < rank[j]
      BY <1>2
    <3> QED BY <2>5, <3>1, <3>2, <3>3
  <2>8. s[n] = i
    BY <2>6, <2>7
  <2> QED BY <2>4, <2>8, <1>6
<1>8. ASSUME S = {} PROVE s = <<>>
  <2>1. Cardinality(S) = 0
    BY <1>8, FS_EmptySet
  <2> QED BY <2>1, <1>6
<1> QED BY <1>1, <1>6, <1>7, <1>8, <1>10 DEF s

(* A sequence split in two: each element is in one of the parts.           *)
LEMMA SplitSequence ==
  ASSUME NEW S, NEW s \in Seq(S), NEW b \in Nat, b <= Len(s)
  PROVE  /\ SubSeq(s, 1, b) \in Seq(S) /\ SubSeq(s, b + 1, Len(s)) \in Seq(S)
         /\ Len(SubSeq(s, 1, b)) = b
         /\ \A n \in DOMAIN SubSeq(s, 1, b) : n \in DOMAIN s /\ SubSeq(s, 1, b)[n] = s[n]
         /\ \A n \in DOMAIN SubSeq(s, b + 1, Len(s)) :
              \E m \in DOMAIN s : SubSeq(s, b + 1, Len(s))[n] = s[m]
         /\ \A n \in DOMAIN s :
              \/ \E m \in DOMAIN SubSeq(s, 1, b) : SubSeq(s, 1, b)[m] = s[n]
              \/ \E m \in DOMAIN SubSeq(s, b + 1, Len(s)) : SubSeq(s, b + 1, Len(s))[m] = s[n]
<1> DEFINE first == SubSeq(s, 1, b)
           rest == SubSeq(s, b + 1, Len(s))
           L == Len(s)
<1>1. L \in Nat /\ DOMAIN s = 1..L /\ b <= L
  OBVIOUS
<1>2. first \in Seq(S) /\ Len(first) = b /\ \A n \in 1..b : first[n] = s[n]
  OBVIOUS
<1>3. rest \in Seq(S) /\ Len(rest) = L - b /\ \A n \in 1..(L - b) : rest[n] = s[b + n]
  <2>1. rest \in Seq(S)
    OBVIOUS
  <2>2. Len(rest) = L - b
    OBVIOUS
  <2>3. \A n \in 1..(L - b) : rest[n] = s[b + n]
    OBVIOUS
  <2> QED BY <2>1, <2>2, <2>3
<1> HIDE DEF first, rest, L
<1>4. DOMAIN first = 1..b /\ DOMAIN rest = 1..(L - b)
  BY <1>2, <1>3
<1>5. \A n \in DOMAIN first : n \in DOMAIN s /\ first[n] = s[n]
  BY <1>1, <1>2, <1>4
<1>6. \A n \in DOMAIN rest : \E m \in DOMAIN s : rest[n] = s[m]
  <2> TAKE n \in DOMAIN rest
  <2>1. b + n \in DOMAIN s /\ rest[n] = s[b + n]
    BY <1>1, <1>3, <1>4
  <2> QED BY <2>1
<1>7. \A n \in DOMAIN s : (\E m \in DOMAIN first : first[m] = s[n])
                          \/ (\E m \in DOMAIN rest : rest[m] = s[n])
  <2> TAKE n \in DOMAIN s
  <2>1. n \in Nat /\ n \in 1..L /\ (n <= b \/ b < n)
    BY <1>1
  <2>2. CASE n <= b
    <3>1. n \in DOMAIN first /\ first[n] = s[n]
      BY <2>1, <2>2, <1>2, <1>4
    <3> QED BY <3>1
  <2>3. CASE b < n
    <3>1. n - b \in 1..(L - b) /\ b + (n - b) = n
      BY <2>1, <2>3, <1>1
    <3>2. n - b \in DOMAIN rest /\ rest[n - b] = s[n]
      BY <3>1, <1>3, <1>4
    <3> QED BY <3>2
  <2> QED BY <2>1, <2>2, <2>3
<1> QED BY <1>2, <1>3, <1>5, <1>6, <1>7 DEF first, rest, L
===============================================================================
