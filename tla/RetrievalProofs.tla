---------------------------- MODULE RetrievalProofs ----------------------------
(***************************************************************************)
(* Proofs about Retrieval, for any shelf, any encoders, any number of      *)
(* processes that run backfills and any budget, batch and top-k.           *)
(***************************************************************************)
EXTENDS Retrieval, DataLemmas

-------------------------------------------------------------------------------
(* What the operators return.                                              *)

Increasing(s) == \A m, n \in DOMAIN s : m < n => s[m] < s[n]

(* There are finitely many items, and they are numbers.                    *)
LEMMA Items ==
  /\ Item \subseteq Nat /\ IsFiniteSet(Item)
  /\ \A S \in SUBSET Item : IsFiniteSet(S) /\ Cardinality(S) \in Nat
<1>1. IsFiniteSet(Item)
  BY ConstantsAssumption
<1>2. Cardinality(Item) \in Nat
  BY <1>1, FS_CardinalityType
<1>3. Item = 1..Cardinality(Item)
  BY ConstantsAssumption
<1>4. Item \subseteq Nat
  BY <1>2, <1>3
<1>5. ASSUME NEW S \in SUBSET Item PROVE IsFiniteSet(S) /\ Cardinality(S) \in Nat
  <2>1. IsFiniteSet(S)
    BY <1>1, FS_Subset
  <2> QED BY <2>1, FS_CardinalityType
<1> QED BY <1>1, <1>4, <1>5

(* Sorted lists each element of a set once, in order.                      *)
LEMMA SortedItems ==
  ASSUME NEW S \in SUBSET Item
  PROVE  /\ Sorted(S) \in Seq(S) /\ Sorted(S) \in Seq(Item)
         /\ Increasing(Sorted(S))
         /\ \A i \in S : \E n \in DOMAIN Sorted(S) : Sorted(S)[n] = i
         /\ S = {} => Sorted(S) = <<>>
<1>1. IsFiniteSet(S) /\ S \subseteq Nat
  BY Items
<1>2. Sorted(S) = Ranked(S)
  BY DEF Sorted, Ranked
<1>3. /\ Ranked(S) \in Seq(S)
      /\ \A m, n \in DOMAIN Ranked(S) : m < n => Ranked(S)[m] < Ranked(S)[n]
      /\ \A i \in S : \E n \in DOMAIN Ranked(S) : Ranked(S)[n] = i
      /\ S = {} => Ranked(S) = <<>>
  BY <1>1, RankedList
<1>4. Ranked(S) \in Seq(Item)
  BY <1>3
<1> QED BY <1>2, <1>3, <1>4 DEF Increasing

(* The smaller of two numbers.                                             *)
LEMMA MinOfTwo ==
  ASSUME NEW a \in Nat, NEW b \in Nat
  PROVE  Min({a, b}) \in {a, b} /\ Min({a, b}) <= a /\ Min({a, b}) <= b
<1>1. {a, b} \subseteq Nat /\ {a, b} # {}
  OBVIOUS
<1> HIDE DEF Min
<1>2. Min({a, b}) \in {a, b} /\ \A m \in {a, b} : Min({a, b}) <= m
  BY <1>1, MinIsLeast
<1> QED BY <1>2

(* The size of a context is a number.                                      *)
LEMMA SizeIsNumber ==
  ASSUME NEW s \in Seq(Item)
  PROVE  Size(s) \in Nat
<1> DEFINE step == [n \in 1..Len(s) |-> [k \in Nat |-> k + Shelf[s[n]].size]]
           sum == CHOOSE sum : sum = [n \in 0..Len(s) |->
                                        IF n = 0 THEN 0 ELSE sum[n - 1] + Shelf[s[n]].size]
<1>1. Len(s) \in Nat /\ 0 \in Nat /\ \A n \in 1..Len(s) : s[n] \in Item
  OBVIOUS
<1>2. \A i \in Item : Shelf[i].size \in Nat
  BY ConstantsAssumption
<1>3. step \in [1..Len(s) -> [Nat -> Nat]]
  BY <1>1, <1>2
<1>4. PICK f : IsLoop(f, Len(s), Nat, 0, step)
  <2> HIDE DEF step, sum
  <2> QED BY <1>1, <1>3, LoopValues
<1>5. ASSUME NEW n \in 1..Len(s)
      PROVE  n - 1 \in 0..Len(s) /\ f[n] = f[n - 1] + Shelf[s[n]].size
  <2>1. n - 1 \in 0..Len(s) /\ f[n - 1] \in Nat
    BY <1>1, <1>4 DEF IsLoop
  <2>3. step[n][f[n - 1]] = f[n - 1] + Shelf[s[n]].size
    BY <2>1
  <2> HIDE DEF step, sum
  <2> QED BY <2>1, <2>3, <1>4 DEF IsLoop
<1>6. f = [n \in 0..Len(s) |-> IF n = 0 THEN 0 ELSE f[n - 1] + Shelf[s[n]].size]
  BY <1>1, <1>4, <1>5 DEF IsLoop
<1>7. sum = [n \in 0..Len(s) |-> IF n = 0 THEN 0 ELSE sum[n - 1] + Shelf[s[n]].size]
  BY <1>6
<1>8. Size(s) = sum[Len(s)]
  BY DEF Size
<1> HIDE DEF sum
<1> DEFINE P == {n \in 0..Len(s) : sum[n] \in Nat}
<1>9. 0 \in P
  BY <1>1, <1>7
<1>10. ASSUME NEW n \in 1..Len(s), n - 1 \in P PROVE n \in P
  <2>1. n \in 0..Len(s) /\ n # 0 /\ sum[n] = sum[n - 1] + Shelf[s[n]].size
    BY <1>1, <1>7
  <2> QED BY <2>1, <1>1, <1>2, <1>10
<1>11. \A n \in 0..Len(s) : n \in P
  <2> HIDE DEF P
  <2> QED BY <1>1, <1>9, <1>10, LoopInduction
<1> QED BY <1>1, <1>8, <1>11

(* The encoder that load_all settles on has as many rows as any other.     *)
LEMMA MajorityIsMost ==
  ASSUME NEW items \in SUBSET Item, items # {}, \A i \in items : rows[i].model \in Models
  PROVE  /\ Majority(items) \in Models
         /\ RowsOf(items, Majority(items)) # {}
         /\ \A m \in Models :
              Cardinality(RowsOf(items, m)) <= Cardinality(RowsOf(items, Majority(items)))
<1> DEFINE count == [m \in Models |-> Cardinality(RowsOf(items, m))]
           counts == {count[m] : m \in Models}
           Most(i) == \A m \in Models :
                        Cardinality(RowsOf(items, m)) <= Cardinality(RowsOf(items, rows[i].model))
           most == {i \in items : Most(i)}
<1>1. IsFiniteSet(items) /\ Cardinality(items) \in Nat
  BY Items
<1>2. ASSUME NEW m \in Models
      PROVE  /\ RowsOf(items, m) \in SUBSET Item /\ count[m] = Cardinality(RowsOf(items, m))
             /\ count[m] \in Nat /\ count[m] <= Cardinality(items)
             /\ count[m] = 0 <=> RowsOf(items, m) = {}
  <2>1. RowsOf(items, m) \in SUBSET items
    BY DEF RowsOf
  <2> HIDE DEF RowsOf
  <2>2. IsFiniteSet(RowsOf(items, m)) /\ Cardinality(RowsOf(items, m)) <= Cardinality(items)
    BY <1>1, <2>1, FS_Subset
  <2>3. Cardinality(RowsOf(items, m)) \in Nat
    BY <2>2, FS_CardinalityType
  <2>4. Cardinality(RowsOf(items, m)) = 0 <=> RowsOf(items, m) = {}
    BY <2>2, FS_EmptySet
  <2> QED BY <2>1, <2>2, <2>3, <2>4
<1>3. PICK i \in items : rows[i].model \in Models
  OBVIOUS
<1> HIDE DEF count
<1>4. counts \subseteq Nat /\ counts # {} /\ \A c \in counts : c <= Cardinality(items)
  BY <1>2, <1>3
<1>5. PICK m \in Models : \A k \in Models : count[k] <= count[m]
  <2>1. Max(counts) \in counts /\ \A c \in counts : c <= Max(counts)
    <3> HIDE DEF counts
    <3> QED BY <1>1, <1>4, MaxIsGreatest
  <2> QED BY <2>1
<1>6. RowsOf(items, m) # {}
  <2>1. i \in RowsOf(items, rows[i].model)
    BY DEF RowsOf
  <2>2. count[rows[i].model] # 0
    BY <2>1, <1>2, <1>3
  <2>3. count[m] # 0
    BY <2>2, <1>2, <1>3, <1>5
  <2> QED BY <2>3, <1>2
<1>7. PICK j \in items : rows[j].model = m
  BY <1>6 DEF RowsOf
<1>8. j \in most
  BY <1>2, <1>5, <1>7
<1>9. Min(most) \in most
  <2>1. most \subseteq Nat /\ most # {}
    BY <1>8, Items
  <2> HIDE DEF most
  <2> QED BY <2>1, MinIsLeast
<1>10. Majority(items) = rows[Min(most)].model
  BY DEF Majority
<1>11. Min(most) \in items /\ Most(Min(most))
  BY <1>9
<1>12. Min(most) \in RowsOf(items, Majority(items))
  BY <1>10, <1>11 DEF RowsOf
<1> QED BY <1>10, <1>11, <1>12

-------------------------------------------------------------------------------
(* What the search returns.                                                *)

EmbeddingRow == [model : Models, of : Vector, hash : Item \X (1..MaxVersion) \X BOOLEAN]

(* Each stored row is the vector of some text its own item has had, with   *)
(* that text's hash.                                                       *)
RowsOK ==
  /\ rows \in [Item -> {NoRow} \cup EmbeddingRow]
  /\ \A i \in Item : rows[i] # NoRow =>
       /\ rows[i] \in EmbeddingRow
       /\ rows[i].of[1] = i /\ rows[i].hash = Hash(i, rows[i].of[2])

(* A loaded table: no id twice, and beside each id its own row's vector.   *)
Aligned(table) ==
  /\ table.ids \in Seq(Item) /\ Increasing(table.ids)
  /\ \A k \in DOMAIN table.ids : table.matrix[k] \in Vector /\ table.matrix[k][1] = table.ids[k]

(* load_all keeps the ids and the matrix in step.                          *)
LEMMA LoadAligned ==
  ASSUME RowsOK, NEW kind
  PROVE  Aligned(Load(kind))
<1> DEFINE items == RowItems(kind)
           model == IF items = {} THEN NoClient ELSE Majority(items)
           kept == RowsOf(items, model)
           ids == Sorted(kept)
           matrix == [k \in DOMAIN ids |-> rows[ids[k]].of]
<1>1. Load(kind).ids = ids /\ Load(kind).matrix = matrix
  BY DEF Load
<1>2. kept \in SUBSET Item /\ \A i \in kept : i \in Item /\ rows[i] # NoRow
  BY DEF RowsOf, RowItems
<1> HIDE DEF kept
<1>3. ids \in Seq(kept) /\ ids \in Seq(Item) /\ Increasing(ids)
  BY <1>2, SortedItems
<1> HIDE DEF ids
<1>4. ASSUME NEW k \in DOMAIN ids PROVE matrix[k] \in Vector /\ matrix[k][1] = ids[k]
  <2>1. ids[k] \in kept
    BY <1>3
  <2>2. ids[k] \in Item /\ rows[ids[k]] # NoRow
    BY <2>1, <1>2
  <2>3. rows[ids[k]].of \in Vector /\ rows[ids[k]].of[1] = ids[k]
    BY <2>2 DEF RowsOK, EmbeddingRow
  <2> QED BY <2>3
<1> QED BY <1>1, <1>3, <1>4 DEF Aligned

(* What the search returns is a vector's own item, within what was asked,  *)
(* and no item twice.                                                      *)
Hit == [item : Item, of : Vector]

HitList(hits, wanted) ==
  /\ hits \in Seq(Hit)
  /\ \A n \in DOMAIN hits : hits[n].item \in wanted /\ hits[n].of[1] = hits[n].item
  /\ \A m, n \in DOMAIN hits : hits[m].item = hits[n].item => m = n

(* A hit is a wanted item with its own vector, and no item is hit twice.   *)
LEMMA HitsMatch ==
  ASSUME NEW table, Aligned(table), NEW wanted, NEW hits \in Hits(table, wanted)
  PROVE  HitList(hits, wanted)
<1> DEFINE found == {k \in DOMAIN table.ids : /\ Score(table.matrix[k]) > 0
                                              /\ text[table.ids[k]] > 0
                                              /\ table.ids[k] \in wanted}
           most == Min({TopK, Cardinality(found)})
           H(f) == [n \in DOMAIN f |-> [item |-> table.ids[f[n]], of |-> table.matrix[f[n]]]]
<1>1. PICK f \in [1..most -> found] : IsInjective(f) /\ hits = H(f)
  BY DEF Hits
<1>2. found \subseteq DOMAIN table.ids /\ \A k \in found : table.ids[k] \in wanted
  OBVIOUS
<1>3. most \in Nat
  <2>1. DOMAIN table.ids = 1..Len(table.ids) /\ Len(table.ids) \in Nat
    BY DEF Aligned
  <2>2. IsFiniteSet(DOMAIN table.ids)
    BY <2>1, FS_Interval
  <2>3. IsFiniteSet(found)
    <3>1. found \in SUBSET DOMAIN table.ids
      OBVIOUS
    <3> HIDE DEF found
    <3> QED BY <2>2, <3>1, FS_Subset
  <2>4. Cardinality(found) \in Nat /\ TopK \in Nat
    <3> HIDE DEF found
    <3> QED BY <2>3, FS_CardinalityType, ConstantsAssumption
  <2>5. most \in {TopK, Cardinality(found)}
    <3> HIDE DEF found
    <3> QED BY <2>4, MinOfTwo
  <2> HIDE DEF found, most
  <2> QED BY <2>4, <2>5
<1> HIDE DEF found, most
<1>4. DOMAIN f = 1..most /\ \A n \in 1..most : f[n] \in found
  BY <1>1
<1>5. ASSUME NEW k \in found
      PROVE  /\ table.ids[k] \in Item /\ table.matrix[k] \in Vector
             /\ table.matrix[k][1] = table.ids[k] /\ table.ids[k] \in wanted
             /\ k \in Nat
  BY <1>2 DEF Aligned
<1>6. \A k, l \in found : table.ids[k] = table.ids[l] => k = l
  <2> TAKE k, l \in found
  <2>1. k \in Nat /\ l \in Nat /\ k \in DOMAIN table.ids /\ l \in DOMAIN table.ids
    BY <1>2, <1>5
  <2>2. table.ids[k] \in Nat /\ table.ids[l] \in Nat
    BY <1>5, Items
  <2>3. (k < l => table.ids[k] < table.ids[l]) /\ (l < k => table.ids[l] < table.ids[k])
    BY <2>1 DEF Aligned, Increasing
  <2> QED BY <2>1, <2>2, <2>3
<1>7. hits = [n \in 1..most |-> [item |-> table.ids[f[n]], of |-> table.matrix[f[n]]]]
  BY <1>1, <1>4
<1>8. \A n \in 1..most : /\ hits[n] \in Hit
                         /\ hits[n].item = table.ids[f[n]]
                         /\ hits[n].item \in wanted /\ hits[n].of[1] = hits[n].item
  BY <1>4, <1>5, <1>7 DEF Hit
<1>9. \A m, n \in 1..most : hits[m].item = hits[n].item => m = n
  <2> TAKE m, n \in 1..most
  <2>1. hits[m].item = hits[n].item => f[m] = f[n]
    BY <1>4, <1>6, <1>8
  <2>2. f[m] = f[n] => m = n
    BY <1>1, <1>4 DEF IsInjective
  <2> QED BY <2>1, <2>2
<1>10. hits \in Seq(Hit) /\ DOMAIN hits = 1..most
  BY <1>3, <1>7, <1>8
<1> QED BY <1>8, <1>9, <1>10 DEF HitList

-------------------------------------------------------------------------------
(* Sections and what fits of them.                                         *)

Listed(s, i) == \E n \in DOMAIN s : s[n] = i

(* The position of an item of a list.                                      *)
LEMMA PositionOf ==
  ASSUME NEW s \in Seq(Item), NEW i, Listed(s, i)
  PROVE  Position(s, i) \in DOMAIN s /\ s[Position(s, i)] = i
BY DEF Position, Listed

(* Within s: a part of a section of the chunks s that begins with its      *)
(* heading h.                                                              *)
Within(c, s, h) ==
  /\ c \in Seq(Item) /\ c # <<>> /\ c[1] = h
  /\ \A m, n \in DOMAIN c : c[m] = c[n] => m = n
  /\ \A n \in DOMAIN c :
       /\ h <= c[n] /\ Listed(s, c[n])
       /\ \A j \in DOMAIN s : (h < s[j] /\ s[j] <= c[n]) => ~Closes(h, s[j])

(* A section ends before the first heading that closes it, or with s.      *)
LEMMA SectionEnds ==
  ASSUME NEW s \in Seq(Item), NEW a \in DOMAIN s
  PROVE  LET e == SectionEnd(s, a)
         IN  /\ e \in (a + 1)..(Len(s) + 1)
             /\ e = Len(s) + 1 \/ Closes(s[a], s[e])
             /\ \A b \in (a + 1)..(e - 1) : ~Closes(s[a], s[b])
<1> DEFINE ends == {e \in (a + 1)..(Len(s) + 1) : e = Len(s) + 1 \/ Closes(s[a], s[e])}
<1>1. Len(s) \in Nat /\ a \in 1..Len(s) /\ a \in Nat
  OBVIOUS
<1>2. ends \subseteq Nat /\ Len(s) + 1 \in ends
  BY <1>1
<1>3. PICK f \in ends : \A g \in ends : f <= g
  <2> HIDE DEF ends
  <2> QED BY <1>2, LeastNatural
<1>4. ASSUME NEW b \in (a + 1)..(f - 1) PROVE ~Closes(s[a], s[b])
  <2>1. b \in (a + 1)..(Len(s) + 1) /\ b < f /\ b \in Nat /\ f \in Nat
    BY <1>1, <1>3
  <2>2. b \notin ends
    BY <1>3, <2>1
  <2> QED BY <2>1, <2>2
<1>5. /\ f \in (a + 1)..(Len(s) + 1)
      /\ f = Len(s) + 1 \/ Closes(s[a], s[f])
      /\ \A b \in (a + 1)..(f - 1) : ~Closes(s[a], s[b])
  BY <1>3, <1>4
<1> QED BY <1>5 DEF SectionEnd

(* What a section holds comes after its heading, and no heading that       *)
(* closes it comes between.                                                *)
LEMMA SectionOfHeading ==
  ASSUME NEW s \in Seq(Item), Increasing(s), NEW h \in Item, Listed(s, h)
  PROVE  Within(SectionRange(s, h), s, h)
<1> DEFINE a == Position(s, h)
           e == SectionEnd(s, a)
           c == SectionRange(s, h)
<1>1. Len(s) \in Nat /\ DOMAIN s = 1..Len(s) /\ a \in 1..Len(s) /\ s[a] = h /\ a \in Nat
  BY PositionOf
<1> HIDE DEF a
<1>2. /\ e \in (a + 1)..(Len(s) + 1)
      /\ \A b \in (a + 1)..(e - 1) : ~Closes(s[a], s[b])
  BY <1>1, SectionEnds
<1> HIDE DEF e
<1>3. c = SubSeq(s, a, e - 1)
  BY DEF SectionRange, a, e
<1> HIDE DEF c
<1>4. /\ e \in Nat /\ c \in Seq(Item) /\ Len(c) = e - a /\ DOMAIN c = 1..(e - a)
      /\ \A n \in 1..(e - a) : c[n] = s[a + n - 1] /\ a + n - 1 \in a..(e - 1)
      /\ \A n \in a..(e - 1) : n \in 1..Len(s)
  <2>1. e \in Nat /\ a <= e /\ e - a \in Nat /\ e - 1 \in Nat /\ e - 1 <= Len(s)
        /\ \A n \in a..(e - 1) : n \in 1..Len(s)
    BY <1>1, <1>2
  <2>2. \A n \in 1..(e - a) : a + n - 1 \in a..(e - 1)
    BY <1>1, <2>1
  <2>3. c \in Seq(Item)
    BY <1>1, <1>3, <2>1
  <2>4. Len(c) = e - a
    BY <1>1, <1>3, <2>1
  <2>5. \A n \in 1..(e - a) : c[n] = s[a + n - 1]
    BY <1>1, <1>3, <2>1
  <2>6. DOMAIN c = 1..(e - a)
    BY <2>3, <2>4
  <2> QED BY <2>1, <2>2, <2>3, <2>4, <2>5, <2>6
<1>5. c # <<>> /\ c[1] = h
  BY <1>1, <1>2, <1>4
<1>6. \A m, n \in 1..Len(s) : s[m] \in Nat /\ s[n] \in Nat /\ (m < n => s[m] < s[n])
  <2>1. \A m \in 1..Len(s) : s[m] \in Item
    OBVIOUS
  <2>2. \A m, n \in 1..Len(s) : m < n => s[m] < s[n]
    BY <1>1 DEF Increasing
  <2> QED BY <2>1, <2>2, Items
<1>7. \A m, n \in DOMAIN c : c[m] = c[n] => m = n
  <2> TAKE m, n \in DOMAIN c
  <2>1. m \in Nat /\ n \in Nat /\ m \in 1..(e - a) /\ n \in 1..(e - a)
    BY <1>1, <1>4
  <2>2. a + m - 1 \in 1..Len(s) /\ a + n - 1 \in 1..Len(s)
    BY <2>1, <1>4
  <2>3. (m < n => a + m - 1 < a + n - 1) /\ (n < m => a + n - 1 < a + m - 1)
    BY <2>1, <1>1
  <2>4. (m < n => c[m] < c[n]) /\ (n < m => c[n] < c[m]) /\ c[m] \in Nat /\ c[n] \in Nat
    BY <2>1, <2>2, <2>3, <1>4, <1>6
  <2> QED BY <2>1, <2>4
<1>8. ASSUME NEW n \in DOMAIN c
      PROVE  /\ h <= c[n] /\ Listed(s, c[n])
             /\ \A j \in DOMAIN s : (h < s[j] /\ s[j] <= c[n]) => ~Closes(h, s[j])
  <2> DEFINE k == a + n - 1
  <2>1. k \in a..(e - 1) /\ k \in 1..Len(s) /\ c[n] = s[k] /\ k \in Nat
    BY <1>1, <1>4
  <2> HIDE DEF k
  <2>2. h <= s[k]
    <3>1. a <= k
      BY <2>1, <1>1, <1>4
    <3>2. a = k \/ a < k
      BY <3>1, <2>1, <1>1
    <3> QED BY <3>2, <2>1, <1>1, <1>6
  <2>3. ASSUME NEW j \in DOMAIN s, h < s[j], s[j] <= s[k] PROVE ~Closes(h, s[j])
    <3>1. j \in Nat /\ j \in 1..Len(s) /\ s[j] \in Nat /\ s[k] \in Nat /\ s[a] \in Nat
      BY <1>1, <1>6, <2>1
    <3>2. a < j
      BY <3>1, <1>1, <1>6, <2>3
    <3>3. j <= k
      BY <3>1, <1>6, <2>1, <2>3
    <3>4. j \in (a + 1)..(e - 1)
      BY <3>1, <3>2, <3>3, <2>1, <1>1, <1>4
    <3> QED BY <3>4, <1>1, <1>2
  <2> QED BY <2>1, <2>2, <2>3, <1>1 DEF Listed
<1> QED BY <1>4, <1>5, <1>7, <1>8 DEF Within, c

(* A longer section is cut where it fills the budget, after its heading.   *)
LEMMA TruncatedFits ==
  ASSUME NEW section, NEW s, NEW h, Within(section, s, h)
  PROVE  /\ Within(Truncated(section), s, h)
         /\ Size(Truncated(section)) <= Budget \/ Truncated(section) = <<h>>
<1> DEFINE fits == {n \in 1..Len(section) : n = 1 \/ Size(SubSeq(section, 1, n)) <= Budget}
           whole == {n \in fits : 1..n \subseteq fits}
           n == Max(whole)
           c == SubSeq(section, 1, n)
<1>1. section \in Seq(Item) /\ Len(section) \in Nat /\ Len(section) > 0
      /\ DOMAIN section = 1..Len(section)
  BY DEF Within
<1>2. 1 \in whole /\ whole \subseteq Nat /\ \A k \in whole : k <= Len(section)
  <2>1. 1 \in fits /\ \A k \in fits : k \in Nat /\ k <= Len(section)
    BY <1>1
  <2>2. 1..1 = {1}
    OBVIOUS
  <2> HIDE DEF fits
  <2> QED BY <2>1, <2>2
<1>3. n \in whole
  <2> HIDE DEF whole
  <2> QED BY <1>1, <1>2, MaxIsGreatest
<1>4. n \in 1..Len(section) /\ (n = 1 \/ Size(SubSeq(section, 1, n)) <= Budget)
  BY <1>3
<1>5. Truncated(section) = c
  BY DEF Truncated
<1> HIDE DEF n
<1>6. c \in Seq(Item) /\ Len(c) = n /\ DOMAIN c = 1..n /\ \A k \in 1..n : c[k] = section[k]
  BY <1>1, <1>4
<1>7. 1..n \subseteq DOMAIN section /\ 1 \in 1..n /\ n \in Nat
  BY <1>1, <1>4
<1>8. c # <<>> /\ c[1] = h
  BY <1>6, <1>7 DEF Within
<1>9. n = 1 => c = <<h>>
  <2> SUFFICES ASSUME n = 1 PROVE c = <<h>>
    OBVIOUS
  <2> HIDE DEF c
  <2>1. c \in Seq(Item) /\ Len(c) = 1 /\ c[1] = h
    BY <1>6, <1>8
  <2> QED BY <2>1
<1> HIDE DEF c
<1>10. Within(c, s, h)
  BY <1>6, <1>7, <1>8 DEF Within
<1> QED BY <1>4, <1>5, <1>9, <1>10 DEF c

(* The hits are packed while they fit, best first, after the heading.      *)
LEMMA PackedFits ==
  ASSUME NEW section, NEW s, NEW h \in Item, Within(section, s, h),
         NEW hits, HitList(hits, {section[n] : n \in DOMAIN section} \ {h})
  PROVE  /\ Within(Packed(section, hits), s, h)
         /\ Size(Packed(section, hits)) <= Budget \/ Packed(section, hits) = <<h>>
<1> DEFINE N == Len(hits)
           one(n, in) == IF Size(Append(in, hits[n].item)) > Budget THEN in
                         ELSE Append(in, hits[n].item)
           step == [n \in 1..N |-> [in \in Seq(Item) |-> one(n, in)]]
           packed == CHOOSE packed : packed = [n \in 0..N |->
                       IF n = 0 THEN <<section[1]>>
                       ELSE IF Size(Append(packed[n - 1], hits[n].item)) > Budget THEN packed[n - 1]
                       ELSE Append(packed[n - 1], hits[n].item)]
<1>1. /\ N \in Nat /\ DOMAIN hits = 1..N
      /\ \A n \in 1..N : hits[n].item \in Item /\ hits[n].item # h
                         /\ \E k \in DOMAIN section : hits[n].item = section[k]
  <2>1. hits \in Seq(Hit)
        /\ \A n \in DOMAIN hits : hits[n].item \in {section[k] : k \in DOMAIN section} \ {h}
    BY DEF HitList
  <2>2. N \in Nat /\ DOMAIN hits = 1..N /\ \A n \in 1..N : hits[n] \in Hit
    <3>1. hits \in Seq(Hit)
      BY <2>1
    <3> QED BY <3>1
  <2> QED BY <2>1, <2>2 DEF Hit
<1>2. section[1] = h
  BY DEF Within
<1>3. \A n \in 1..N : \A in \in Seq(Item) : one(n, in) \in Seq(Item)
  BY <1>1
<1>4. PICK f : IsLoop(f, N, Seq(Item), <<h>>, step)
  <2>1. <<h>> \in Seq(Item)
    OBVIOUS
  <2>2. step \in [1..N -> [Seq(Item) -> Seq(Item)]]
    BY <1>3
  <2> HIDE DEF step, packed, N
  <2> QED BY <1>1, <2>1, <2>2, LoopValues
<1>5. f \in [0..N -> Seq(Item)] /\ f[0] = <<h>>
      /\ \A n \in 1..N : n - 1 \in 0..N /\ f[n - 1] \in Seq(Item) /\ f[n] = one(n, f[n - 1])
  <2>1. f \in [0..N -> Seq(Item)] /\ f[0] = <<h>>
        /\ \A n \in 1..N : f[n] = step[n][f[n - 1]]
    BY <1>4 DEF IsLoop
  <2>2. ASSUME NEW n \in 1..N
        PROVE  n - 1 \in 0..N /\ f[n - 1] \in Seq(Item) /\ f[n] = one(n, f[n - 1])
    <3>1. n - 1 \in 0..N /\ f[n - 1] \in Seq(Item)
      BY <2>1, <1>1
    <3>2. step[n][f[n - 1]] = one(n, f[n - 1])
      BY <3>1
    <3> HIDE DEF one, step
    <3> QED BY <2>1, <3>1, <3>2
  <2> QED BY <2>1, <2>2
<1>6. f = [n \in 0..N |-> IF n = 0 THEN <<section[1]>>
                          ELSE IF Size(Append(f[n - 1], hits[n].item)) > Budget THEN f[n - 1]
                          ELSE Append(f[n - 1], hits[n].item)]
  <2>1. f = [n \in 0..N |-> IF n = 0 THEN <<section[1]>> ELSE one(n, f[n - 1])]
    <3> HIDE DEF one
    <3>1. \A n \in 0..N : n = 0 \/ n \in 1..N
      BY <1>1
    <3>2. \A n \in 0..N : f[n] = IF n = 0 THEN <<section[1]>> ELSE one(n, f[n - 1])
      BY <1>2, <1>5, <3>1
    <3> QED BY <1>5, <3>2
  <2> QED BY <2>1
<1>7. packed = [n \in 0..N |-> IF n = 0 THEN <<section[1]>>
                               ELSE IF Size(Append(packed[n - 1], hits[n].item)) > Budget
                                      THEN packed[n - 1]
                               ELSE Append(packed[n - 1], hits[n].item)]
  BY <1>6
<1>8. Packed(section, hits) = packed[N]
  BY DEF Packed
<1> HIDE DEF packed
<1>9. packed[0] = <<h>> /\ \A n \in 1..N : packed[n] = one(n, packed[n - 1])
  <2>1. packed = [n \in 0..N |-> IF n = 0 THEN <<section[1]>> ELSE one(n, packed[n - 1])]
    BY <1>7
  <2>2. 0 \in 0..N /\ \A n \in 1..N : n \in 0..N /\ n # 0
    BY <1>1
  <2> HIDE DEF one
  <2> QED BY <1>2, <2>1, <2>2
<1> DEFINE Good(n) ==
      /\ Within(packed[n], s, h)
      /\ \A m \in DOMAIN packed[n] : m = 1 \/ \E k \in 1..n : packed[n][m] = hits[k].item
      /\ Size(packed[n]) <= Budget \/ packed[n] = <<h>>
    P == {n \in 0..N : Good(n)}
<1>10. 0 \in P
  <2>1. <<h>> \in Seq(Item) /\ <<h>> # <<>> /\ <<h>>[1] = h /\ DOMAIN <<h>> = {1} /\ h \in Nat
    BY Items
  <2>2. 1 \in DOMAIN section /\ section[1] = h
    BY DEF Within
  <2>3. Within(<<h>>, s, h)
    BY <2>1, <2>2 DEF Within
  <2> QED BY <1>1, <1>9, <2>1, <2>3
<1>11. ASSUME NEW n \in 1..N, n - 1 \in P PROVE n \in P
  <2> DEFINE in == packed[n - 1]
             i == hits[n].item
  <2>1. /\ n \in 0..N /\ n - 1 \in 0..N /\ n \in Nat /\ Good(n - 1)
        /\ 1..(n - 1) \subseteq 1..n
    BY <1>1, <1>11
  <2>2. packed[n] = in \/ (packed[n] = Append(in, i) /\ ~(Size(Append(in, i)) > Budget))
    BY <1>9
  <2>3. CASE packed[n] = in
    BY <2>1, <2>3
  <2>4. CASE packed[n] = Append(in, i) /\ ~(Size(Append(in, i)) > Budget)
    <3> DEFINE c == Append(in, i)
    <3>1. in \in Seq(Item) /\ i \in Item /\ i # h /\ Within(in, s, h) /\ n \in DOMAIN hits
      BY <1>1, <2>1 DEF Within
    <3>2. PICK k \in DOMAIN section : i = section[k]
      BY <1>1
    <3>3. /\ c \in Seq(Item) /\ Len(in) \in Nat /\ Len(c) = Len(in) + 1
          /\ DOMAIN c = 1..(Len(in) + 1) /\ DOMAIN in = 1..Len(in)
          /\ \A m \in 1..Len(in) : c[m] = in[m]
          /\ c[Len(in) + 1] = i
      BY <3>1
    <3>4. Size(c) <= Budget
      <4>1. Size(c) \in Nat /\ Budget \in Nat
        BY <3>3, SizeIsNumber, ConstantsAssumption
      <4> QED BY <4>1, <2>4
    <3>5. \A m \in DOMAIN in : in[m] # i
      <4>1. ASSUME NEW m \in DOMAIN in, in[m] = i PROVE FALSE
        <5>1. m # 1
          BY <4>1, <3>1 DEF Within
        <5>2. PICK l \in 1..(n - 1) : in[m] = hits[l].item
          BY <2>1, <5>1
        <5>3. l \in DOMAIN hits /\ l # n
          BY <1>1, <2>1
        <5> QED BY <3>1, <4>1, <5>2, <5>3 DEF HitList
      <4> QED BY <4>1
    <3> HIDE DEF c
    <3>6. c # <<>> /\ c[1] = h /\ 1 \in 1..Len(in)
      BY <3>1, <3>3 DEF Within
    <3>7. \A m \in DOMAIN c : m \in 1..Len(in) \/ m = Len(in) + 1
      BY <3>3
    <3>8. \A l, m \in DOMAIN c : c[l] = c[m] => l = m
      BY <3>1, <3>3, <3>5, <3>7 DEF Within
    <3>9. \A m \in DOMAIN c :
            /\ h <= c[m] /\ Listed(s, c[m])
            /\ \A j \in DOMAIN s : (h < s[j] /\ s[j] <= c[m]) => ~Closes(h, s[j])
      <4> TAKE m \in DOMAIN c
      <4>1. CASE m \in 1..Len(in)
        BY <4>1, <3>1, <3>3 DEF Within
      <4>2. CASE m = Len(in) + 1
        BY <4>2, <3>2, <3>3 DEF Within
      <4> QED BY <3>7, <4>1, <4>2
    <3>10. Within(c, s, h)
      BY <3>3, <3>6, <3>8, <3>9 DEF Within
    <3>11. \A m \in DOMAIN c : m = 1 \/ \E l \in 1..n : c[m] = hits[l].item
      BY <2>1, <3>3, <3>7
    <3> QED BY <2>1, <2>4, <3>4, <3>10, <3>11 DEF c
  <2> QED BY <2>2, <2>3, <2>4
<1> HIDE DEF P
<1>12. \A n \in 0..N : n \in P
  <2> HIDE DEF N
  <2> QED BY <1>1, <1>10, <1>11, LoopInduction
<1>13. N \in 0..N
  BY <1>1
<1>14. Good(N)
  BY <1>12, <1>13 DEF P
<1> QED BY <1>8, <1>14

-------------------------------------------------------------------------------
(* The tables, the backfills and what the last one left behind.            *)

Kinds == {"block", "chunk"}
Docs == {Shelf[i].doc : i \in Item} \cup {AllDocs}

Entry == [item : Item, v : 1..MaxVersion]

Work == [pc : {"check"}, kind : Kinds, scope : Docs, model : Models, calm : BOOLEAN,
         todo : Seq(Entry), needs : Seq(Entry)]

LibraryOK ==
  /\ text \in [Item -> 0..MaxVersion] /\ translated \subseteq Item
  /\ begun \in 0..MaxBackfills

WorkersOK == worker \in [Workers -> {NoWork} \cup Work]

Current(entries) == \A n \in DOMAIN entries : entries[n].v = text[entries[n].item]
Entered(entries, i) == \E n \in DOMAIN entries : entries[n].item = i

(* A backfill that nothing has disturbed works on the texts as they are,   *)
(* and has each of its candidates done or still before it.                 *)
OnCourse(w) ==
  /\ Current(w.todo) /\ Current(w.needs)
  /\ \A i \in Candidates(w.kind, w.scope) :
       UpToDate(i, text[i], w.model) \/ Entered(w.todo, i) \/ Entered(w.needs, i)

CalmWorkers ==
  \A p \in Workers : (worker[p].pc = "check" /\ worker[p].calm) => OnCourse(worker[p])

SettledOK ==
  settled # Unsettled =>
    /\ settled.kind \in Kinds
    /\ \A i \in Candidates(settled.kind, settled.scope) : UpToDate(i, text[i], settled.model)

TablesInv == LibraryOK /\ RowsOK /\ WorkersOK /\ CalmWorkers /\ SettledOK

tables == <<text, translated, rows, worker, begun, settled>>

(* Facts about the constants in the form the steps need them.              *)
LEMMA Bounds ==
  /\ MaxVersion \in Nat /\ MaxVersion > 0 /\ MaxBackfills \in Nat /\ Radius \in Nat /\ Budget \in Nat
  /\ BatchSize \in Nat /\ BatchSize > 0 /\ NoClient \notin Models
  /\ \A i \in Item : Shelf[i].kind \in Kinds /\ Shelf[i].padded \in BOOLEAN
BY ConstantsAssumption DEF Kinds

(* A backfill is idle or holds all of its fields.                          *)
LEMMA WorkOrIdle ==
  ASSUME WorkersOK, NEW p \in Workers
  PROVE  /\ worker[p].pc \in {"idle", "check"}
         /\ worker[p].pc = "check" <=> worker[p] \in Work
         /\ worker[p].pc = "idle" <=> worker[p] = NoWork
         /\ worker[p].pc = "check" =>
              /\ worker[p].kind \in Kinds /\ worker[p].scope \in Docs
              /\ worker[p].model \in Models /\ worker[p].calm \in BOOLEAN
              /\ worker[p].todo \in Seq(Entry) /\ worker[p].needs \in Seq(Entry)
BY DEF WorkersOK, Work, NoWork

(* A disturbed backfill is calm no more; the others are as they were.      *)
LEMMA Disturbed ==
  ASSUME WorkersOK, NEW others
  PROVE  /\ Disturb(others) \in [Workers -> {NoWork} \cup Work]
         /\ \A p \in Workers :
              /\ p \in others => ~(Disturb(others)[p].pc = "check" /\ Disturb(others)[p].calm)
              /\ p \notin others => Disturb(others)[p] = worker[p]
<1> DEFINE d(p) == IF p \in others /\ worker[p].pc # "idle"
                     THEN [worker[p] EXCEPT !.calm = FALSE] ELSE worker[p]
<1>1. ASSUME NEW p \in Workers
      PROVE  /\ d(p) \in {NoWork} \cup Work
             /\ p \in others => ~(d(p).pc = "check" /\ d(p).calm)
             /\ p \notin others => d(p) = worker[p]
  <2>1. CASE worker[p] = NoWork
    BY <2>1 DEF NoWork
  <2>2. CASE worker[p] \in Work
    BY <2>2 DEF Work
  <2> QED BY <2>1, <2>2 DEF WorkersOK
<1>2. Disturb(others) = [p \in Workers |-> d(p)]
  BY DEF Disturb
<1> HIDE DEF d
<1> QED BY <1>1, <1>2

(* The candidates of a backfill exist.                                     *)
LEMMA CandidatesExist ==
  ASSUME NEW kind, NEW scope
  PROVE  /\ Candidates(kind, scope) \in SUBSET Item
         /\ \A i \in Candidates(kind, scope) : text[i] > 0
BY DEF Candidates, BlockCandidates, ChunkCandidates

(* What a step that disturbs every backfill has still to show.             *)
LEMMA DisturbingStep ==
  ASSUME TablesInv, worker' = Disturb(Workers), settled' = Unsettled, LibraryOK', RowsOK'
  PROVE  TablesInv'
<1>1. WorkersOK
  BY DEF TablesInv
<1>2. WorkersOK' /\ CalmWorkers'
  BY <1>1, Disturbed DEF WorkersOK, CalmWorkers
<1>3. SettledOK'
  BY DEF SettledOK
<1> QED BY <1>2, <1>3 DEF TablesInv

(* A new text leaves the rows as they are and calms no backfill.           *)
LEMMA TranslateStep ==
  ASSUME TablesInv, NEW i \in Item, Translate(i)
  PROVE  TablesInv'
<1>1. LibraryOK'
  BY DEF TablesInv, LibraryOK, Translate
<1>2. RowsOK'
  BY DEF TablesInv, RowsOK, Translate
<1> QED BY <1>1, <1>2, DisturbingStep DEF Translate

(* A document that is ingested again takes its rows along and gives its    *)
(* ids a later version, which no row has.                                  *)
LEMMA ReplaceDocumentStep ==
  ASSUME TablesInv, NEW d, NEW kept, ReplaceDocument(d, kept)
  PROVE  TablesInv'
<1> DEFINE items == {i \in Item : Shelf[i].doc = d}
           versions == {text[i] : i \in items}
           next == 1 + Max(versions)
<1>1. text \in [Item -> 0..MaxVersion] /\ items \subseteq Item
  BY DEF TablesInv, LibraryOK
<1>2. next \in 0..MaxVersion
  <2>1. \A i \in items : text[i] \in Nat /\ text[i] < MaxVersion /\ text[i] <= MaxVersion
    BY <1>1, Bounds DEF ReplaceDocument
  <2>2. versions \subseteq Nat /\ versions # {} /\ \A v \in versions : v < MaxVersion /\ v <= MaxVersion
    BY <2>1 DEF ReplaceDocument
  <2> HIDE DEF versions
  <2>4. Max(versions) \in versions
    BY <2>2, Bounds, MaxIsGreatest
  <2>5. Max(versions) \in Nat /\ Max(versions) < MaxVersion
    BY <2>2, <2>4
  <2> QED BY <2>5, Bounds
<1>3. text' = [i \in Item |-> IF i \in kept THEN next ELSE IF i \in items THEN 0 ELSE text[i]]
  BY DEF ReplaceDocument
<1>4. LibraryOK'
  <2> HIDE DEF next
  <2>1. text' \in [Item -> 0..MaxVersion]
    BY <1>1, <1>2, <1>3, Bounds
  <2> QED BY <2>1 DEF TablesInv, LibraryOK, ReplaceDocument
<1>5. RowsOK'
  <2>1. rows' = [i \in Item |-> IF i \in items THEN NoRow ELSE rows[i]]
    BY DEF ReplaceDocument
  <2> QED BY <2>1 DEF TablesInv, RowsOK
<1> QED BY <1>4, <1>5, DisturbingStep DEF ReplaceDocument

(* What a step of one backfill that leaves the tables alone has to show.   *)
LEMMA OwnStep ==
  ASSUME TablesInv, NEW p \in Workers, NEW w \in {NoWork} \cup Work,
         worker' = [worker EXCEPT ![p] = w], UNCHANGED <<text, translated, rows>>,
         w.pc = "check" /\ w.calm => OnCourse(w)
  PROVE  WorkersOK' /\ CalmWorkers' /\ RowsOK'
<1>1. WorkersOK'
  BY DEF TablesInv, WorkersOK
<1>2. \A q \in Workers : worker'[q] = IF q = p THEN w ELSE worker[q]
  BY DEF TablesInv, WorkersOK
<1>4. ASSUME NEW q \in Workers, worker'[q].pc = "check", worker'[q].calm
      PROVE  OnCourse(worker[q])'
  <2>1. OnCourse(worker'[q])
    BY <1>2, <1>4 DEF TablesInv, CalmWorkers
  <2> QED BY <2>1 DEF OnCourse, Current, Entered, UpToDate, Candidates, BlockCandidates,
                      ChunkCandidates
<1>5. RowsOK'
  BY DEF TablesInv, RowsOK
<1> QED BY <1>1, <1>4, <1>5 DEF CalmWorkers

(* Claims about rows and texts hold on while those stay as they are.       *)
LEMMA SettledStays ==
  ASSUME SettledOK, UNCHANGED <<text, translated, rows, settled>>
  PROVE  SettledOK'
BY DEF SettledOK, UpToDate, Candidates, BlockCandidates, ChunkCandidates

(* A backfill begins with the present texts of all its candidates.         *)
LEMMA BeginStep ==
  ASSUME TablesInv, NEW p \in Workers, NEW kind \in Kinds, NEW scope \in Docs,
         NEW model \in Models, Begin(p, kind, scope, model)
  PROVE  TablesInv'
<1> DEFINE found == Sorted(Candidates(kind, scope))
           todo == [k \in DOMAIN found |-> [item |-> found[k], v |-> text[found[k]]]]
           w == [pc |-> "check", kind |-> kind, scope |-> scope, model |-> model,
                 calm |-> TRUE, todo |-> todo, needs |-> <<>>]
<1>1. /\ found \in Seq(Candidates(kind, scope))
      /\ \A i \in Candidates(kind, scope) : \E n \in DOMAIN found : found[n] = i
  BY CandidatesExist, SortedItems
<1>2. text \in [Item -> 0..MaxVersion] /\ begun \in 0..MaxBackfills
  BY DEF TablesInv, LibraryOK
<1>3. worker' = [worker EXCEPT ![p] = w] /\ begun < MaxBackfills /\ begun' = begun + 1
      /\ UNCHANGED <<text, translated, rows, settled, ask>>
  BY DEF Begin
<1> HIDE DEF found
<1>4. \A k \in DOMAIN found : todo[k] \in Entry /\ todo[k].item = found[k]
                               /\ todo[k].v = text[found[k]]
  <2> TAKE k \in DOMAIN found
  <2>1. found[k] \in Candidates(kind, scope)
    BY <1>1
  <2>2. found[k] \in Item /\ text[found[k]] > 0
    BY <2>1, CandidatesExist
  <2>3. text[found[k]] \in 1..MaxVersion
    BY <1>2, <2>2, Bounds
  <2> QED BY <2>2, <2>3 DEF Entry
<1>5. todo \in Seq(Entry) /\ DOMAIN todo = DOMAIN found
  <2>1. Len(found) \in Nat /\ DOMAIN found = 1..Len(found)
    BY <1>1
  <2>2. \A k \in 1..Len(found) : todo[k] \in Entry
    BY <1>4, <2>1
  <2>3. todo = [k \in 1..Len(found) |-> todo[k]]
    BY <2>1
  <2> HIDE DEF todo
  <2>4. DOMAIN todo = DOMAIN found
    BY <2>1, <2>3
  <2> QED BY <2>1, <2>2, <2>3, <2>4
<1> HIDE DEF todo
<1>6. w \in Work /\ w.todo = todo /\ w.needs = <<>> /\ w.kind = kind /\ w.scope = scope
  <2>1. <<>> \in Seq(Entry)
    OBVIOUS
  <2> QED BY <1>5, <2>1 DEF Work
<1> HIDE DEF w
<1>7. OnCourse(w)
  <2>1. Current(w.todo) /\ Current(w.needs)
    BY <1>4, <1>5, <1>6 DEF Current
  <2>2. \A i \in Candidates(kind, scope) : Entered(w.todo, i)
    BY <1>1, <1>4, <1>5, <1>6 DEF Entered
  <2> QED BY <1>6, <2>1, <2>2 DEF OnCourse
<1>8. WorkersOK' /\ CalmWorkers' /\ RowsOK'
  BY <1>3, <1>6, <1>7, OwnStep
<1>9. LibraryOK'
  BY <1>2, <1>3, Bounds DEF TablesInv, LibraryOK
<1>10. SettledOK'
  BY <1>3, SettledStays DEF TablesInv
<1> QED BY <1>8, <1>9, <1>10 DEF TablesInv

(* A candidate is done with when its row is up to date, or is put on the   *)
(* list of those to encode.                                                *)
LEMMA CheckStep ==
  ASSUME TablesInv, NEW p \in Workers, Check(p)
  PROVE  TablesInv'
<1> DEFINE u == worker[p]
           c == Head(u.todo)
           rest == Tail(u.todo)
           v == [u EXCEPT !.todo = rest]
           more == Append(u.needs, c)
           w == IF UpToDate(c.item, c.v, v.model) THEN v ELSE [v EXCEPT !.needs = more]
<1>1. u \in Work /\ u.todo \in Seq(Entry) /\ u.needs \in Seq(Entry) /\ u.todo # <<>>
      /\ u.model \in Models /\ u.kind \in Kinds /\ u.scope \in Docs
  BY WorkOrIdle DEF TablesInv, Check
<1>2. worker' = [worker EXCEPT ![p] = w] /\ UNCHANGED <<text, translated, rows, begun, settled, ask>>
  BY DEF Check
<1> HIDE DEF u
<1>3. /\ c \in Entry /\ rest \in Seq(Entry) /\ more \in Seq(Entry)
      /\ 1 \in DOMAIN u.todo /\ c = u.todo[1]
      /\ \A n \in DOMAIN rest : n + 1 \in DOMAIN u.todo /\ rest[n] = u.todo[n + 1]
      /\ \A n \in DOMAIN u.todo : n = 1 \/ (n - 1 \in DOMAIN rest /\ rest[n - 1] = u.todo[n])
      /\ \A n \in DOMAIN u.needs : n \in DOMAIN more /\ more[n] = u.needs[n]
      /\ \A n \in DOMAIN more : more[n] = c \/ (n \in DOMAIN u.needs /\ more[n] = u.needs[n])
      /\ \E n \in DOMAIN more : more[n] = c
  <2>1. Len(u.todo) \in Nat /\ Len(u.todo) > 0 /\ DOMAIN u.todo = 1..Len(u.todo)
        /\ Len(u.needs) \in Nat /\ DOMAIN u.needs = 1..Len(u.needs)
    BY <1>1
  <2>2. c \in Entry /\ c = u.todo[1] /\ rest \in Seq(Entry) /\ Len(rest) = Len(u.todo) - 1
        /\ DOMAIN rest = 1..(Len(u.todo) - 1)
        /\ \A n \in 1..(Len(u.todo) - 1) : rest[n] = u.todo[n + 1]
    BY <1>1, <2>1
  <2>3. more \in Seq(Entry) /\ Len(more) = Len(u.needs) + 1 /\ DOMAIN more = 1..(Len(u.needs) + 1)
        /\ more[Len(u.needs) + 1] = c
        /\ \A n \in 1..Len(u.needs) : more[n] = u.needs[n]
    BY <1>1, <2>2
  <2> HIDE DEF c, rest, more
  <2>4. \A n \in DOMAIN u.todo : n = 1 \/ (n - 1 \in DOMAIN rest /\ rest[n - 1] = u.todo[n])
    <3> TAKE n \in DOMAIN u.todo
    <3>1. n = 1 \/ n - 1 \in 1..(Len(u.todo) - 1)
      BY <2>1
    <3>2. n - 1 + 1 = n
      BY <2>1
    <3> QED BY <2>2, <3>1, <3>2
  <2>5. \A n \in DOMAIN rest : n + 1 \in DOMAIN u.todo /\ rest[n] = u.todo[n + 1]
    BY <2>1, <2>2
  <2>6. \A n \in DOMAIN u.needs : n \in DOMAIN more /\ more[n] = u.needs[n]
    BY <2>1, <2>3
  <2>7. \A n \in DOMAIN more : more[n] = c \/ (n \in DOMAIN u.needs /\ more[n] = u.needs[n])
    BY <2>1, <2>3
  <2>8. 1 \in DOMAIN u.todo /\ \E n \in DOMAIN more : more[n] = c
    BY <2>1, <2>3
  <2> QED BY <2>2, <2>3, <2>4, <2>5, <2>6, <2>7, <2>8
<1> HIDE DEF c, rest, more
<1>4. /\ v \in Work /\ w \in Work /\ v.model = u.model /\ w.model = u.model
      /\ w.kind = u.kind /\ w.scope = u.scope /\ w.calm = u.calm /\ w.todo = rest
      /\ w.needs = IF UpToDate(c.item, c.v, u.model) THEN u.needs ELSE more
  BY <1>1, <1>3 DEF Work
<1> HIDE DEF v, w
<1>5. ASSUME w.calm PROVE OnCourse(w)
  <2>1. OnCourse(u)
    BY <1>1, <1>4, <1>5, WorkOrIdle DEF TablesInv, CalmWorkers, u
  <2>2. Current(w.todo)
    BY <2>1, <1>3, <1>4 DEF OnCourse, Current
  <2>3. Current(u.needs) /\ Current(more) /\ c.v = text[c.item]
    BY <2>1, <1>3 DEF OnCourse, Current
  <2>4. Current(w.needs)
    BY <2>3, <1>4
  <2>5. ASSUME NEW i \in Candidates(u.kind, u.scope)
        PROVE  UpToDate(i, text[i], u.model) \/ Entered(w.todo, i) \/ Entered(w.needs, i)
    <3>1. UpToDate(i, text[i], u.model) \/ Entered(u.todo, i) \/ Entered(u.needs, i)
      BY <2>1, <2>5 DEF OnCourse
    <3>2. CASE Entered(u.needs, i)
      BY <3>2, <1>3, <1>4 DEF Entered
    <3>3. CASE Entered(u.todo, i)
      <4>1. c.item = i \/ Entered(rest, i)
        BY <3>3, <1>3 DEF Entered
      <4>2. CASE c.item = i
        BY <4>2, <2>3, <1>3, <1>4 DEF Entered
      <4> QED BY <4>1, <4>2, <1>4
    <3> QED BY <3>1, <3>2, <3>3
  <2> QED BY <2>2, <2>4, <2>5, <1>4 DEF OnCourse
<1>6. WorkersOK' /\ CalmWorkers' /\ RowsOK'
  BY <1>2, <1>4, <1>5, OwnStep
<1>7. LibraryOK'
  BY <1>2 DEF TablesInv, LibraryOK
<1>8. SettledOK'
  BY <1>2, SettledStays DEF TablesInv
<1> QED BY <1>6, <1>7, <1>8 DEF TablesInv

(* A backfill that ran calm and has nothing left has brought every         *)
(* candidate up to date.                                                   *)
LEMMA FinishStep ==
  ASSUME TablesInv, NEW p \in Workers, Finish(p)
  PROVE  TablesInv'
<1>1. /\ worker[p].pc = "check" /\ worker[p].todo = <<>> /\ worker[p].needs = <<>>
      /\ worker' = [worker EXCEPT ![p] = NoWork]
      /\ settled' = IF worker[p].calm
                      THEN [kind |-> worker[p].kind, scope |-> worker[p].scope,
                            model |-> worker[p].model]
                      ELSE settled
      /\ UNCHANGED <<text, translated, rows, begun, ask>>
  BY DEF Finish
<1>2. WorkersOK' /\ CalmWorkers' /\ RowsOK'
  BY <1>1, OwnStep DEF NoWork
<1>3. LibraryOK'
  BY <1>1 DEF TablesInv, LibraryOK
<1>4. SettledOK'
  <2>1. CASE worker[p].calm
    <3>1. OnCourse(worker[p])
      BY <1>1, <2>1 DEF TablesInv, CalmWorkers
    <3>2. \A i \in Candidates(worker[p].kind, worker[p].scope) :
            UpToDate(i, text[i], worker[p].model)
      BY <3>1, <1>1 DEF OnCourse, Entered
    <3>3. /\ settled'.kind = worker[p].kind /\ settled'.scope = worker[p].scope
          /\ settled'.model = worker[p].model /\ worker[p].kind \in Kinds
      BY <1>1, <2>1, WorkOrIdle DEF TablesInv
    <3> QED BY <3>2, <3>3, <1>1
            DEF SettledOK, UpToDate, Candidates, BlockCandidates, ChunkCandidates
  <2>2. CASE ~worker[p].calm
    BY <1>1, <2>2, SettledStays DEF TablesInv
  <2> QED BY <2>1, <2>2
<1> QED BY <1>2, <1>3, <1>4 DEF TablesInv

(* A backfill that is killed claims nothing.                               *)
LEMMA StopBackfillStep ==
  ASSUME TablesInv, NEW p \in Workers, StopBackfill(p)
  PROVE  TablesInv'
<1>1. WorkersOK' /\ CalmWorkers' /\ RowsOK'
  BY OwnStep DEF NoWork, StopBackfill
<1>2. LibraryOK'
  BY DEF TablesInv, LibraryOK, StopBackfill
<1>3. SettledOK'
  BY SettledStays DEF TablesInv, StopBackfill
<1> QED BY <1>1, <1>2, <1>3 DEF TablesInv

(* A batch gives each of its items the vector of the text that was read,   *)
(* or breaks a foreign key and ends the backfill.                          *)
LEMMA WriteBatchStep ==
  ASSUME TablesInv, NEW p \in Workers, WriteBatch(p)
  PROVE  TablesInv'
<1> DEFINE u == worker[p]
           batch == Batch(p)
           vecs == Encode(batch)
           hashes == Hashes(batch)
           Row(k) == [model |-> worker[p].model, of |-> vecs[k], hash |-> hashes[k]]
           rest == SubSeq(u.needs, Len(batch) + 1, Len(u.needs))
           At(i) == CHOOSE k \in DOMAIN batch : batch[k].item = i
           left == [u EXCEPT !.needs = rest]
<1>1. /\ u \in Work /\ u.needs \in Seq(Entry) /\ u.todo = <<>> /\ u.model \in Models
      /\ u.kind \in Kinds /\ u.scope \in Docs
  BY WorkOrIdle DEF TablesInv, WriteBatch
<1>2. /\ batch \in Seq(Entry) /\ rest \in Seq(Entry)
      /\ \A n \in DOMAIN batch : n \in DOMAIN u.needs /\ batch[n] = u.needs[n]
      /\ \A n \in DOMAIN rest : \E m \in DOMAIN u.needs : rest[n] = u.needs[m]
      /\ \A n \in DOMAIN u.needs : (\E m \in DOMAIN batch : batch[m] = u.needs[n])
                                   \/ (\E m \in DOMAIN rest : rest[m] = u.needs[n])
  <2> DEFINE b == Min({BatchSize, Len(u.needs)})
  <2>1. b \in Nat /\ b <= Len(u.needs)
    <3>1. Len(u.needs) \in Nat /\ BatchSize \in Nat
      BY <1>1, Bounds
    <3> HIDE DEF u
    <3>2. b \in {BatchSize, Len(u.needs)} /\ b <= Len(u.needs)
      BY <3>1, MinOfTwo
    <3> HIDE DEF b
    <3> QED BY <3>1, <3>2
  <2>2. batch = SubSeq(u.needs, 1, b)
    BY DEF Batch
  <2>3. rest = SubSeq(u.needs, Len(batch) + 1, Len(u.needs))
    OBVIOUS
  <2> HIDE DEF u, batch, rest, b
  <2>4. Len(batch) = b
    BY <1>1, <2>1, <2>2, SplitSequence
  <2>5. rest = SubSeq(u.needs, b + 1, Len(u.needs))
    BY <2>3, <2>4
  <2> QED BY <1>1, <2>1, <2>2, <2>5, SplitSequence
<1>3. /\ settled' = Unsettled /\ UNCHANGED <<text, translated, begun, ask>>
      /\ \/ /\ rows' = [i \in Item |-> IF \E k \in DOMAIN batch : batch[k].item = i
                                         THEN Row(At(i)) ELSE rows[i]]
            /\ worker' = [Disturb(Workers \ {p}) EXCEPT ![p].needs =
                            SubSeq(@, Len(batch) + 1, Len(@))]
         \/ /\ rows' = rows
            /\ worker' = [worker EXCEPT ![p] = NoWork]
  BY DEF WriteBatch
<1>4. ASSUME NEW k \in DOMAIN batch
      PROVE  /\ Row(k) \in EmbeddingRow /\ Row(k) # NoRow
             /\ batch[k] \in Entry /\ batch[k].item \in Item
             /\ Row(k).model = u.model /\ Row(k).of = <<batch[k].item, batch[k].v>>
             /\ Row(k).hash = Hash(batch[k].item, batch[k].v)
  <2>1. batch[k] \in Entry
    BY <1>2
  <2>2. batch[k].item \in Item /\ batch[k].v \in 1..MaxVersion
    BY <2>1 DEF Entry
  <2>3. vecs[k] = <<batch[k].item, batch[k].v>> /\ hashes[k] = Hash(batch[k].item, batch[k].v)
    BY DEF Encode, Hashes
  <2>4. vecs[k] \in Vector /\ hashes[k] \in Item \X (1..MaxVersion) \X BOOLEAN
    BY <2>2, <2>3, Bounds DEF Vector, Hash
  <2> HIDE DEF batch, vecs, hashes
  <2>5. Row(k) \in EmbeddingRow
    BY <2>4, <1>1 DEF EmbeddingRow
  <2>6. Row(k).model # NoClient
    BY <1>1, Bounds
  <2>7. Row(k) # NoRow
    BY <2>6 DEF NoRow
  <2> QED BY <2>1, <2>2, <2>3, <2>5, <2>7
<1>5. \A i \in Item : (\E k \in DOMAIN batch : batch[k].item = i) =>
                        At(i) \in DOMAIN batch /\ batch[At(i)].item = i
  OBVIOUS
<1> HIDE DEF u, batch, Row, At
<1>6. CASE /\ rows' = [i \in Item |-> IF \E k \in DOMAIN batch : batch[k].item = i
                                        THEN Row(At(i)) ELSE rows[i]]
           /\ worker' = [Disturb(Workers \ {p}) EXCEPT ![p].needs =
                           SubSeq(@, Len(batch) + 1, Len(@))]
  <2>1. ASSUME NEW i \in Item
        PROVE  \/ /\ \E k \in DOMAIN batch : batch[k].item = i
                  /\ rows'[i] = Row(At(i)) /\ At(i) \in DOMAIN batch /\ batch[At(i)].item = i
               \/ /\ ~\E k \in DOMAIN batch : batch[k].item = i
                  /\ rows'[i] = rows[i]
    BY <1>5, <1>6
  <2>2. RowsOK'
    <3>1. ASSUME NEW i \in Item
          PROVE  /\ rows'[i] \in {NoRow} \cup EmbeddingRow
                 /\ rows'[i] # NoRow =>
                      /\ rows'[i] \in EmbeddingRow
                      /\ rows'[i].of[1] = i /\ rows'[i].hash = Hash(i, rows'[i].of[2])
      <4>1. CASE /\ rows'[i] = Row(At(i)) /\ At(i) \in DOMAIN batch /\ batch[At(i)].item = i
        <5>1. rows'[i].of = <<i, batch[At(i)].v>>
          BY <4>1, <1>4
        <5> QED BY <4>1, <5>1, <1>4
      <4>2. CASE rows'[i] = rows[i]
        BY <4>2 DEF TablesInv, RowsOK
      <4> QED BY <2>1, <4>1, <4>2
    <3> QED BY <3>1, <1>6 DEF RowsOK, Hash
  <2>3. /\ Disturb(Workers \ {p}) \in [Workers -> {NoWork} \cup Work]
        /\ Disturb(Workers \ {p})[p] = u
        /\ \A q \in Workers \ {p} : ~(Disturb(Workers \ {p})[q].pc = "check"
                                      /\ Disturb(Workers \ {p})[q].calm)
    BY Disturbed DEF TablesInv, u
  <2>4. worker' = [Disturb(Workers \ {p}) EXCEPT ![p] = left]
    BY <1>6, <2>3
  <2>5. left \in Work /\ left.needs = rest /\ left.todo = <<>> /\ left.kind = u.kind
        /\ left.scope = u.scope /\ left.model = u.model /\ left.calm = u.calm
    BY <1>1, <1>2 DEF Work
  <2>10. PICK l : l = left
    OBVIOUS
  <2> HIDE DEF left, rest
  <2>6. WorkersOK'
    BY <2>3, <2>4, <2>5 DEF WorkersOK
  <2>7. ASSUME u.calm PROVE OnCourse(l)'
    <3>1. OnCourse(u)
      BY <2>7, <1>1, WorkOrIdle DEF TablesInv, CalmWorkers, u
    <3>2. Current(rest)
      BY <3>1, <1>2 DEF OnCourse, Current
    <3>3. \A k \in DOMAIN batch : batch[k].v = text[batch[k].item]
      BY <3>1, <1>2 DEF OnCourse, Current
    <3>4. ASSUME NEW i \in Candidates(u.kind, u.scope)
          PROVE  UpToDate(i, text[i], l.model)' \/ Entered(l.needs, i)
      <4>1. i \in Item
        BY CandidatesExist
      <4>2. CASE \E k \in DOMAIN batch : batch[k].item = i
        <5>1. rows'[i] = Row(At(i)) /\ At(i) \in DOMAIN batch /\ batch[At(i)].item = i
          BY <4>1, <4>2, <2>1
        <5>2. rows'[i] # NoRow /\ rows'[i].hash = Hash(i, text[i]) /\ rows'[i].model = u.model
          BY <5>1, <1>4, <3>3
        <5> QED BY <5>2, <1>3, <2>5, <2>10 DEF UpToDate, Hash
      <4>3. CASE ~\E k \in DOMAIN batch : batch[k].item = i
        <5>1. rows'[i] = rows[i]
          BY <4>1, <4>3, <2>1
        <5>2. UpToDate(i, text[i], u.model) \/ Entered(u.needs, i)
          BY <3>1, <1>1 DEF OnCourse, Entered
        <5>3. CASE UpToDate(i, text[i], u.model)
          BY <5>1, <5>3, <1>3, <2>5, <2>10 DEF UpToDate, Hash
        <5>4. CASE Entered(u.needs, i)
          BY <5>4, <4>3, <1>2, <2>5, <2>10 DEF Entered
        <5> QED BY <5>2, <5>3, <5>4
      <4> QED BY <4>2, <4>3
    <3>5. Current(l.todo) /\ Current(l.needs)
      BY <3>2, <2>5, <2>10 DEF Current
    <3>6. Current(l.todo)' /\ Current(l.needs)'
      BY <3>5, <1>3 DEF Current
    <3>7. Candidates(l.kind, l.scope)' = Candidates(u.kind, u.scope)
      BY <1>3, <2>5, <2>10 DEF Candidates, BlockCandidates, ChunkCandidates, InScope
    <3>8. \A i \in Candidates(u.kind, u.scope) :
            UpToDate(i, text[i], l.model)' \/ Entered(l.needs, i)
      BY <3>4
    <3> QED BY <3>6, <3>7, <3>8 DEF OnCourse, Entered
  <2>8. CalmWorkers'
    <3>1. ASSUME NEW q \in Workers, worker'[q].pc = "check", worker'[q].calm
          PROVE  OnCourse(worker[q])'
      <4>1. q = p /\ worker'[q] = l
        BY <3>1, <2>3, <2>4, <2>10
      <4>2. OnCourse(l)'
        BY <3>1, <4>1, <2>5, <2>7, <2>10
      <4> QED BY <4>1, <4>2 DEF OnCourse, Current, Entered, UpToDate, Candidates,
                                BlockCandidates, ChunkCandidates
    <3> QED BY <3>1 DEF CalmWorkers
  <2>9. LibraryOK' /\ SettledOK'
    BY <1>3 DEF TablesInv, LibraryOK, SettledOK
  <2> QED BY <2>2, <2>6, <2>8, <2>9 DEF TablesInv
<1>7. CASE rows' = rows /\ worker' = [worker EXCEPT ![p] = NoWork]
  <2>1. WorkersOK' /\ CalmWorkers' /\ RowsOK'
    BY <1>3, <1>7, OwnStep DEF NoWork
  <2>2. LibraryOK' /\ SettledOK'
    BY <1>3 DEF TablesInv, LibraryOK, SettledOK
  <2> QED BY <2>1, <2>2 DEF TablesInv
<1> QED BY <1>3, <1>6, <1>7

-------------------------------------------------------------------------------
(* The invariant of the tables.                                            *)

(* Initially there are no rows and no backfills.                           *)
LEMMA TablesInit ==
  ASSUME Init
  PROVE  TablesInv
<1>1. RowsOK
  BY DEF Init, RowsOK
<1>2. WorkersOK
  BY DEF Init, WorkersOK
<1>3. CalmWorkers
  BY DEF Init, CalmWorkers, NoWork
<1>4. SettledOK
  BY DEF Init, SettledOK
<1>5. LibraryOK
  <2>1. 1 \in 0..MaxVersion
    BY Bounds
  <2> QED BY <2>1, Bounds DEF Init, LibraryOK
<1> QED BY <1>1, <1>2, <1>3, <1>4, <1>5 DEF TablesInv

(* The steps of Next: the library, a request, or a backfill.               *)
LEMMA TablesKept ==
  ASSUME TablesInv, UNCHANGED tables
  PROVE  TablesInv'
<1>1. LibraryOK' /\ RowsOK' /\ WorkersOK'
  BY DEF TablesInv, LibraryOK, RowsOK, WorkersOK, tables
<1>2. CalmWorkers'
  BY DEF TablesInv, CalmWorkers, OnCourse, Current, Entered, UpToDate, Candidates,
         BlockCandidates, ChunkCandidates, tables
<1>3. SettledOK'
  BY SettledStays DEF TablesInv, tables
<1> QED BY <1>1, <1>2, <1>3 DEF TablesInv

(* A chat request only reads the tables.                                   *)
LEMMA RequestKeepsTables ==
  ASSUME Request
  PROVE  UNCHANGED tables
BY DEF Request, BeginAsk, WindowContext, PlainSection, ReadSection, LoadSectionRows, TopKSection,
       FindQuery, LoadRefRows, ChunkRefs, BlockRefs, EndAsk, AskOnly, tables

(* Every step keeps the invariant of the tables.                           *)
LEMMA TablesStep ==
  ASSUME TablesInv, [Next]_vars
  PROVE  TablesInv'
<1>1. CASE Library
  BY <1>1, TranslateStep, ReplaceDocumentStep DEF Library
<1>2. CASE Request
  BY <1>2, RequestKeepsTables, TablesKept
<1>3. CASE \E p \in Workers : Backfill(p)
  <2>1. PICK p \in Workers : Backfill(p)
    BY <1>3
  <2>2. CASE \E scope \in Scopes, m \in Models :
               \/ scope[1] = "block" /\ BackfillBlocks(p, scope[2], m)
               \/ scope[1] = "chunk" /\ BackfillChunks(p, scope[2], m)
    <3>1. PICK scope \in Scopes, m \in Models :
               \/ scope[1] = "block" /\ BackfillBlocks(p, scope[2], m)
               \/ scope[1] = "chunk" /\ BackfillChunks(p, scope[2], m)
      BY <2>2
    <3>2. scope[2] \in Docs
      BY ConstantsAssumption DEF Docs
    <3>3. PICK kind \in Kinds : Begin(p, kind, scope[2], m)
      BY <3>1 DEF BackfillBlocks, BackfillChunks, Kinds
    <3> QED BY <3>2, <3>3, BeginStep
  <2>3. CASE Check(p)
    BY <2>3, CheckStep
  <2>4. CASE WriteBatch(p)
    BY <2>4, WriteBatchStep
  <2>5. CASE Finish(p)
    BY <2>5, FinishStep
  <2>6. CASE StopBackfill(p)
    BY <2>6, StopBackfillStep
  <2> QED BY <2>1, <2>2, <2>3, <2>4, <2>5, <2>6 DEF Backfill
<1>4. CASE UNCHANGED vars
  BY <1>4, TablesKept DEF vars, tables
<1> QED BY <1>1, <1>2, <1>3, <1>4 DEF Next

(* A backfill that ends undisturbed has served all of its candidates.      *)
LEMMA TablesServeAll ==
  ASSUME TablesInv
  PROVE  SettledServesAll
<1> DEFINE kind == settled.kind
           candidates == Candidates(kind, settled.scope)
           items == RowItems(kind)
           leftover == items \ candidates
<1> SUFFICES ASSUME settled # Unsettled
             PROVE  /\ \A i \in candidates : rows[i].model = settled.model
                                             /\ rows[i].of = <<i, text[i]>>
                    /\ (settled.scope = AllDocs /\ Cardinality(leftover) < Cardinality(candidates))
                         => candidates \subseteq ToSet(Load(kind).ids)
  BY DEF SettledServesAll
<1>1. /\ kind \in Kinds /\ candidates \in SUBSET Item
      /\ \A i \in candidates : UpToDate(i, text[i], settled.model)
  BY CandidatesExist DEF TablesInv, SettledOK
<1>2. ASSUME NEW i \in candidates
      PROVE  /\ i \in Item /\ rows[i] # NoRow /\ rows[i].model = settled.model
             /\ rows[i].model \in Models /\ rows[i].of = <<i, text[i]>>
  <2>1. i \in Item /\ UpToDate(i, text[i], settled.model)
    BY <1>1
  <2>2. /\ rows[i] \in EmbeddingRow /\ rows[i].of[1] = i /\ rows[i].hash = Hash(i, rows[i].of[2])
        /\ rows[i].hash = Hash(i, text[i]) /\ rows[i].model = settled.model /\ rows[i] # NoRow
    BY <2>1 DEF UpToDate, TablesInv, RowsOK
  <2>3. rows[i].of[2] = text[i]
    BY <2>2 DEF Hash
  <2>4. rows[i].of \in Vector /\ rows[i].model \in Models
    BY <2>2 DEF EmbeddingRow
  <2> QED BY <2>1, <2>2, <2>3, <2>4 DEF Vector
<1>3. ASSUME settled.scope = AllDocs, Cardinality(leftover) < Cardinality(candidates)
      PROVE  candidates \subseteq ToSet(Load(kind).ids)
  <2> DEFINE mine == RowsOf(items, settled.model)
             most == RowsOf(items, Majority(items))
  <2>1. candidates \subseteq items
    <3>1. \A i \in candidates : Shelf[i].kind = kind
      BY <1>1 DEF Candidates, BlockCandidates, ChunkCandidates, Kinds
    <3> QED BY <1>2, <3>1 DEF RowItems
  <2>2. /\ items \in SUBSET Item /\ leftover \in SUBSET Item /\ mine \in SUBSET Item
        /\ most \in SUBSET Item /\ \A i \in items : rows[i].model \in Models
    BY DEF RowItems, RowsOf, TablesInv, RowsOK, EmbeddingRow
  <2>3. candidates \subseteq mine
    BY <1>2, <2>1 DEF RowsOf
  <2>4. Majority(items) # settled.model => most \subseteq leftover
    BY <1>2 DEF RowsOf
  <2> HIDE DEF candidates, leftover, mine, most, items, kind
  <2>5. /\ Cardinality(candidates) \in Nat /\ Cardinality(leftover) \in Nat
        /\ Cardinality(mine) \in Nat /\ Cardinality(most) \in Nat
        /\ IsFiniteSet(mine) /\ IsFiniteSet(leftover)
    BY <1>1, <2>2, Items
  <2>6. Cardinality(candidates) <= Cardinality(mine)
        /\ (Majority(items) # settled.model => Cardinality(most) <= Cardinality(leftover))
    BY <2>3, <2>4, <2>5, FS_Subset
  <2>7. PICK i \in candidates : TRUE
    <3>1. candidates # {}
      BY <1>3, <2>5, FS_EmptySet
    <3> QED BY <3>1
  <2>8. items # {} /\ settled.model \in Models
    BY <1>2, <2>1, <2>7 DEF candidates
  <2>9. Cardinality(mine) <= Cardinality(most)
    BY <2>2, <2>8, MajorityIsMost DEF mine, most
  <2>10. Majority(items) = settled.model
    BY <1>3, <2>5, <2>6, <2>9
  <2>11. Load(kind).ids = Sorted(mine)
    BY <2>8, <2>10 DEF Load, mine, items
  <2>12. \A j \in mine : \E n \in DOMAIN Sorted(mine) : Sorted(mine)[n] = j
    BY <2>2, SortedItems
  <2> QED BY <2>3, <2>11, <2>12 DEF ToSet
<1> QED BY <1>2, <1>3

(* Each candidate of the last undisturbed backfill has the vector of its   *)
(* present text, and a search over every document reads all of them: the   *)
(* skip of unchanged hashes leaves nothing stale behind and load_all keeps *)
(* the encoder of most rows (backfill.py:1-12, store.py:83-93).            *)
THEOREM ServesAll == Spec => []SettledServesAll
<1>1. Init => TablesInv
  BY TablesInit
<1>2. TablesInv /\ [Next]_vars => TablesInv'
  BY TablesStep
<1>3. TablesInv => SettledServesAll
  BY TablesServeAll
<1> QED BY <1>1, <1>2, <1>3, PTL DEF Spec

-------------------------------------------------------------------------------
(* A chat request.  What is known of it concerns the request alone: the    *)
(* tables and the texts may have changed since it read them.               *)

Clients == Models \cup {NoClient}
Table == [ids : Seq(Item), model : Clients, matrix : Seq(Vector)]
Query == [of : Vector, model : Clients]

Asking == [pc : {"window", "plain", "section", "sectionRows", "sectionHits", "refs", "refRows",
                 "refHits", "done", "failed"},
           anchor : Item, v : 1..MaxVersion, section : BOOLEAN, client : Clients,
           read : Seq(Item), table : {<<>>} \cup Table, context : Seq(Item),
           query : {<<>>} \cup Query, hits : Seq(Hit)]

ForeignTo(a) == {i \in Item : Shelf[i].doc # Shelf[a].doc}

(* A part of the section that fits the budget, or the heading alone; the   *)
(* whole section when it fits.                                             *)
Fits(c, s, h) ==
  /\ Increasing(s) /\ Listed(s, h)
  /\ Within(c, s, h) /\ (Size(c) <= Budget \/ c = <<h>>)
  /\ Size(SectionRange(s, h)) <= Budget => c = SectionRange(s, h)

(* What the steps up to r.pc have established.                             *)
Sound(r) ==
  /\ r \in Asking
  /\ r.pc = "window" => ~r.section
  /\ r.pc \in {"plain", "section", "sectionRows", "sectionHits"} => r.section
  /\ r.pc \in {"sectionRows", "sectionHits"} =>
       /\ Increasing(r.read) /\ Listed(r.read, r.anchor)
       /\ ~(Size(SectionRange(r.read, r.anchor)) <= Budget)
  /\ r.pc \in {"sectionHits", "refHits"} => r.table \in Table /\ Aligned(r.table)
  /\ (r.pc \in {"refs", "refRows", "refHits", "done"} /\ r.section) =>
       Fits(r.context, r.read, r.anchor)
  /\ r.pc \in {"refRows", "refHits", "done"} => r.query = <<>> \/ r.query.of = <<r.anchor, r.v>>
  /\ r.pc \notin {"refRows", "refHits", "done", "failed"} => r.query = <<>>
  /\ IF r.pc = "done" THEN HitList(r.hits, ForeignTo(r.anchor)) ELSE r.hits = <<>>

AskOK == ask # NoAsk => Sound(ask)

(* The chunks of a document in order, among them each one that exists.     *)
LEMMA DocChunksListed ==
  ASSUME NEW i \in Item, text[i] > 0
  PROVE  /\ DocChunks(Shelf[i].doc) \in Seq(Item) /\ Increasing(DocChunks(Shelf[i].doc))
         /\ Listed(DocChunks(Shelf[i].doc), i)
<1> DEFINE S == {j \in Item : Shelf[j].doc = Shelf[i].doc /\ text[j] > 0}
<1>1. S \in SUBSET Item /\ i \in S /\ DocChunks(Shelf[i].doc) = Sorted(S)
  BY DEF DocChunks
<1> HIDE DEF S
<1> QED BY <1>1, SortedItems DEF Listed

(* A loaded table has the fields that a request keeps.                     *)
LEMMA LoadTable ==
  ASSUME RowsOK, NEW kind
  PROVE  Load(kind) \in Table /\ Aligned(Load(kind))
<1> DEFINE items == RowItems(kind)
           model == IF items = {} THEN NoClient ELSE Majority(items)
           ids == Sorted(RowsOf(items, model))
<1>1. Load(kind) = [ids |-> ids, model |-> model, matrix |-> [k \in DOMAIN ids |-> rows[ids[k]].of]]
  BY DEF Load
<1>2. items \in SUBSET Item /\ \A i \in items : rows[i].model \in Models
  BY DEF RowItems, RowsOK, EmbeddingRow
<1> HIDE DEF items
<1>3. model \in Clients
  BY <1>2, MajorityIsMost DEF Clients
<1>4. Aligned(Load(kind))
  BY LoadAligned
<1> HIDE DEF ids, model
<1>5. ids \in Seq(Item) /\ \A k \in DOMAIN ids : rows[ids[k]].of \in Vector
  BY <1>1, <1>4 DEF Aligned
<1>6. [k \in DOMAIN ids |-> rows[ids[k]].of] \in Seq(Vector)
  <2>1. DOMAIN ids = 1..Len(ids) /\ Len(ids) \in Nat
    BY <1>5
  <2> QED BY <2>1, <1>5
<1> QED BY <1>1, <1>3, <1>4, <1>5, <1>6 DEF Table

(* A window is a part of the list it is cut from.                          *)
LEMMA WindowOfItems ==
  ASSUME NEW s \in Seq(Item), NEW i, Listed(s, i)
  PROVE  Window(s, i) \in Seq(Item)
<1> DEFINE a == Position(s, i)
           first == IF a > Radius THEN a - Radius ELSE 1
           last == Min({Len(s), a + Radius})
<1>1. a \in 1..Len(s) /\ Len(s) \in Nat /\ a \in Nat /\ Radius \in Nat /\ a + Radius \in Nat
  BY PositionOf, Bounds
<1>2. Window(s, i) = SubSeq(s, first, last)
  BY DEF Window
<1> HIDE DEF a
<1>3. last \in Nat /\ last <= Len(s)
  <2>1. last \in {Len(s), a + Radius} /\ last <= Len(s)
    BY <1>1, MinOfTwo
  <2> HIDE DEF last
  <2> QED BY <1>1, <2>1
<1>4. first \in Nat /\ first >= 1
  BY <1>1
<1> HIDE DEF first, last
<1>5. \A n \in first..last : s[n] \in Item
  BY <1>1, <1>3, <1>4
<1> QED BY <1>2, <1>3, <1>4, <1>5

(* The stored vector of the anchor's stripped text is that text's.         *)
LEMMA LookupOfText ==
  ASSUME RowsOK, NEW i \in Item, NEW v \in 1..MaxVersion, NEW client \in Clients
  PROVE  Lookup(i, v, client) \in Query /\ Lookup(i, v, client).of = <<i, v>>
<1>1. <<i, v>> \in Vector
  BY DEF Vector
<1>2. CASE rows[i] # NoRow /\ rows[i].hash = StripHash(i, v)
  <2>1. /\ rows[i] \in EmbeddingRow /\ rows[i].of[1] = i
        /\ rows[i].hash = <<i, rows[i].of[2], Shelf[i].padded>>
    BY <1>2 DEF RowsOK, Hash
  <2>2. rows[i].of[2] = v
    BY <1>2, <2>1 DEF StripHash
  <2>3. rows[i].of \in Vector /\ rows[i].model \in Models
    BY <2>1 DEF EmbeddingRow
  <2>4. rows[i].of = <<i, v>>
    BY <2>1, <2>2, <2>3 DEF Vector
  <2> QED BY <1>2, <2>3, <2>4 DEF Lookup, Query, Clients
<1>3. CASE ~(rows[i] # NoRow /\ rows[i].hash = StripHash(i, v))
  BY <1>1, <1>3 DEF Lookup, Query
<1> QED BY <1>2, <1>3

(* A request begins with nothing read, nothing found and no context.       *)
LEMMA BeginAskStep ==
  ASSUME LibraryOK, NEW i \in Item, NEW section \in BOOLEAN, NEW client \in Clients,
         BeginAsk(i, section, client)
  PROVE  Sound(ask')
<1>1. text[i] \in 1..MaxVersion
  BY Bounds DEF LibraryOK, BeginAsk
<1>2. /\ <<>> \in Seq(Item) /\ <<>> \in Seq(Hit)
  OBVIOUS
<1> DEFINE r == [pc |-> IF ~section THEN "window" ELSE IF client = NoClient THEN "plain"
                        ELSE "section",
                 anchor |-> i, v |-> text[i], section |-> section, client |-> client,
                 read |-> <<>>, table |-> <<>>, context |-> <<>>, query |-> <<>>, hits |-> <<>>]
<1>3. ask' = r
  BY DEF BeginAsk
<1>4. r \in Asking
  BY <1>1, <1>2 DEF Asking
<1> QED BY <1>3, <1>4 DEF Sound

(* The context of a request on a block, a paragraph or a figure.           *)
LEMMA WindowContextStep ==
  ASSUME LibraryOK, Sound(ask), WindowContext
  PROVE  Sound(ask')
<1> DEFINE i == ask.anchor
           s == IF Shelf[i].kind = "block" THEN PageBlocks(i) ELSE DocChunks(Shelf[i].doc)
<1>1. ask \in Asking /\ i \in Item /\ ask.pc = "window" /\ ~ask.section
      /\ ask.hits = <<>> /\ ask.query = <<>>
  BY DEF Sound, Asking, WindowContext, Reading
<1>2. CASE text[i] = 0
  <2>1. ask' = [ask EXCEPT !.pc = "failed"]
    BY <1>2 DEF WindowContext
  <2> QED BY <1>1, <2>1 DEF Sound, Asking
<1>3. CASE text[i] # 0
  <2>1. ask' = [ask EXCEPT !.pc = "refs", !.read = s, !.context = Window(s, i)]
    BY <1>3 DEF WindowContext
  <2>2. s \in Seq(Item) /\ Listed(s, i)
    <3>1. CASE Shelf[i].kind = "block"
      <4> DEFINE S == {j \in Item : Shelf[j].doc = Shelf[i].doc /\ Shelf[j].page = Shelf[i].page}
      <4>1. S \in SUBSET Item /\ i \in S /\ PageBlocks(i) = Sorted(S)
        BY <1>1 DEF PageBlocks
      <4> HIDE DEF S, i
      <4>2. PageBlocks(i) \in Seq(Item) /\ Listed(PageBlocks(i), i)
        BY <4>1, SortedItems DEF Listed
      <4> QED BY <3>1, <4>2
    <3>2. CASE Shelf[i].kind # "block"
      BY <1>1, <1>3, <3>2, DocChunksListed DEF LibraryOK
    <3> QED BY <3>1, <3>2
  <2> HIDE DEF s, i
  <2>3. Window(s, i) \in Seq(Item)
    BY <2>2, WindowOfItems
  <2> QED BY <1>1, <2>1, <2>2, <2>3 DEF Sound, Asking
<1> QED BY <1>2, <1>3

(* The plain context of a section: all of it, or its beginning.            *)
LEMMA PlainSectionStep ==
  ASSUME LibraryOK, Sound(ask), PlainSection
  PROVE  Sound(ask')
<1> DEFINE i == ask.anchor
           s == DocChunks(Shelf[i].doc)
           section == SectionRange(s, i)
           c == IF Size(section) <= Budget THEN section ELSE Truncated(section)
<1>1. ask \in Asking /\ i \in Item /\ ask.pc = "plain" /\ ask.hits = <<>> /\ ask.query = <<>>
  BY DEF Sound, Asking, PlainSection, Reading
<1>2. CASE text[i] = 0
  <2>1. ask' = [ask EXCEPT !.pc = "failed"]
    BY <1>2 DEF PlainSection
  <2> QED BY <1>1, <2>1 DEF Sound, Asking
<1>3. CASE text[i] # 0
  <2>1. ask' = [ask EXCEPT !.pc = "refs", !.read = s, !.context = c]
    BY <1>3 DEF PlainSection
  <2>2. s \in Seq(Item) /\ Increasing(s) /\ Listed(s, i)
    BY <1>1, <1>3, DocChunksListed DEF LibraryOK
  <2> HIDE DEF s, i
  <2>3. Within(section, s, i)
    BY <1>1, <2>2, SectionOfHeading
  <2> HIDE DEF section
  <2>4. Fits(c, s, i)
    BY <2>2, <2>3, TruncatedFits DEF Fits, section
  <2>5. c \in Seq(Item)
    BY <2>4 DEF Fits, Within
  <2> HIDE DEF c
  <2>6. ask' \in Asking /\ ask'.pc = "refs" /\ ask'.context = c /\ ask'.read = s
        /\ ask'.anchor = i /\ ask'.hits = <<>> /\ ask'.query = <<>>
    BY <1>1, <2>1, <2>2, <2>5 DEF Asking, i
  <2> QED BY <2>4, <2>6 DEF Sound
<1> QED BY <1>2, <1>3

(* A section is read for the search when it does not fit.                  *)
LEMMA ReadSectionStep ==
  ASSUME LibraryOK, Sound(ask), ReadSection
  PROVE  Sound(ask')
<1> DEFINE i == ask.anchor
           s == DocChunks(Shelf[i].doc)
<1>1. ask \in Asking /\ i \in Item /\ ask.pc = "section" /\ ask.section /\ ask.hits = <<>>
      /\ ask.query = <<>>
  BY DEF Sound, Asking, ReadSection, Reading
<1>2. CASE ask' = [ask EXCEPT !.pc = "plain"]
  BY <1>1, <1>2 DEF Sound, Asking
<1>3. CASE /\ text[i] # 0 /\ ~(Size(SectionRange(s, i)) <= Budget)
           /\ ask' = [ask EXCEPT !.pc = "sectionRows", !.read = s]
  <2>1. s \in Seq(Item) /\ Increasing(s) /\ Listed(s, i)
    BY <1>1, <1>3, DocChunksListed DEF LibraryOK
  <2> HIDE DEF s
  <2>2. ask' \in Asking /\ ask'.pc = "sectionRows" /\ ask'.read = s /\ ask'.anchor = i
        /\ ask'.section /\ ask'.hits = <<>> /\ ask'.query = <<>>
    BY <1>1, <1>3, <2>1 DEF Asking
  <2> QED BY <1>3, <2>1, <2>2 DEF Sound
<1> QED BY <1>2, <1>3 DEF ReadSection

(* The rows are loaded after the section was read.                         *)
LEMMA LoadSectionRowsStep ==
  ASSUME RowsOK, Sound(ask), LoadSectionRows
  PROVE  Sound(ask')
<1> DEFINE t == Load("chunk")
<1>1. t \in Table /\ Aligned(t)
  BY LoadTable
<1>2. ask' = [ask EXCEPT !.pc = "sectionHits", !.table = t] /\ ask.pc = "sectionRows"
  BY DEF LoadSectionRows, Reading
<1> HIDE DEF t
<1>3. ask' \in Asking /\ ask'.pc = "sectionHits" /\ ask'.table = t /\ ask'.read = ask.read
      /\ ask'.anchor = ask.anchor /\ ask'.section = ask.section /\ ask'.hits = ask.hits
      /\ ask'.query = ask.query
  BY <1>1, <1>2 DEF Sound, Asking
<1> QED BY <1>1, <1>2, <1>3 DEF Sound

(* The search within a section: its best hits, as many as fit.             *)
LEMMA TopKSectionStep ==
  ASSUME Sound(ask), TopKSection
  PROVE  Sound(ask')
<1> DEFINE h == ask.anchor
           section == SectionRange(ask.read, h)
           wanted == {i \in ToSet(section) :
                        i # h /\ Shelf[i].chars >= SearchMinChars("chunk")}
<1>1. /\ ask \in Asking /\ h \in Item /\ ask.pc = "sectionHits" /\ ask.section /\ ask.hits = <<>>
      /\ ask.query = <<>> /\ ask.read \in Seq(Item) /\ Increasing(ask.read) /\ Listed(ask.read, h)
      /\ Aligned(ask.table) /\ ~(Size(section) <= Budget)
  BY DEF Sound, Asking, TopKSection, Reading
<1>2. PICK hits \in IF ask.table.model # ask.client THEN {<<>>} ELSE Hits(ask.table, wanted) :
        ask' = IF hits = <<>> THEN [ask EXCEPT !.pc = "plain", !.table = <<>>]
               ELSE [ask EXCEPT !.pc = "refs", !.table = <<>>, !.context = Packed(section, hits)]
  BY DEF TopKSection
<1>3. CASE hits = <<>>
  <2>1. ask' = [ask EXCEPT !.pc = "plain", !.table = <<>>]
    BY <1>2, <1>3
  <2> QED BY <1>1, <2>1 DEF Sound, Asking
<1>4. CASE hits # <<>>
  <2> DEFINE c == Packed(section, hits)
  <2>1. ask' = [ask EXCEPT !.pc = "refs", !.table = <<>>, !.context = c] /\ hits \in Hits(ask.table, wanted)
    BY <1>2, <1>4
  <2>2. Within(section, ask.read, h)
    BY <1>1, SectionOfHeading
  <2>3. HitList(hits, wanted)
    BY <1>1, <2>1, HitsMatch
  <2>4. wanted \subseteq {section[n] : n \in DOMAIN section} \ {h}
    BY DEF ToSet
  <2> HIDE DEF section, wanted
  <2>5. HitList(hits, {section[n] : n \in DOMAIN section} \ {h})
    BY <2>3, <2>4 DEF HitList
  <2> HIDE DEF h
  <2>6. Fits(c, ask.read, h)
    BY <1>1, <2>2, <2>5, PackedFits DEF Fits, section, h
  <2>7. c \in Seq(Item)
    BY <2>6 DEF Fits, Within
  <2> HIDE DEF c
  <2>8. ask' \in Asking /\ ask'.pc = "refs" /\ ask'.context = c /\ ask'.read = ask.read
        /\ ask'.anchor = h /\ ask'.hits = <<>> /\ ask'.query = <<>>
    BY <1>1, <2>1, <2>7 DEF Asking, h
  <2> QED BY <2>6, <2>8 DEF Sound
<1> QED BY <1>3, <1>4

(* The query is the vector of the anchor's text as the request read it.    *)
LEMMA FindQueryStep ==
  ASSUME RowsOK, Sound(ask), FindQuery
  PROVE  Sound(ask')
<1>1. /\ ask \in Asking /\ ask.pc = "refs" /\ ask.hits = <<>> /\ ask.query = <<>>
      /\ ask.anchor \in Item /\ ask.v \in 1..MaxVersion /\ ask.client \in Clients
      /\ ask.section => Fits(ask.context, ask.read, ask.anchor)
  BY DEF Sound, Asking, FindQuery, Reading
<1>2. CASE ask.client = NoClient
  <2>1. ask' = [ask EXCEPT !.pc = "done"]
    BY <1>2 DEF FindQuery
  <2>2. HitList(<<>>, ForeignTo(ask.anchor))
    BY DEF HitList
  <2> QED BY <1>1, <2>1, <2>2 DEF Sound, Asking
<1>3. CASE ask.client # NoClient
  <2> DEFINE q == IF Shelf[ask.anchor].type = "image"
                    THEN [of |-> <<ask.anchor, ask.v>>, model |-> ask.client]
                    ELSE Lookup(ask.anchor, ask.v, ask.client)
  <2>1. ask' = [ask EXCEPT !.pc = "refRows", !.query = q]
    BY <1>3 DEF FindQuery
  <2>2. q \in Query /\ q.of = <<ask.anchor, ask.v>>
    <3>1. <<ask.anchor, ask.v>> \in Vector
      BY <1>1 DEF Vector
    <3>2. [of |-> <<ask.anchor, ask.v>>, model |-> ask.client] \in Query
      BY <3>1, <1>1 DEF Query
    <3> QED BY <3>2, <1>1, LookupOfText
  <2> HIDE DEF q
  <2>3. ask' \in Asking /\ ask'.pc = "refRows" /\ ask'.query = q /\ ask'.anchor = ask.anchor
        /\ ask'.v = ask.v /\ ask'.context = ask.context /\ ask'.read = ask.read
        /\ ask'.section = ask.section /\ ask'.hits = <<>>
    BY <1>1, <2>1, <2>2 DEF Asking
  <2> QED BY <1>1, <2>2, <2>3 DEF Sound
<1> QED BY <1>2, <1>3

(* The rows of the anchor's kind are loaded after the query was found.     *)
LEMMA LoadRefRowsStep ==
  ASSUME RowsOK, Sound(ask), LoadRefRows
  PROVE  Sound(ask')
<1> DEFINE t == Load(Shelf[ask.anchor].kind)
<1>1. t \in Table /\ Aligned(t)
  BY LoadTable
<1>2. ask' = [ask EXCEPT !.pc = "refHits", !.table = t] /\ ask.pc = "refRows"
  BY DEF LoadRefRows, Reading
<1> HIDE DEF t
<1>3. ask' \in Asking /\ ask'.pc = "refHits" /\ ask'.table = t /\ ask'.read = ask.read
      /\ ask'.anchor = ask.anchor /\ ask'.section = ask.section /\ ask'.hits = ask.hits
      /\ ask'.query = ask.query /\ ask'.context = ask.context /\ ask'.v = ask.v
  BY <1>1, <1>2 DEF Sound, Asking
<1> QED BY <1>1, <1>2, <1>3 DEF Sound

(* The hits of the cross-document search are other documents' items.       *)
LEMMA RefsStep ==
  ASSUME Sound(ask), ChunkRefs \/ BlockRefs
  PROVE  Sound(ask')
<1>1. /\ ask \in Asking /\ ask.pc = "refHits" /\ ask.hits = <<>> /\ Aligned(ask.table)
      /\ ask.query = <<>> \/ ask.query.of = <<ask.anchor, ask.v>>
      /\ ask.section => Fits(ask.context, ask.read, ask.anchor)
  BY DEF Sound, ChunkRefs, BlockRefs, Reading
<1>2. CASE ask' = [ask EXCEPT !.pc = "failed", !.table = <<>>]
  BY <1>1, <1>2 DEF Sound, Asking
<1>3. CASE \E hits \in {<<>>} \cup Hits(ask.table, Foreign) :
             ask' = [ask EXCEPT !.pc = "done", !.table = <<>>, !.hits = hits]
  <2>1. PICK hits \in {<<>>} \cup Hits(ask.table, Foreign) :
             ask' = [ask EXCEPT !.pc = "done", !.table = <<>>, !.hits = hits]
    BY <1>3
  <2>2. HitList(hits, ForeignTo(ask.anchor))
    <3>1. HitList(<<>>, ForeignTo(ask.anchor))
      BY DEF HitList
    <3>2. Foreign \subseteq ForeignTo(ask.anchor)
      BY DEF Foreign, ForeignTo
    <3>3. hits \in Hits(ask.table, Foreign) => HitList(hits, Foreign)
      BY <1>1, HitsMatch
    <3>4. HitList(hits, Foreign) => HitList(hits, ForeignTo(ask.anchor))
      BY <3>2 DEF HitList
    <3> QED BY <2>1, <3>1, <3>3, <3>4
  <2>3. hits \in Seq(Hit)
    BY <2>2 DEF HitList
  <2>4. ask' \in Asking /\ ask'.pc = "done" /\ ask'.hits = hits /\ ask'.anchor = ask.anchor
        /\ ask'.v = ask.v /\ ask'.query = ask.query /\ ask'.context = ask.context
        /\ ask'.read = ask.read /\ ask'.section = ask.section
    BY <1>1, <2>1, <2>3 DEF Asking
  <2> QED BY <1>1, <2>2, <2>4 DEF Sound
<1>4. \/ ask' = [ask EXCEPT !.pc = "failed", !.table = <<>>]
      \/ \E hits \in {<<>>} \cup Hits(ask.table, Foreign) :
           ask' = [ask EXCEPT !.pc = "done", !.table = <<>>, !.hits = hits]
  BY DEF ChunkRefs, BlockRefs
<1> QED BY <1>2, <1>3, <1>4

(* Each step of a request keeps what is known of it, whatever the tables.  *)
LEMMA RequestStep ==
  ASSUME LibraryOK, RowsOK, AskOK, Request
  PROVE  AskOK'
<1>1. ASSUME ask.pc # "idle" PROVE Sound(ask)
  BY <1>1 DEF AskOK, NoAsk
<1>2. CASE \E a \in Anchors, c \in Models \cup {NoClient} : BeginAsk(a[1], a[2], c)
  <2>1. PICK a \in Anchors, c \in Models \cup {NoClient} : BeginAsk(a[1], a[2], c)
    BY <1>2
  <2>2. a[1] \in Item /\ a[2] \in BOOLEAN
    BY ConstantsAssumption
  <2>3. c \in Clients
    BY DEF Clients
  <2> QED BY <2>1, <2>2, <2>3, BeginAskStep DEF AskOK
<1>3. CASE WindowContext
  BY <1>1, <1>3, WindowContextStep DEF AskOK, WindowContext, Reading
<1>4. CASE PlainSection
  BY <1>1, <1>4, PlainSectionStep DEF AskOK, PlainSection, Reading
<1>5. CASE ReadSection
  BY <1>1, <1>5, ReadSectionStep DEF AskOK, ReadSection, Reading
<1>6. CASE LoadSectionRows
  BY <1>1, <1>6, LoadSectionRowsStep DEF AskOK, LoadSectionRows, Reading
<1>7. CASE TopKSection
  BY <1>1, <1>7, TopKSectionStep DEF AskOK, TopKSection, Reading
<1>8. CASE FindQuery
  BY <1>1, <1>8, FindQueryStep DEF AskOK, FindQuery, Reading
<1>9. CASE LoadRefRows
  BY <1>1, <1>9, LoadRefRowsStep DEF AskOK, LoadRefRows, Reading
<1>10. CASE ChunkRefs \/ BlockRefs
  <2>1. ask.pc = "refHits"
    BY <1>10 DEF ChunkRefs, BlockRefs, Reading
  <2> QED BY <1>1, <1>10, <2>1, RefsStep DEF AskOK
<1>11. CASE EndAsk
  BY <1>11 DEF AskOK, EndAsk
<1> QED BY <1>2, <1>3, <1>4, <1>5, <1>6, <1>7, <1>8, <1>9, <1>10, <1>11 DEF Request

(* The other processes leave a request alone.                              *)
LEMMA OthersKeepRequest ==
  ASSUME Library \/ \E p \in Workers : Backfill(p)
  PROVE  ask' = ask
BY DEF Library, Translate, ReplaceDocument, Backfill, BackfillBlocks, BackfillChunks, Begin, Check,
       WriteBatch, Finish, StopBackfill

-------------------------------------------------------------------------------
(* The whole, and what it gives.                                           *)

Inv == TablesInv /\ AskOK

(* In every reachable state the tables and the request are sound.          *)
LEMMA Invariant == Spec => []Inv
<1>1. Init => Inv
  BY TablesInit DEF Init, Inv, AskOK
<1>2. Inv /\ [Next]_vars => Inv'
  <2> SUFFICES ASSUME Inv, [Next]_vars PROVE Inv'
    OBVIOUS
  <2>1. TablesInv'
    BY TablesStep DEF Inv
  <2>2. AskOK'
    <3>1. CASE Request
      BY <3>1, RequestStep DEF Inv, TablesInv
    <3>2. CASE Library \/ \E p \in Workers : Backfill(p)
      BY <3>2, OthersKeepRequest DEF Inv, AskOK
    <3>3. CASE UNCHANGED vars
      BY <3>3 DEF Inv, AskOK, vars
    <3> QED BY <3>1, <3>2, <3>3 DEF Next
  <2> QED BY <2>1, <2>2 DEF Inv
<1> QED BY <1>1, <1>2, PTL DEF Spec

(* Every row has an encoder, the vector of a text and the hash of its own  *)
(* item (store.py, backfill.py), and a request is at one of its steps.     *)
THEOREM Types == Spec => []TypeOK
<1>1. Inv => TypeOK
  <2> SUFFICES ASSUME Inv PROVE TypeOK
    OBVIOUS
  <2>1. \A i \in Item : rows[i] # NoRow =>
          rows[i].model \in Models /\ rows[i].of \in Vector /\ rows[i].hash[1] = i
    BY DEF Inv, TablesInv, RowsOK, EmbeddingRow, Hash
  <2>2. \A p \in Workers : worker[p].pc \in {"idle", "check"}
    BY WorkOrIdle DEF Inv, TablesInv
  <2>3. ask.pc \in {"idle", "window", "plain", "section", "sectionRows", "sectionHits", "refs",
                    "refRows", "refHits", "done", "failed"}
    BY DEF Inv, AskOK, Sound, Asking, NoAsk
  <2> QED BY <2>1, <2>2, <2>3 DEF Inv, TablesInv, LibraryOK, TypeOK
<1> QED BY <1>1, Invariant, PTL

(* A search scores every hit by the hit's own vector, never by a           *)
(* neighbour's row, and by the anchor's own text as the request read it,   *)
(* through any replacement of documents and any backfill under way         *)
(* (lookup.py:62-64, store.py:83-103).                                     *)
THEOREM Matches == Spec => []SearchMatchesTexts
<1>1. Inv => SearchMatchesTexts
  <2> SUFFICES ASSUME Inv PROVE SearchMatchesTexts
    OBVIOUS
  <2>1. ask.pc = "idle" \/ Sound(ask)
    BY DEF Inv, AskOK, NoAsk
  <2>2. ASSUME ask.pc \in {"refRows", "refHits", "done"}, ask.query # <<>>
        PROVE  ask.query.of = <<ask.anchor, ask.v>>
    BY <2>1, <2>2 DEF Sound
  <2>3. ASSUME ask.pc = "done", NEW n \in DOMAIN ask.hits
        PROVE  /\ ask.hits[n].of[1] = ask.hits[n].item
               /\ Shelf[ask.hits[n].item].doc # Shelf[ask.anchor].doc
    BY <2>1, <2>3 DEF Sound, HitList, ForeignTo
  <2> QED BY <2>2, <2>3 DEF SearchMatchesTexts
<1> QED BY <1>1, Invariant, PTL

(* What no heading before it closes off stands under the section's         *)
(* heading, when the numbers are an outline.                               *)
LEMMA OpenIsUnder ==
  ASSUME NEW s \in Seq(Item), NEW h \in Item, OutlinedBelow(s, h), NEW i \in ToSet(s), h <= i,
         \A j \in ToSet(s) : (h < j /\ j <= i) => ~Closes(h, j)
  PROVE  i \in UnderHeading(s, h)
<1> SUFFICES ASSUME NEW j \in ToSet(s), IsHeading(j), h < j, j <= i
             PROVE  Depth(h) > 0 /\ (Depth(j) = 0 \/ Subheading(h, j))
  BY DEF UnderHeading
<1>1. \A k \in ToSet(s) : k \in Item /\ k \in Nat /\ Depth(k) \in Nat
  BY Items, ConstantsAssumption DEF ToSet, Depth
<1>2. h \in Nat /\ Depth(h) \in Nat /\ i \in Nat
  BY <1>1, Items, ConstantsAssumption DEF Depth
<1>3. \A k \in ToSet(s) : (IsHeading(k) /\ h < k /\ k <= j) => Depth(h) # 0 /\ Depth(k) \notin 1..Depth(h)
  BY <1>1, <1>2 DEF Closes
<1>4. j <= j
  BY <1>1
<1>5. Depth(h) > 0
  BY <1>2, <1>3, <1>4
<1>6. ASSUME Depth(j) # 0 PROVE Subheading(h, j)
  BY <1>1, <1>3, <1>6 DEF OutlinedBelow
<1> QED BY <1>5, <1>6

(* A chunk under a section's heading is in the section.                    *)
LEMMA UnderIsInSection ==
  ASSUME NEW s \in Seq(Item), Increasing(s), NEW h \in Item, Listed(s, h),
         NEW i \in UnderHeading(s, h)
  PROVE  i \in ToSet(SectionRange(s, h))
<1> DEFINE a == Position(s, h)
           e == SectionEnd(s, a)
<1>1. /\ a \in 1..Len(s) /\ s[a] = h /\ Len(s) \in Nat
      /\ e \in (a + 1)..(Len(s) + 1) /\ (e = Len(s) + 1 \/ Closes(h, s[e]))
  BY PositionOf, SectionEnds
<1> HIDE DEF a, e
<1>2. \A m, n \in 1..Len(s) : s[m] \in Nat /\ s[m] \in Item /\ (m < n => s[m] < s[n])
  <2>1. \A m \in 1..Len(s) : s[m] \in Item
    OBVIOUS
  <2>2. \A m, n \in 1..Len(s) : m < n => s[m] < s[n]
    BY DEF Increasing
  <2> QED BY <2>1, <2>2, Items
<1>3. PICK k \in 1..Len(s) : i = s[k]
  BY DEF UnderHeading, ToSet
<1>4. h <= i
  BY DEF UnderHeading
<1>5. a <= k
  BY <1>1, <1>2, <1>3, <1>4
<1>6. k < e
  <2> SUFFICES ASSUME e <= k PROVE FALSE
    BY <1>1, <1>3
  <2>1. e \in 1..Len(s) /\ Closes(h, s[e]) /\ a < e
    BY <1>1, <1>3
  <2>2. h < s[e] /\ s[e] <= i /\ s[e] \in ToSet(s) /\ s[e] \in Item
    BY <1>1, <1>2, <1>3, <2>1 DEF ToSet
  <2>3. IsHeading(s[e]) /\ (Depth(h) = 0 \/ Depth(s[e]) \in 1..Depth(h))
    BY <2>1 DEF Closes
  <2>4. Depth(h) > 0 /\ (Depth(s[e]) = 0 \/ Depth(h) < Depth(s[e]))
    BY <2>2, <2>3 DEF UnderHeading, Subheading
  <2>5. \A j \in Item : Depth(j) \in Nat
    BY ConstantsAssumption DEF Depth
  <2> QED BY <2>2, <2>3, <2>4, <2>5
<1>7. SectionRange(s, h) = SubSeq(s, a, e - 1)
  BY DEF SectionRange, a, e
<1> DEFINE c == SubSeq(s, a, e - 1)
           n == k - a + 1
<1>8. n \in DOMAIN c /\ c[n] = s[k]
  <2>1. e \in Nat /\ a \in Nat /\ e - 1 \in Nat /\ e - 1 <= Len(s) /\ a <= e - 1
        /\ n \in 1..(e - a) /\ a + n - 1 = k
    BY <1>1, <1>3, <1>5, <1>6
  <2> HIDE DEF n
  <2>2. c \in Seq(Item) /\ Len(c) = e - a /\ \A m \in 1..(e - a) : c[m] = s[a + m - 1]
    BY <1>1, <2>1
  <2> HIDE DEF c
  <2>3. DOMAIN c = 1..(e - a)
    BY <2>2
  <2> QED BY <2>1, <2>2, <2>3
<1> HIDE DEF c, n
<1> QED BY <1>3, <1>7, <1>8 DEF ToSet, c

(* A section's context begins with the heading, has no chunk twice and     *)
(* fits the budget, on the plain, the truncated and the top-K path; in a   *)
(* document numbered as an outline it is of what stands under the heading, *)
(* and is all of that when it fits (chunk_chat_context.py:147-310).        *)
THEOREM Fitting == Spec => []ContextFits
<1>1. Inv => ContextFits
  <2> DEFINE s == ask.read
             h == ask.anchor
             c == ask.context
  <2> SUFFICES ASSUME Inv, ask.pc \in {"refs", "refRows", "refHits", "done"}, ask.section
               PROVE  /\ c # <<>> /\ c[1] = h
                      /\ IsInjective(c)
                      /\ Size(c) <= Budget \/ c = <<h>>
                      /\ OutlinedBelow(s, h) => ToSet(c) \subseteq UnderHeading(s, h)
                      /\ Size(SectionRange(s, h)) <= Budget => UnderHeading(s, h) \subseteq ToSet(c)
    BY DEF ContextFits
  <2>1. Fits(c, s, h) /\ s \in Seq(Item) /\ h \in Item
    BY DEF Inv, AskOK, NoAsk, Sound, Asking
  <2> HIDE DEF s, h, c
  <2>2. IsInjective(c)
    BY <2>1 DEF Fits, Within, IsInjective
  <2>3. ASSUME OutlinedBelow(s, h), NEW i \in ToSet(c) PROVE i \in UnderHeading(s, h)
    <3>1. PICK n \in DOMAIN c : i = c[n]
      BY <2>3 DEF ToSet
    <3>2. h <= i /\ i \in ToSet(s) /\ \A j \in ToSet(s) : (h < j /\ j <= i) => ~Closes(h, j)
      BY <2>1, <3>1 DEF Fits, Within, Listed, ToSet
    <3> QED BY <2>1, <2>3, <3>2, OpenIsUnder
  <2>4. ASSUME Size(SectionRange(s, h)) <= Budget, NEW i \in UnderHeading(s, h)
        PROVE  i \in ToSet(c)
    BY <2>1, <2>4, UnderIsInSection DEF Fits
  <2> QED BY <2>1, <2>2, <2>3, <2>4 DEF Fits, Within
<1> QED BY <1>1, Invariant, PTL
===============================================================================
