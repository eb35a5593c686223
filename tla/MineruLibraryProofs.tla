-------------------------- MODULE MineruLibraryProofs --------------------------
(***************************************************************************)
(* Proofs about MineruLibrary, for any requests whose outputs are what     *)
(* OutputsInOrder and OneFilePerName say, any number of document ids and   *)
(* any number of commands.                                                 *)
(***************************************************************************)
EXTENDS MineruLibrary, DataLemmas

Legacy(d) == docs[d].kind = "pymupdf"

(* What an ingest is about to delete or fill is no 1.x document.  It was   *)
(* so when the command looked, and nothing adds one while it is under way. *)
IngestAside ==
  /\ docs = [d \in Id |-> docs[d]]
  /\ command.name = "ingest" =>
       /\ command.id \in Id /\ ~Legacy(command.id)
       /\ \A d \in Id : d \in command.old => ~Legacy(d)

(* Every step leaves the id and the documents an ingest has taken apart    *)
(* from the 1.x documents.                                                 *)
LEMMA IngestAsideStep ==
  ASSUME IngestAside, [Next]_vars
  PROVE  IngestAside'
<1> USE DEF IngestAside, Legacy
<1>1. NoCommand.name = "none"
  BY DEF NoCommand
<1>2. ASSUME NEW r \in Requests, BeginIngest(r) PROVE IngestAside'
  <2>1. UNCHANGED docs
    BY <1>2 DEF BeginIngest
  <2>2. PICK id \in NextIds(Taken \ Existing(r.file)) :
          /\ command'.name = "ingest" /\ command'.id = id
          /\ command'.old = Existing(r.file)
    BY <1>2 DEF BeginIngest
  <2>3. id \in Id /\ id \notin Taken \ Existing(r.file)
    BY <2>2 DEF NextIds, Id
  <2>4. \A d \in Existing(r.file) : docs[d].kind = "mineru"
    BY DEF Existing
  <2>5. docs[id].kind # "pymupdf"
    BY <2>3, <2>4 DEF Taken
  <2> QED BY <2>1, <2>2, <2>3, <2>4, <2>5
<1>3. CASE CopyImage
  BY <1>3 DEF CopyImage
<1>4. CASE CommitIngest
  BY <1>1, <1>4 DEF CommitIngest
<1>5. CASE FailIngest \/ KillIngest \/ SaveOverrides \/ KillRepair
  BY <1>1, <1>5 DEF FailIngest, KillIngest, SaveOverrides, KillRepair
<1>6. ASSUME NEW file \in Files, AddLegacy(file) PROVE IngestAside'
  BY <1>1, <1>6 DEF AddLegacy, BeginCommand
<1>7. ASSUME NEW d \in Id, SweepLegacy(d) PROVE IngestAside'
  BY <1>1, <1>7 DEF SweepLegacy, BeginCommand
<1>8. ASSUME NEW d \in Id, DetectRepairs(d) PROVE IngestAside'
  BY <1>8 DEF DetectRepairs
<1>9. ASSUME NEW d \in Id, NEW allow, NEW captions, BeginRepair(d, allow, captions)
      PROVE  IngestAside'
  BY <1>9 DEF BeginRepair
<1>10. CASE ClipFigure
  BY <1>10 DEF ClipFigure, Repairing
<1>11. CASE UNCHANGED vars
  BY <1>11 DEF vars
<1> QED
  BY <1>2, <1>3, <1>4, <1>5, <1>6, <1>7, <1>8, <1>9, <1>10, <1>11 DEF Next

(* Only the restart sweep takes a 1.x document away or changes it, however *)
(* many 2.0 documents of the same filename come, go and give their ids.    *)
THEOREM LegacyCoexists == Spec => LegacyUntouched
<1>1. Init => IngestAside
  BY DEF Init, IngestAside, NoCommand
<1>2. IngestAside /\ [Next]_vars => IngestAside'
  BY IngestAsideStep
<1>3. IngestAside /\ [Next]_vars =>
        [\A d \in Id : docs[d].kind = "pymupdf" /\ docs'[d] # docs[d] => SweepLegacy(d)]_vars
  <2> SUFFICES ASSUME IngestAside, Next, NEW d \in Id, Legacy(d), docs'[d] # docs[d]
               PROVE  SweepLegacy(d)
    BY DEF Legacy
  <2>1. CASE CommitIngest
    BY <2>1 DEF CommitIngest, Ingesting, IngestAside
  <2>2. ASSUME NEW file \in Files, AddLegacy(file) PROVE FALSE
    <3>1. PICK id \in NextIds(Taken) :
            docs' = [docs EXCEPT ![id] = [kind |-> "pymupdf", file |-> file, chunks |-> <<>>]]
      BY <2>2 DEF AddLegacy
    <3>2. id \notin Taken /\ d \in Taken
      BY DEF NextIds, Id, Taken, Legacy
    <3> QED BY <3>1, <3>2 DEF IngestAside
  <2>3. ASSUME NEW e \in Id, SweepLegacy(e) PROVE SweepLegacy(d)
    BY <2>3 DEF SweepLegacy, IngestAside
  <2> QED
    BY <2>1, <2>2, <2>3
       DEF Next, BeginIngest, CopyImage, FailIngest, KillIngest, DetectRepairs, BeginRepair,
           ClipFigure, SaveOverrides, KillRepair
<1> QED BY <1>1, <1>2, <1>3, PTL DEF Spec, LegacyUntouched

-------------------------------------------------------------------------------
(* What an ingest makes of a request.                                      *)

(* The elements selected from a list are the list's, and all of them.      *)
LEMMA SelectedFrom ==
  ASSUME NEW V, NEW s \in Seq(V), NEW S, S \subseteq DOMAIN s
  PROVE  /\ Selected(s, S) \in Seq(V)
         /\ \A n \in DOMAIN Selected(s, S) : \E i \in S : Selected(s, S)[n] = s[i]
         /\ \A i \in S : \E n \in DOMAIN Selected(s, S) : Selected(s, S)[n] = s[i]
<1> DEFINE at == Ranked(S)
           pick(n) == CHOOSE i \in S : Cardinality({j \in S : j < i}) = n - 1
<1>1. DOMAIN s = 1..Len(s) /\ Len(s) \in Nat
  OBVIOUS
<1>2. S \subseteq Nat /\ IsFiniteSet(S)
  <2>1. IsFiniteSet(1..Len(s))
    BY <1>1, FS_Interval
  <2> QED BY <1>1, <2>1, FS_Subset
<1>3. /\ at \in Seq(S) /\ DOMAIN at = 1..Cardinality(S) /\ Cardinality(S) \in Nat
      /\ \A i \in S : \E n \in DOMAIN at : at[n] = i
  BY <1>2, RankedList
<1>4. at = [n \in 1..Cardinality(S) |-> pick(n)]
      /\ Selected(s, S) = [n \in 1..Cardinality(S) |-> s[pick(n)]]
  BY DEF Ranked, Selected
<1> HIDE DEF at, pick
<1>5. Selected(s, S) = [n \in 1..Cardinality(S) |-> s[at[n]]]
  BY <1>4
<1>6. \A n \in 1..Cardinality(S) : at[n] \in S /\ s[at[n]] \in V
  BY <1>3
<1>7. Selected(s, S) \in Seq(V)
  <2>1. [n \in 1..Cardinality(S) |-> s[at[n]]] \in [1..Cardinality(S) -> V]
    BY <1>6
  <2> QED BY <1>3, <1>5, <2>1
<1> QED BY <1>3, <1>5, <1>6, <1>7

(* The offset of an output is the page it begins at, when each begins      *)
(* where the one before it ends.                                           *)
LEMMA OffsetIsFirst ==
  ASSUME NEW parts \in Seq(Output), Consecutive(parts), NEW k \in DOMAIN parts
  PROVE  PageOffset(parts, k) = parts[k].first
<1> DEFINE N == k - 1
           t == SubSeq(parts, 1, k - 1)
           step == [n \in 1..N |-> [m \in Nat |-> m + t[n].pages]]
           sum == CHOOSE sum : sum = [n \in 0..N |-> IF n = 0 THEN 0 ELSE sum[n - 1] + t[n].pages]
<1>1. /\ k \in 1..Len(parts) /\ Len(parts) \in Nat /\ N \in Nat /\ t \in Seq(Output) /\ Len(t) = N
      /\ \A n \in 1..N : t[n] = parts[n]
  OBVIOUS
<1> HIDE DEF N, t
<1>2. \A n \in 1..N : t[n].pages \in Nat
  <2>1. \A n \in 1..N : t[n] \in Output
    BY <1>1
  <2> QED BY <2>1 DEF Output
<1>3. PICK f : IsLoop(f, N, Nat, 0, step)
  <2>1. step \in [1..N -> [Nat -> Nat]] /\ 0 \in Nat
    BY <1>2
  <2> HIDE DEF step, sum
  <2> QED BY <1>1, <2>1, LoopValues
<1>4. \A n \in 1..N : n - 1 \in 0..N /\ f[n] = f[n - 1] + t[n].pages
  <2> TAKE n \in 1..N
  <2>1. n - 1 \in 0..N /\ f[n - 1] \in Nat
    BY <1>1, <1>3 DEF IsLoop
  <2>2. step[n][f[n - 1]] = f[n - 1] + t[n].pages
    BY <2>1
  <2> HIDE DEF step, sum
  <2> QED BY <2>1, <2>2, <1>3 DEF IsLoop
<1>5. f = [n \in 0..N |-> IF n = 0 THEN 0 ELSE f[n - 1] + t[n].pages]
  BY <1>1, <1>3, <1>4 DEF IsLoop
<1>6. sum = [n \in 0..N |-> IF n = 0 THEN 0 ELSE sum[n - 1] + t[n].pages]
  BY <1>5
<1>7. PageOffset(parts, k) = sum[N]
  BY <1>1 DEF PageOffset, Pages, t
<1> HIDE DEF sum
<1> DEFINE P == {n \in 0..N : sum[n] = parts[n + 1].first}
<1>8. 0 \in P
  BY <1>1, <1>6 DEF Consecutive
<1>9. ASSUME NEW n \in 1..N, n - 1 \in P PROVE n \in P
  <2>5. n \in 0..N /\ n # 0
    BY <1>1
  <2>1. sum[n] = sum[n - 1] + t[n].pages
    BY <2>5, <1>6
  <2>2. n + 1 \in 2..Len(parts) /\ (n + 1) - 1 = n /\ (n - 1) + 1 = n
    BY <1>1 DEF N
  <2>3. parts[n + 1].first = parts[n].first + parts[n].pages
    BY <2>2 DEF Consecutive
  <2>4. sum[n - 1] = parts[n].first
    BY <1>9, <2>2
  <2> QED BY <1>1, <2>1, <2>3, <2>4, <2>5
<1>10. \A n \in 0..N : n \in P
  <2> HIDE DEF P
  <2> QED BY <1>1, <1>8, <1>9, LoopInduction
<1>11. sum[N] = parts[k].first
  BY <1>1, <1>10 DEF N
<1> QED BY <1>7, <1>11

(* Offsetting keeps an item an item, moves it to its page of the whole PDF *)
(* and marks its image with its output.                                    *)
LEMMA OffsetItem ==
  ASSUME NEW parts \in Seq(Output), Consecutive(parts), NEW k \in DOMAIN parts,
         NEW i \in DOMAIN parts[k].items
  PROVE  LET item == parts[k].items[i]
             moved == OffsetItems(parts, k)[i]
         IN  /\ DOMAIN OffsetItems(parts, k) = DOMAIN parts[k].items
             /\ moved \in MineruItem /\ moved.page = item.page + parts[k].first
             /\ moved.source = item.source /\ moved.bytes = item.bytes
             /\ moved.img # NoImage => /\ item.img # NoImage
                                       /\ moved.img = <<k, item.img[2]>>
<1> DEFINE item == parts[k].items[i]
           moved == [item EXCEPT !.page = @ + PageOffset(parts, k), !.img = Namespaced(k, @)]
<1>1. k \in Nat /\ parts[k] \in Output
  OBVIOUS
<1>2. parts[k].first \in Nat /\ parts[k].items \in Seq(MineruItem)
  BY <1>1 DEF Output
<1>3. item \in MineruItem
  BY <1>2
<1>4. PageOffset(parts, k) = parts[k].first
  BY OffsetIsFirst
<1>5. OffsetItems(parts, k)[i] = moved /\ DOMAIN OffsetItems(parts, k) = DOMAIN parts[k].items
  BY DEF OffsetItems
<1> HIDE DEF item
<1>6. Namespaced(k, item.img) \in {NoImage} \cup (Nat \X STRING)
      /\ (Namespaced(k, item.img) # NoImage =>
            item.img # NoImage /\ Namespaced(k, item.img) = <<k, item.img[2]>>)
  BY <1>1, <1>3 DEF Namespaced, MineruItem
<1>7. moved = [item EXCEPT !.page = item.page + parts[k].first, !.img = Namespaced(k, item.img)]
  BY <1>4
<1>8. item.page + parts[k].first \in Nat
  BY <1>2, <1>3 DEF MineruItem
<1>9. /\ moved \in MineruItem /\ moved.page = item.page + parts[k].first
      /\ moved.source = item.source /\ moved.bytes = item.bytes
      /\ moved.img = Namespaced(k, item.img)
  BY <1>3, <1>6, <1>7, <1>8 DEF MineruItem
<1> HIDE DEF moved
<1> QED BY <1>5, <1>6, <1>9 DEF item

(* A merged list is made of the items of the outputs, offset.              *)
LEMMA MergedFrom ==
  ASSUME NEW parts \in Seq(Output), Consecutive(parts)
  PROVE  /\ Merged(parts) \in Seq(MineruItem)
         /\ \A n \in DOMAIN Merged(parts) :
              \E k \in DOMAIN parts : \E i \in DOMAIN parts[k].items :
                Merged(parts)[n] = OffsetItems(parts, k)[i]
<1> DEFINE N == Len(parts)
           part(k) == OffsetItems(parts, k)
           step == [k \in 1..N |-> [s \in Seq(MineruItem) |-> s \o part(k)]]
           all == CHOOSE all : all = [k \in 0..N |-> IF k = 0 THEN <<>> ELSE all[k - 1] \o part(k)]
           From(item) == \E k \in DOMAIN parts : \E i \in DOMAIN parts[k].items : item = part(k)[i]
<1>1. N \in Nat /\ DOMAIN parts = 1..N
  OBVIOUS
<1>2. ASSUME NEW k \in 1..N
      PROVE  part(k) \in Seq(MineruItem) /\ \A i \in DOMAIN part(k) : From(part(k)[i])
  <2>1. parts[k] \in Output
    BY <1>1
  <2>2. parts[k].items \in Seq(MineruItem)
    BY <2>1 DEF Output
  <2>3. DOMAIN part(k) = DOMAIN parts[k].items
    BY DEF OffsetItems
  <2>4. \A i \in DOMAIN parts[k].items : part(k)[i] \in MineruItem
    BY <1>1, OffsetItem
  <2>5. DOMAIN parts[k].items = 1..Len(parts[k].items) /\ Len(parts[k].items) \in Nat
    BY <2>2
  <2>6. part(k) \in [1..Len(parts[k].items) -> MineruItem]
    BY <2>4, <2>5 DEF OffsetItems
  <2>7. part(k) \in Seq(MineruItem)
    <3> HIDE DEF part
    <3> QED BY <2>5, <2>6
  <2> QED BY <1>1, <2>3, <2>7
<1> HIDE DEF part
<1>3. \A k \in 1..N : \A s \in Seq(MineruItem) : s \o part(k) \in Seq(MineruItem)
  BY <1>2
<1>4. PICK f : IsLoop(f, N, Seq(MineruItem), <<>>, step)
  <2>1. step \in [1..N -> [Seq(MineruItem) -> Seq(MineruItem)]] /\ <<>> \in Seq(MineruItem)
    BY <1>3
  <2> HIDE DEF step, all, N
  <2> QED BY <1>1, <2>1, LoopValues
<1>5. \A k \in 1..N : k - 1 \in 0..N /\ f[k] = f[k - 1] \o part(k)
  <2> TAKE k \in 1..N
  <2>1. k - 1 \in 0..N /\ f[k - 1] \in Seq(MineruItem)
    BY <1>1, <1>4 DEF IsLoop
  <2>2. step[k][f[k - 1]] = f[k - 1] \o part(k)
    BY <2>1
  <2> HIDE DEF step, all
  <2> QED BY <2>1, <2>2, <1>4 DEF IsLoop
<1>6. f = [k \in 0..N |-> IF k = 0 THEN <<>> ELSE f[k - 1] \o part(k)]
  BY <1>1, <1>4, <1>5 DEF IsLoop
<1>7. all = [k \in 0..N |-> IF k = 0 THEN <<>> ELSE all[k - 1] \o part(k)]
  BY <1>6
<1>8. Merged(parts) = all[N]
  BY DEF Merged, part
<1> HIDE DEF all
<1> DEFINE P == {k \in 0..N : all[k] \in Seq(MineruItem) /\ \A n \in DOMAIN all[k] : From(all[k][n])}
<1>9. 0 \in P
  BY <1>1, <1>7
<1>10. ASSUME NEW k \in 1..N, k - 1 \in P PROVE k \in P
  <2>6. k \in 0..N /\ k # 0
    BY <1>1
  <2>1. all[k] = all[k - 1] \o part(k)
    BY <2>6, <1>7
  <2> DEFINE s == all[k - 1]
             t == part(k)
  <2>2. s \in Seq(MineruItem) /\ t \in Seq(MineruItem)
        /\ (\A n \in DOMAIN s : From(s[n])) /\ (\A n \in DOMAIN t : From(t[n]))
    BY <1>2, <1>10
  <2>3. all[k] = s \o t
    BY <2>1
  <2> HIDE DEF s, t, From
  <2>4. s \o t \in Seq(MineruItem) /\ DOMAIN (s \o t) = 1..(Len(s) + Len(t))
        /\ DOMAIN s = 1..Len(s) /\ DOMAIN t = 1..Len(t) /\ Len(s) \in Nat /\ Len(t) \in Nat
    BY <2>2
  <2>5. ASSUME NEW n \in 1..(Len(s) + Len(t)) PROVE From((s \o t)[n])
    <3>1. CASE n <= Len(s)
      <4>1. n \in 1..Len(s) /\ (s \o t)[n] = s[n]
        BY <2>2, <2>4, <3>1
      <4> QED BY <2>2, <2>4, <4>1
    <3>2. CASE ~(n <= Len(s))
      <4>1. n - Len(s) \in 1..Len(t) /\ (s \o t)[n] = t[n - Len(s)]
        BY <2>2, <2>4, <3>2
      <4> QED BY <2>2, <2>4, <4>1
    <3> QED BY <3>1, <3>2
  <2> QED BY <2>3, <2>4, <2>5, <2>6
<1>11. \A k \in 0..N : k \in P
  <2> HIDE DEF P, N
  <2> QED BY <1>1, <1>9, <1>10, LoopInduction
<1>12. all[N] \in Seq(MineruItem) /\ \A n \in DOMAIN all[N] : From(all[N][n])
  BY <1>1, <1>11
<1> QED BY <1>8, <1>12 DEF part

(* The items of a request that is carried out: each on the page of the     *)
(* whole PDF it was extracted from, and one file to each image name.       *)
LEMMA ItemsOfRequest ==
  ASSUME NEW r \in Requests, r.merge => Mergeable(r)
  PROVE  /\ Items(r) \in Seq(MineruItem)
         /\ \A n \in DOMAIN Items(r) : Items(r)[n].page = Items(r)[n].source
         /\ \A m, n \in DOMAIN Items(r) :
              (Items(r)[m].img # NoImage /\ Items(r)[m].img = Items(r)[n].img) =>
                Items(r)[m].bytes = Items(r)[n].bytes
<1> DEFINE parts == r.parts
           item(k, i) == parts[k].items[i]
<1>1. parts \in Seq(Output) /\ r.merge \in BOOLEAN /\ (~r.merge => Len(parts) = 1)
  BY ConstantsAssumption
<1>2. parts # <<>> /\ Consecutive(parts)
  <2>1. parts # <<>> /\ (r.merge => Pages(parts) = r.sourcePages)
    <3>1. CASE r.merge
      BY <3>1 DEF Mergeable
    <3>2. CASE ~r.merge
      BY <1>1, <3>2
    <3> QED BY <1>1, <3>1, <3>2
  <2> QED BY <2>1, OutputsInOrder
<1>3. ASSUME NEW k \in DOMAIN parts, NEW i \in DOMAIN parts[k].items
      PROVE  /\ item(k, i) \in MineruItem /\ parts[k].first \in Nat
             /\ item(k, i).source = parts[k].first + item(k, i).page
             /\ item(k, i).page \in Nat
  <2>1. parts[k] \in Output
    BY <1>1
  <2>2. parts[k].items \in Seq(MineruItem) /\ parts[k].first \in Nat
    BY <2>1 DEF Output
  <2>3. item(k, i) \in MineruItem
    BY <2>2
  <2>4. item(k, i).source = parts[k].first + item(k, i).page
    BY OutputsInOrder
  <2> QED BY <2>2, <2>3, <2>4 DEF MineruItem
<1>4. ASSUME NEW k \in DOMAIN parts, NEW i \in DOMAIN parts[k].items,
             NEW j \in DOMAIN parts[k].items,
             item(k, i).img # NoImage, item(k, j).img # NoImage,
             item(k, i).img[2] = item(k, j).img[2]
      PROVE  item(k, i).bytes = item(k, j).bytes
  BY <1>4, OneFilePerName
<1>5. CASE r.merge
  <2> DEFINE all == Merged(parts)
  <2>1. Items(r) = all
    BY <1>5 DEF Items
  <2> HIDE DEF all, item
  <2>2. /\ all \in Seq(MineruItem)
        /\ \A n \in DOMAIN all : \E k \in DOMAIN parts : \E i \in DOMAIN parts[k].items :
             all[n] = OffsetItems(parts, k)[i]
    BY <1>1, <1>2, MergedFrom DEF all
  <2>3. ASSUME NEW n \in DOMAIN all
        PROVE  \E k \in DOMAIN parts : \E i \in DOMAIN parts[k].items :
                 /\ all[n].page = item(k, i).page + parts[k].first
                 /\ all[n].source = item(k, i).source /\ all[n].bytes = item(k, i).bytes
                 /\ all[n].img # NoImage =>
                      item(k, i).img # NoImage /\ all[n].img = <<k, item(k, i).img[2]>>
    <3>1. PICK k \in DOMAIN parts : \E i \in DOMAIN parts[k].items :
            all[n] = OffsetItems(parts, k)[i]
      BY <2>2
    <3>2. PICK i \in DOMAIN parts[k].items :
            all[n] = OffsetItems(parts, k)[i]
      BY <3>1
    <3> QED BY <3>2, <1>1, <1>2, OffsetItem DEF item
  <2>4. ASSUME NEW n \in DOMAIN all PROVE all[n].page = all[n].source
    <3>1. PICK k \in DOMAIN parts : \E i \in DOMAIN parts[k].items :
            all[n].page = item(k, i).page + parts[k].first /\ all[n].source = item(k, i).source
      BY <2>3
    <3>2. PICK i \in DOMAIN parts[k].items :
            all[n].page = item(k, i).page + parts[k].first /\ all[n].source = item(k, i).source
      BY <3>1
    <3> QED BY <3>2, <1>3
  <2>5. ASSUME NEW m \in DOMAIN all, NEW n \in DOMAIN all,
               all[m].img # NoImage, all[m].img = all[n].img
        PROVE  all[m].bytes = all[n].bytes
    <3>1. PICK k \in DOMAIN parts : \E i \in DOMAIN parts[k].items :
            /\ all[m].bytes = item(k, i).bytes /\ item(k, i).img # NoImage
            /\ all[m].img = <<k, item(k, i).img[2]>>
      BY <2>3, <2>5
    <3>2. PICK i \in DOMAIN parts[k].items :
            /\ all[m].bytes = item(k, i).bytes /\ item(k, i).img # NoImage
            /\ all[m].img = <<k, item(k, i).img[2]>>
      BY <3>1
    <3>3. PICK l \in DOMAIN parts : \E j \in DOMAIN parts[l].items :
            /\ all[n].bytes = item(l, j).bytes /\ item(l, j).img # NoImage
            /\ all[n].img = <<l, item(l, j).img[2]>>
      BY <2>3, <2>5
    <3>4. PICK j \in DOMAIN parts[l].items :
            /\ all[n].bytes = item(l, j).bytes /\ item(l, j).img # NoImage
            /\ all[n].img = <<l, item(l, j).img[2]>>
      BY <3>3
    <3>5. k = l /\ item(k, i).img[2] = item(l, j).img[2]
      BY <3>2, <3>4, <2>5
    <3> QED BY <3>2, <3>4, <3>5, <1>4
  <2> QED BY <2>1, <2>2, <2>4, <2>5
<1>6. CASE ~r.merge
  <2>1. Items(r) = parts[1].items /\ 1 \in DOMAIN parts
    BY <1>1, <1>6 DEF Items
  <2>2. parts[1] \in Output /\ parts[1].first = 0
    BY <1>1, <1>2, <2>1 DEF Consecutive
  <2>3. \A i \in DOMAIN parts[1].items : item(1, i).page = item(1, i).source
    BY <1>3, <2>1, <2>2
  <2> QED BY <2>1, <2>2, <2>3, <1>4 DEF Output
<1> QED BY <1>1, <1>5, <1>6

Chunk ==
  [page : Nat, order : Nat, source : Nat, type : {"image"} \cup STRING,
   caption : BOOLEAN, dark : BOOLEAN,
   img : {NoImage} \cup (Nat \X STRING), bytes : {Missing} \cup Seq(STRING),
   bbox : {NoBox} \cup (Int \X Int \X Int \X Int)]

(* The chunks of a request that is carried out.                            *)
LEMMA ChunksOfRequest ==
  ASSUME NEW r \in Requests, r.merge => Mergeable(r)
  PROVE  /\ Chunks(r) \in Seq(Chunk)
         /\ \A n \in DOMAIN Chunks(r) : /\ Chunks(r)[n].page = Chunks(r)[n].source
                                        /\ Chunks(r)[n].order = n - 1
         /\ \A m, n \in DOMAIN Chunks(r) :
              (Chunks(r)[m].img # NoImage /\ Chunks(r)[m].img = Chunks(r)[n].img) =>
                Chunks(r)[m].bytes = Chunks(r)[n].bytes
<1> DEFINE items == Items(r)
           S == {i \in DOMAIN items : Kept(items[i])}
           kept == Selected(items, S)
           N == Len(kept)
           chunks == Chunks(r)
<1>1. /\ items \in Seq(MineruItem) /\ \A n \in DOMAIN items : items[n].page = items[n].source
      /\ \A m, n \in DOMAIN items :
           (items[m].img # NoImage /\ items[m].img = items[n].img) => items[m].bytes = items[n].bytes
  BY ItemsOfRequest
<1>2. S \subseteq DOMAIN items
  OBVIOUS
<1> HIDE DEF items, S
<1>3. kept \in Seq(MineruItem) /\ \A n \in DOMAIN kept : \E i \in DOMAIN items : kept[n] = items[i]
  BY <1>1, <1>2, SelectedFrom
<1>4. chunks = [n \in DOMAIN kept |-> ChunkOf(kept[n], n - 1)]
  BY DEF Chunks, Parse, items, S
<1> HIDE DEF kept, chunks
<1>5. N \in Nat /\ DOMAIN kept = 1..N
  BY <1>3
<1> HIDE DEF N
<1>6. ASSUME NEW n \in 1..N
      PROVE  /\ chunks[n] \in Chunk /\ chunks[n].page = kept[n].page /\ chunks[n].img = kept[n].img
             /\ chunks[n].source = kept[n].source /\ chunks[n].bytes = kept[n].bytes
             /\ chunks[n].order = n - 1
  <2>1. kept[n] \in MineruItem /\ n - 1 \in Nat
    BY <1>3, <1>5
  <2>2. chunks[n] = ChunkOf(kept[n], n - 1)
    BY <1>4, <1>5
  <2>3. (IF kept[n].type = "chart" THEN "image" ELSE kept[n].type) \in {"image"} \cup STRING
    BY <2>1 DEF MineruItem
  <2>4. (kept[n].caption /\ kept[n].type \in {"image", "chart", "table"}) \in BOOLEAN
    OBVIOUS
  <2> QED BY <2>1, <2>2, <2>3, <2>4 DEF ChunkOf, Chunk, MineruItem
<1>7. chunks \in Seq(Chunk) /\ DOMAIN chunks = 1..N
  <2>1. chunks \in [1..N -> Chunk]
    BY <1>4, <1>5, <1>6
  <2> QED BY <1>5, <2>1
<1>8. ASSUME NEW n \in 1..N PROVE chunks[n].page = chunks[n].source
  BY <1>1, <1>3, <1>5, <1>6
<1>9. ASSUME NEW m \in 1..N, NEW n \in 1..N, chunks[m].img # NoImage, chunks[m].img = chunks[n].img
      PROVE  chunks[m].bytes = chunks[n].bytes
  <2>1. PICK i \in DOMAIN items, j \in DOMAIN items : kept[m] = items[i] /\ kept[n] = items[j]
    BY <1>3, <1>5
  <2> QED BY <2>1, <1>1, <1>6, <1>9
<1> QED BY <1>6, <1>7, <1>8, <1>9 DEF chunks

-------------------------------------------------------------------------------
(* What the library holds.                                                 *)

(* The requests that are carried out, and what they put in the library.    *)
Asked == {r \in Requests : r.merge => Mergeable(r)}

Figures(r) == {c \in ToSet(Chunks(r)) : c.img # NoImage}

Made(r) == [kind |-> "mineru", file |-> r.file, chunks |-> Chunks(r)]

Documents ==
  {NoDoc} \cup {[kind |-> "pymupdf", file |-> file, chunks |-> <<>>] : file \in Files}
          \cup {Made(r) : r \in Asked}

Picture(c) == [name |-> c.img, bytes |-> c.bytes]
Clip(r, c) == [name |-> FixedName(c), bytes |-> Region(r.file, c)]
Place(c) == [page |-> c.page, img |-> c.img, bbox |-> c.bbox]
Entry(c) == [page |-> c.page, img |-> c.img, bbox |-> c.bbox, fixed |-> FixedName(c)]

Extracted == UNION {ToSet(Chunks(r)) : r \in Asked}
Pictures == {Picture(c) : c \in Extracted}
Clips == UNION {{Clip(r, c) : c \in ToSet(Chunks(r))} : r \in Asked}
Places == {Place(c) : c \in Extracted}
Entries == {Entry(c) : c \in Extracted}

Unique(files) == \A f, g \in files : f.name = g.name => f = g

Directory ==
  {D \in [images : SUBSET Pictures, fixed : SUBSET Clips, overrides : SUBSET Entries,
          captions : SUBSET Places] : Unique(D.images) /\ Unique(D.fixed)}

LibraryOK ==
  /\ docs \in [Id -> Documents]
  /\ dirs \in [Id -> Directory]
  /\ draft.id \in Id \cup {0} /\ draft.captions \subseteq Places
  /\ commands \in 0..MaxCommands /\ stale \subseteq Id

Pictured(d, c) == Picture(c) \in dirs[d].images

(* An ingest fills the directory of an id that is free, or that the        *)
(* document it replaces has; what it need not copy any more is there.      *)
Ingest(r) ==
  [name : {"ingest"}, file : {r.file}, chunks : {Chunks(r)}, old : SUBSET Id, id : Id,
   todo : Seq(Figures(r))]

IngestOK ==
  \E r \in Asked :
    /\ command \in Ingest(r)
    /\ command.id \in command.old \/ docs[command.id].kind = "none"
    /\ \A c \in Figures(r) : Pictured(command.id, c) \/ c \in ToSet(command.todo)

(* A repair clips chunks of the document it was begun for.                 *)
Repair(d) ==
  [name : {"repair"}, id : {d}, entries : SUBSET Entries, captions : SUBSET Places,
   todo : Seq(ToSet(docs[d].chunks))]

RepairOK == \E d \in Id : docs[d].kind = "mineru" /\ command \in Repair(d)

CommandOK == command = NoCommand \/ IngestOK \/ RepairOK

(* The pictures of a document are in its directory, but while an ingest    *)
(* takes the directory over.                                               *)
FiguresOK ==
  ~StopInPlace =>
    \A d \in Id : docs[d].kind = "mineru" /\ ~(Ingesting /\ command.id = d) =>
      \A c \in ToSet(docs[d].chunks) : c.img # NoImage => Pictured(d, c)

LibraryInv == LibraryOK /\ CommandOK /\ FiguresOK

(* A list of the elements of V that has only elements of W.                *)
LEMMA ListOf ==
  ASSUME NEW V, NEW W, NEW s \in Seq(V), \A n \in DOMAIN s : s[n] \in W
  PROVE  s \in Seq(W)
<1>1. DOMAIN s = 1..Len(s) /\ Len(s) \in Nat /\ s = [n \in 1..Len(s) |-> s[n]]
  OBVIOUS
<1>2. [n \in 1..Len(s) |-> s[n]] \in [1..Len(s) -> W]
  BY <1>1
<1> QED BY <1>1, <1>2

(* The chunks of a request are a list of what is extracted, those picked   *)
(* with an image are its figures, and equal names mean equal bytes.        *)
LEMMA ChunksAsked ==
  ASSUME NEW r \in Asked
  PROVE  /\ ToSet(Chunks(r)) \subseteq Extracted
         /\ \A i \in DOMAIN Chunks(r) : Chunks(r)[i] \in ToSet(Chunks(r))
         /\ \A c \in ToSet(Chunks(r)) : \E i \in DOMAIN Chunks(r) : c = Chunks(r)[i]
         /\ \A c \in ToSet(Chunks(r)) : c.page \in Nat
         /\ \A c, e \in Figures(r) : c.img = e.img => c.bytes = e.bytes
<1>1. r \in Requests /\ (r.merge => Mergeable(r))
  BY DEF Asked
<1> DEFINE chunks == Chunks(r)
<1>2. /\ chunks \in Seq(Chunk)
      /\ \A m, n \in DOMAIN chunks :
           (chunks[m].img # NoImage /\ chunks[m].img = chunks[n].img) =>
             chunks[m].bytes = chunks[n].bytes
  BY <1>1, ChunksOfRequest
<1> HIDE DEF chunks
<1>3. ToSet(chunks) = {chunks[i] : i \in DOMAIN chunks}
  BY DEF ToSet
<1>4. ASSUME NEW i \in DOMAIN chunks PROVE chunks[i].page \in Nat
  <2>1. chunks[i] \in Chunk
    BY <1>2
  <2> QED BY <2>1 DEF Chunk
<1>5. ToSet(chunks) \subseteq Extracted
  BY DEF Extracted, chunks
<1>6. ASSUME NEW c \in ToSet(chunks), NEW e \in ToSet(chunks), c.img # NoImage, c.img = e.img
      PROVE  c.bytes = e.bytes
  BY <1>2, <1>3, <1>6
<1>7. Figures(r) = {c \in ToSet(chunks) : c.img # NoImage}
  BY DEF Figures, chunks
<1> QED BY <1>3, <1>4, <1>5, <1>6, <1>7 DEF chunks

(* A file put in place leaves one file of each name.                       *)
LEMMA PutFile ==
  ASSUME NEW files, Unique(files), NEW f
  PROVE  /\ Unique(Put(files, f)) /\ f \in Put(files, f)
         /\ \A V : files \subseteq V /\ f \in V => Put(files, f) \subseteq V
         /\ \A g \in files : g.name # f.name \/ g = f => g \in Put(files, f)
BY DEF Unique, Put

(* The chunks of a document are those of a request that was carried out.   *)
LEMMA DocumentOf ==
  ASSUME LibraryOK, NEW d \in Id
  PROVE  /\ docs[d] \in Documents /\ docs[d].kind \in {"none", "mineru", "pymupdf"}
         /\ docs[d].kind # "none" => docs[d].file \in Files
         /\ docs[d].kind # "mineru" => docs[d].chunks = <<>>
         /\ docs[d].kind = "mineru" => \E r \in Asked : docs[d] = Made(r)
         /\ ToSet(docs[d].chunks) \subseteq Extracted
<1>1. docs[d] \in Documents
  BY DEF LibraryOK
<1>0. ToSet(<<>>) = {}
  BY DEF ToSet
<1>2. CASE docs[d] = NoDoc
  <2>1. NoDoc.kind = "none"
    BY DEF NoDoc
  <2>2. NoDoc.chunks = <<>>
    BY DEF NoDoc
  <2> QED BY <1>0, <1>1, <1>2, <2>1, <2>2
<1>3. ASSUME NEW file \in Files,
             docs[d] = [kind |-> "pymupdf", file |-> file, chunks |-> <<>>]
      PROVE  /\ docs[d].kind = "pymupdf" /\ docs[d].file \in Files /\ docs[d].chunks = <<>>
             /\ ToSet(docs[d].chunks) \subseteq Extracted
  BY <1>0, <1>3
<1>4. ASSUME NEW r \in Asked, docs[d] = Made(r)
      PROVE  /\ docs[d].kind = "mineru" /\ docs[d].file \in Files
             /\ ToSet(docs[d].chunks) \subseteq Extracted
  <2>1. r.file \in Files
    BY ConstantsAssumption DEF Asked
  <2>2. docs[d].kind = "mineru" /\ docs[d].file = r.file /\ docs[d].chunks = Chunks(r)
    BY <1>4 DEF Made
  <2> QED BY <2>1, <2>2, ChunksAsked
<1> QED BY <1>1, <1>2, <1>3, <1>4 DEF Documents

(* A directory that gets one more picture or clip is a directory.          *)
LEMMA DirectoryFiles ==
  ASSUME NEW D \in Directory
  PROVE  /\ Unique(D.images) /\ Unique(D.fixed) /\ DOMAIN D = DOMAIN EmptyDir
         /\ \A f \in Pictures : [D EXCEPT !.images = Put(D.images, f)] \in Directory
         /\ \A f \in Clips : [D EXCEPT !.fixed = Put(D.fixed, f)] \in Directory
         /\ \A O \in SUBSET Entries, K \in SUBSET Places :
              [D EXCEPT !.overrides = O, !.captions = K] \in Directory
         /\ EmptyDir \in Directory
<1>1. /\ Unique(D.images) /\ Unique(D.fixed)
      /\ D \in [images : SUBSET Pictures, fixed : SUBSET Clips, overrides : SUBSET Entries,
                captions : SUBSET Places]
  BY DEF Directory
<1>2. ASSUME NEW f \in Pictures PROVE [D EXCEPT !.images = Put(D.images, f)] \in Directory
  <2>1. Put(D.images, f) \in SUBSET Pictures /\ Unique(Put(D.images, f))
    BY <1>1, PutFile
  <2> QED BY <1>1, <2>1 DEF Directory
<1>3. ASSUME NEW f \in Clips PROVE [D EXCEPT !.fixed = Put(D.fixed, f)] \in Directory
  <2>1. Put(D.fixed, f) \in SUBSET Clips /\ Unique(Put(D.fixed, f))
    BY <1>1, PutFile
  <2> QED BY <1>1, <2>1 DEF Directory
<1>4. ASSUME NEW O \in SUBSET Entries, NEW K \in SUBSET Places
      PROVE  [D EXCEPT !.overrides = O, !.captions = K] \in Directory
  BY <1>1 DEF Directory
<1>5. EmptyDir \in Directory
  BY DEF EmptyDir, Directory, Unique
<1>6. DOMAIN D = DOMAIN EmptyDir
  BY <1>1 DEF EmptyDir
<1> QED BY <1>1, <1>2, <1>3, <1>4, <1>5, <1>6

(* Initially the library is empty.                                         *)
LEMMA LibraryInit == Init => LibraryInv
<1> SUFFICES ASSUME Init PROVE LibraryInv
  OBVIOUS
<1>1. LibraryOK
  <2>1. EmptyDir \in Directory
    BY DEF EmptyDir, Directory, Unique
  <2> QED BY <2>1, ConstantsAssumption DEF Init, LibraryOK, Documents, NoDraft
<1>2. CommandOK
  BY DEF Init, CommandOK
<1>3. FiguresOK
  BY DEF Init, FiguresOK, NoDoc
<1> QED BY <1>1, <1>2, <1>3 DEF LibraryInv

(* An ingest is begun for an id that is free or its own document's.        *)
LEMMA BeginIngestStep ==
  ASSUME LibraryInv, NEW r \in Requests, BeginIngest(r)
  PROVE  LibraryInv'
<1>1. r \in Asked
  BY DEF BeginIngest, Asked
<1> DEFINE chunks == Chunks(r)
           S == {i \in DOMAIN chunks : chunks[i].img # NoImage}
           todo == Selected(chunks, S)
           old == Existing(r.file)
<1>2. PICK id \in NextIds(Taken \ old) :
        command' = [name |-> "ingest", file |-> r.file, chunks |-> chunks, old |-> old,
                    id |-> id, todo |-> todo]
  BY DEF BeginIngest
<1>3. /\ UNCHANGED <<docs, dirs, draft, stale>> /\ command = NoCommand
      /\ commands' \in 0..MaxCommands
  BY ConstantsAssumption DEF BeginIngest, BeginCommand, LibraryInv, LibraryOK
<1>4. id \in Id /\ (id \in old \/ docs[id].kind = "none") /\ old \in SUBSET Id
  <2>1. id \in Id /\ \A k \in Taken \ old : k < id
    BY DEF NextIds
  <2>2. id \notin Taken \ old
    BY <2>1 DEF Id
  <2> QED BY <2>1, <2>2 DEF Taken, Existing
<1>5. todo \in Seq(Figures(r)) /\ \A c \in Figures(r) : c \in ToSet(todo)
  <2>1. chunks \in Seq(Chunk) /\ S \subseteq DOMAIN chunks
    BY <1>1, ChunksOfRequest DEF Asked
  <2>2. /\ \A i \in DOMAIN chunks : chunks[i] \in ToSet(chunks)
        /\ \A c \in ToSet(chunks) : \E i \in DOMAIN chunks : c = chunks[i]
    BY <1>1, ChunksAsked
  <2>3. \A i \in S : chunks[i] \in Figures(r)
    BY <2>2 DEF Figures
  <2>4. \A c \in Figures(r) : \E i \in S : c = chunks[i]
    BY <2>2 DEF Figures
  <2> HIDE DEF chunks, S
  <2>5. /\ todo \in Seq(Chunk)
        /\ \A n \in DOMAIN todo : \E i \in S : todo[n] = chunks[i]
        /\ \A i \in S : \E n \in DOMAIN todo : todo[n] = chunks[i]
    BY <2>1, SelectedFrom
  <2> HIDE DEF todo
  <2>6. \A n \in DOMAIN todo : todo[n] \in Figures(r)
    BY <2>3, <2>5
  <2>7. todo \in Seq(Figures(r))
    BY <2>5, <2>6, ListOf
  <2>8. \A c \in Figures(r) : c \in ToSet(todo)
    BY <2>4, <2>5 DEF ToSet
  <2> QED BY <2>7, <2>8
<1> HIDE DEF todo, old
<1>6. CommandOK'
  <2>1. command' \in Ingest(r)
    BY <1>2, <1>4, <1>5 DEF Ingest
  <2>2. command'.id = id /\ command'.old = old /\ command'.todo = todo
    BY <1>2
  <2>3. IngestOK'
    BY <1>1, <1>3, <1>4, <1>5, <2>1, <2>2 DEF IngestOK
  <2> QED BY <2>3 DEF CommandOK
<1>7. FiguresOK'
  BY <1>3 DEF LibraryInv, FiguresOK, Ingesting, NoCommand, Pictured
<1>8. LibraryOK'
  BY <1>3 DEF LibraryInv, LibraryOK
<1> QED BY <1>6, <1>7, <1>8 DEF LibraryInv

(* What a command that is under way has.                                   *)
LEMMA IngestUnderWay ==
  ASSUME CommandOK, Ingesting
  PROVE  /\ IngestOK /\ command # NoCommand
         /\ NoCommand.name = "none" /\ NoCommand # command
BY DEF CommandOK, IngestOK, RepairOK, Ingest, Repair, Ingesting, NoCommand

(* A copied image is in the directory it is copied to.                     *)
LEMMA CopyImageStep ==
  ASSUME LibraryInv, CopyImage
  PROVE  LibraryInv'
<1>1. Ingesting /\ command.todo # <<>> /\ UNCHANGED <<docs, draft, commands, stale>>
  BY DEF CopyImage
<1>2. PICK r \in Asked :
        /\ command \in Ingest(r)
        /\ command.id \in command.old \/ docs[command.id].kind = "none"
        /\ \A c \in Figures(r) : Pictured(command.id, c) \/ c \in ToSet(command.todo)
  BY <1>1, IngestUnderWay DEF LibraryInv, IngestOK
<1> DEFINE id == command.id
           todo == command.todo
           x == Head(todo)
<1>3. /\ id \in Id /\ todo \in Seq(Figures(r)) /\ x \in Figures(r)
      /\ Tail(todo) \in Seq(Figures(r))
      /\ \A c \in ToSet(todo) : c = x \/ c \in ToSet(Tail(todo))
  <2>1. id \in Id /\ todo \in Seq(Figures(r)) /\ todo # <<>>
    BY <1>1, <1>2 DEF Ingest
  <2> HIDE DEF todo, id
  <2>2. x \in Figures(r) /\ Tail(todo) \in Seq(Figures(r))
    BY <2>1
  <2>3. ASSUME NEW i \in DOMAIN todo, i # 1
        PROVE  i - 1 \in DOMAIN Tail(todo) /\ Tail(todo)[i - 1] = todo[i]
    BY <2>1, <2>3
  <2>4. \A i \in DOMAIN todo : i # 1 => todo[i] \in ToSet(Tail(todo))
    BY <2>3 DEF ToSet
  <2>5. x = todo[1]
    BY <2>1
  <2> QED BY <2>1, <2>2, <2>4, <2>5 DEF ToSet
<1>4. Picture(x) \in Pictures
  BY <1>3, ChunksAsked DEF Figures, Pictures
<1>5. dirs \in [Id -> Directory] /\ dirs[id] \in Directory
  BY <1>3 DEF LibraryInv, LibraryOK
<1> DEFINE D == [dirs[id] EXCEPT !.images = Put(dirs[id].images, Picture(x))]
<1>6. D \in Directory /\ D.images = Put(dirs[id].images, Picture(x))
  <2>1. D \in Directory
    BY <1>4, <1>5, DirectoryFiles
  <2>2. D.images = Put(dirs[id].images, Picture(x))
    BY <1>5 DEF Directory
  <2> QED BY <2>1, <2>2
<1>7. dirs' = [dirs EXCEPT ![id] = D] /\ command' = [command EXCEPT !.todo = Tail(todo)]
  BY DEF CopyImage, Picture
<1> HIDE DEF D
<1>8. /\ command' \in Ingest(r) /\ command'.id = id /\ command'.old = command.old
      /\ command'.todo = Tail(todo)
  BY <1>2, <1>3, <1>7 DEF Ingest
<1>9. dirs' \in [Id -> Directory] /\ dirs'[id] = D /\ \A d \in Id : d # id => dirs'[d] = dirs[d]
  BY <1>3, <1>5, <1>6, <1>7
<1> HIDE DEF id, todo, x
<1>10. /\ Picture(x) \in D.images
       /\ \A g \in dirs[id].images : g.name # Picture(x).name \/ g = Picture(x) => g \in D.images
  <2>1. Unique(dirs[id].images)
    BY <1>5, DirectoryFiles
  <2> QED BY <1>6, <2>1, PutFile
<1>11. ASSUME NEW c \in Figures(r)
       PROVE  Picture(c) \in dirs'[id].images \/ c \in ToSet(Tail(todo))
  <2>1. CASE c = x
    BY <1>3, <1>9, <1>10, <2>1
  <2>2. CASE c # x /\ Picture(c) \in dirs[id].images
    <3>1. Picture(c).name = Picture(x).name => Picture(c) = Picture(x)
      BY <1>3, ChunksAsked DEF Picture
    <3> QED BY <1>3, <1>9, <1>10, <2>2, <3>1
  <2>3. Pictured(id, c) \/ c \in ToSet(todo)
    BY <1>2 DEF id, todo
  <2> QED BY <1>3, <2>1, <2>2, <2>3 DEF Pictured
<1>12. CommandOK'
  <2>1. command'.id \in command'.old \/ docs'[command'.id].kind = "none"
    BY <1>1, <1>2, <1>8 DEF id
  <2>2. \A c \in Figures(r) : Pictured(command.id, c)' \/ c \in ToSet(command'.todo)
    <3> TAKE c \in Figures(r)
    <3>1. Picture(c) \in dirs'[id].images \/ c \in ToSet(Tail(todo))
      BY <1>11
    <3> QED BY <1>8, <3>1 DEF Pictured, id
  <2>3. IngestOK'
    BY <1>8, <2>1, <2>2 DEF IngestOK
  <2> QED BY <2>3 DEF CommandOK
<1>13. FiguresOK'
  <2> SUFFICES ASSUME ~StopInPlace, NEW d \in Id, docs[d].kind = "mineru", d # id,
                      NEW c \in ToSet(docs[d].chunks), c.img # NoImage
               PROVE  Picture(c) \in dirs'[d].images
    BY <1>1, <1>8 DEF FiguresOK, Pictured, Ingesting, Ingest
  <2> QED BY <1>9 DEF LibraryInv, FiguresOK, Pictured, id
<1>14. LibraryOK'
  BY <1>1, <1>9 DEF LibraryInv, LibraryOK
<1> QED BY <1>12, <1>13, <1>14 DEF LibraryInv

(* A document is committed once all its pictures are in its directory.     *)
LEMMA CommitIngestStep ==
  ASSUME LibraryInv, CommitIngest
  PROVE  LibraryInv'
<1>1. Ingesting /\ command.todo = <<>> /\ UNCHANGED <<dirs, draft, commands>>
      /\ command' = NoCommand
  BY DEF CommitIngest
<1>2. PICK r \in Asked :
        /\ command \in Ingest(r)
        /\ command.id \in command.old \/ docs[command.id].kind = "none"
        /\ \A c \in Figures(r) : Pictured(command.id, c) \/ c \in ToSet(command.todo)
  BY <1>1, IngestUnderWay DEF LibraryInv, IngestOK
<1> DEFINE id == command.id
<1>3. id \in Id /\ command.file = r.file /\ command.chunks = Chunks(r)
  BY <1>2 DEF Ingest
<1>4. docs' = [d \in Id |-> IF d = id THEN Made(r)
                            ELSE IF d \in command.old THEN NoDoc ELSE docs[d]]
  BY <1>3 DEF CommitIngest, Made
<1>5. Made(r) \in Documents /\ NoDoc \in Documents /\ docs \in [Id -> Documents]
  BY <1>2 DEF Documents, LibraryInv, LibraryOK
<1> HIDE DEF id
<1>6. docs' \in [Id -> Documents] /\ docs'[id] = Made(r)
      /\ \A d \in Id : d # id => docs'[d] = NoDoc \/ docs'[d] = docs[d]
  BY <1>3, <1>4, <1>5
<1>7. \A c \in Figures(r) : Pictured(id, c)
  <2>1. ToSet(<<>>) = {}
    BY DEF ToSet
  <2> QED BY <1>1, <1>2, <2>1 DEF id
<1>8. FiguresOK'
  <2> SUFFICES ASSUME ~StopInPlace, NEW d \in Id, docs'[d].kind = "mineru",
                      NEW c \in ToSet(docs'[d].chunks), c.img # NoImage
               PROVE  Picture(c) \in dirs[d].images
    BY <1>1 DEF FiguresOK, Pictured
  <2>1. CASE d = id
    BY <1>6, <1>7, <2>1 DEF Made, Figures, Pictured
  <2>2. CASE d # id
    <3>1. NoDoc.kind = "none"
      BY DEF NoDoc
    <3>2. docs'[d] = docs[d]
      BY <1>6, <2>2, <3>1
    <3> QED BY <2>2, <3>2 DEF LibraryInv, FiguresOK, Pictured, id
  <2> QED BY <2>1, <2>2
<1>9. stale' \subseteq Id
  BY <1>2 DEF CommitIngest, Ingest, LibraryInv, LibraryOK
<1>10. LibraryOK' /\ CommandOK'
  BY <1>1, <1>6, <1>9 DEF LibraryInv, LibraryOK, CommandOK
<1> QED BY <1>8, <1>10 DEF LibraryInv

(* A stopped ingest has not touched the directory of a document, unless it *)
(* was stopped in place.                                                   *)
LEMMA StopIngestStep ==
  ASSUME LibraryInv, FailIngest \/ KillIngest
  PROVE  LibraryInv'
<1>1. /\ Ingesting /\ UNCHANGED <<docs, draft, commands>> /\ command' = NoCommand
      /\ StopInPlace \/ command.id \notin command.old
      /\ dirs' = [dirs EXCEPT ![command.id] = EmptyDir] \/ dirs' = dirs
      /\ stale' \subseteq stale
  BY DEF FailIngest, KillIngest, InPlace
<1>2. PICK r \in Asked :
        /\ command \in Ingest(r)
        /\ command.id \in command.old \/ docs[command.id].kind = "none"
  BY <1>1, IngestUnderWay DEF LibraryInv, IngestOK
<1> DEFINE id == command.id
<1>3. id \in Id /\ (~StopInPlace => docs[id].kind = "none")
  BY <1>1, <1>2 DEF Ingest
<1>4. dirs \in [Id -> Directory] /\ EmptyDir \in Directory
  BY DEF LibraryInv, LibraryOK, EmptyDir, Directory, Unique
<1> HIDE DEF id
<1>5. dirs' \in [Id -> Directory] /\ \A d \in Id : d # id => dirs'[d] = dirs[d]
  BY <1>1, <1>3, <1>4 DEF id
<1>6. FiguresOK'
  <2> SUFFICES ASSUME ~StopInPlace, NEW d \in Id, docs[d].kind = "mineru",
                      NEW c \in ToSet(docs[d].chunks), c.img # NoImage
               PROVE  Picture(c) \in dirs'[d].images
    BY <1>1 DEF FiguresOK, Pictured
  <2>1. d # id
    BY <1>3
  <2> QED BY <1>5, <2>1 DEF LibraryInv, FiguresOK, Pictured, id
<1>7. LibraryOK' /\ CommandOK'
  BY <1>1, <1>5 DEF LibraryInv, LibraryOK, CommandOK
<1> QED BY <1>6, <1>7 DEF LibraryInv

(* 1.x documents come and go in rows that no 2.0 document has.             *)
LEMMA LegacyStep ==
  ASSUME LibraryInv,
         \/ \E file \in Files : AddLegacy(file)
         \/ \E d \in Id : SweepLegacy(d)
  PROVE  LibraryInv'
<1>1. /\ command = NoCommand /\ UNCHANGED <<dirs, draft, command, stale>>
      /\ commands' \in 0..MaxCommands
  BY ConstantsAssumption
     DEF AddLegacy, SweepLegacy, BeginCommand, LibraryInv, LibraryOK
<1>2. docs \in [Id -> Documents] /\ NoDoc \in Documents
  BY DEF LibraryInv, LibraryOK, Documents
<1> DEFINE Stays(d) == docs'[d] = docs[d] \/ docs'[d].kind # "mineru"
<1>3. ASSUME NEW file \in Files, AddLegacy(file)
      PROVE  docs' \in [Id -> Documents] /\ \A d \in Id : Stays(d)
  <2> DEFINE new == [kind |-> "pymupdf", file |-> file, chunks |-> <<>>]
  <2>1. PICK id \in NextIds(Taken) : docs' = [docs EXCEPT ![id] = new]
    BY <1>3 DEF AddLegacy
  <2>2. id \in Id /\ new \in Documents /\ new.kind = "pymupdf"
    BY DEF NextIds, Documents
  <2> HIDE DEF new
  <2> QED BY <1>2, <2>1, <2>2
<1>4. ASSUME NEW e \in Id, SweepLegacy(e)
      PROVE  docs' \in [Id -> Documents] /\ \A d \in Id : Stays(d)
  <2>1. NoDoc.kind = "none"
    BY DEF NoDoc
  <2> QED BY <1>2, <1>4, <2>1 DEF SweepLegacy
<1>5. docs' \in [Id -> Documents] /\ \A d \in Id : Stays(d)
  BY <1>3, <1>4
<1>6. LibraryOK' /\ CommandOK'
  BY <1>1, <1>5 DEF LibraryInv, LibraryOK, CommandOK
<1>7. FiguresOK'
  BY <1>1, <1>5 DEF LibraryInv, FiguresOK, Pictured, Ingesting, NoCommand
<1> QED BY <1>6, <1>7 DEF LibraryInv

(* A report names places of the document it is made for.                   *)
LEMMA DetectRepairsStep ==
  ASSUME LibraryInv, NEW d \in Id, DetectRepairs(d)
  PROVE  LibraryInv'
<1>1. /\ command = NoCommand /\ UNCHANGED <<docs, dirs, command, stale>>
      /\ commands' \in 0..MaxCommands
  BY ConstantsAssumption DEF DetectRepairs, BeginCommand, LibraryInv, LibraryOK
<1>2. Mispaired(d) \subseteq Extracted
  BY DocumentOf DEF LibraryInv, Mispaired, ImageChunks
<1>3. draft' = [id |-> d,
                allow |-> {c.img : c \in {e \in Degraded(d) : Clippable(e)}},
                captions |-> {Place(c) : c \in {e \in Mispaired(d) : Clippable(e)}}]
  BY DEF DetectRepairs, Place
<1>4. draft'.id = d /\ draft'.captions \subseteq Places
  BY <1>2, <1>3 DEF Places
<1>5. LibraryOK' /\ CommandOK'
  BY <1>1, <1>4 DEF LibraryInv, LibraryOK, CommandOK
<1>6. FiguresOK'
  BY <1>1 DEF LibraryInv, FiguresOK, Pictured, Ingesting
<1> QED BY <1>5, <1>6 DEF LibraryInv

(* A repair is begun for chunks of a document of the library.              *)
LEMMA BeginRepairStep ==
  ASSUME LibraryInv, NEW d \in Id, NEW allow, NEW captions \in SUBSET draft.captions,
         BeginRepair(d, allow, captions)
  PROVE  LibraryInv'
<1>1. /\ command = NoCommand /\ UNCHANGED <<docs, dirs, draft, stale>>
      /\ docs[d].kind = "mineru" /\ commands' \in 0..MaxCommands
  BY ConstantsAssumption DEF BeginRepair, BeginCommand, LibraryInv, LibraryOK
<1> DEFINE chunks == docs[d].chunks
           S == {i \in DOMAIN chunks :
                   LET c == chunks[i] IN c \in Degraded(d) /\ c.img \in allow /\ Clippable(c)}
           todo == Selected(chunks, S)
<1>2. command' = [name |-> "repair", id |-> d, entries |-> {}, captions |-> captions,
                  todo |-> todo]
  BY DEF BeginRepair
<1>3. todo \in Seq(ToSet(chunks))
  <2>1. PICK r \in Asked : docs[d] = Made(r)
    BY <1>1, DocumentOf DEF LibraryInv
  <2>2. chunks = Chunks(r)
    BY <2>1 DEF Made
  <2>3. chunks \in Seq(Chunk) /\ \A i \in DOMAIN chunks : chunks[i] \in ToSet(chunks)
    BY <2>2, ChunksOfRequest, ChunksAsked DEF Asked
  <2>4. S \subseteq DOMAIN chunks
    OBVIOUS
  <2> HIDE DEF chunks, S
  <2>5. todo \in Seq(Chunk) /\ \A n \in DOMAIN todo : \E i \in S : todo[n] = chunks[i]
    BY <2>3, <2>4, SelectedFrom
  <2> HIDE DEF todo
  <2> QED BY <2>3, <2>4, <2>5, ListOf
<1> HIDE DEF todo
<1>4. command' \in Repair(d)'
  BY <1>1, <1>2, <1>3 DEF Repair, LibraryInv, LibraryOK
<1>5. CommandOK'
  BY <1>1, <1>4 DEF CommandOK, RepairOK
<1>6. LibraryOK'
  BY <1>1 DEF LibraryInv, LibraryOK
<1>7. FiguresOK'
  BY <1>1 DEF LibraryInv, FiguresOK, Pictured, Ingesting, NoCommand
<1> QED BY <1>5, <1>6, <1>7 DEF LibraryInv

(* What a repair that is under way has.                                    *)
LEMMA RepairUnderWay ==
  ASSUME CommandOK, Repairing
  PROVE  RepairOK /\ ~Ingesting
BY DEF CommandOK, IngestOK, Ingest, Repairing, Ingesting, NoCommand

(* A clip goes beside the pictures, with an entry for its place.           *)
LEMMA ClipFigureStep ==
  ASSUME LibraryInv, ClipFigure
  PROVE  LibraryInv'
<1>1. /\ Repairing /\ ~Ingesting /\ command.todo # <<>>
      /\ UNCHANGED <<docs, draft, commands, stale>>
  BY RepairUnderWay DEF ClipFigure, LibraryInv
<1>2. PICK id \in Id : docs[id].kind = "mineru" /\ command \in Repair(id)
  BY <1>1, RepairUnderWay DEF LibraryInv, RepairOK
<1>3. PICK r \in Asked : docs[id] = Made(r)
  BY <1>2, DocumentOf DEF LibraryInv
<1> DEFINE todo == command.todo
           x == Head(todo)
<1>4. command.id = id /\ docs[id].file = r.file /\ docs[id].chunks = Chunks(r)
  BY <1>2, <1>3 DEF Made, Repair
<1>5. x \in ToSet(Chunks(r)) /\ Tail(todo) \in Seq(ToSet(docs[id].chunks))
  <2>1. todo \in Seq(ToSet(docs[id].chunks)) /\ todo # <<>>
    BY <1>1, <1>2 DEF Repair
  <2> HIDE DEF todo
  <2> QED BY <1>4, <2>1
<1>6. Clip(r, x) \in Clips /\ Entry(x) \in Entries
  BY <1>5, ChunksAsked DEF Clips, Entries
<1>7. dirs \in [Id -> Directory] /\ dirs[id] \in Directory
  BY DEF LibraryInv, LibraryOK
<1> DEFINE D == [dirs[id] EXCEPT !.fixed = Put(dirs[id].fixed, Clip(r, x))]
<1>8. D \in Directory /\ D.images = dirs[id].images
  <2>1. D \in Directory
    BY <1>6, <1>7, DirectoryFiles
  <2>2. D.images = dirs[id].images
    BY <1>7 DEF Directory
  <2> QED BY <2>1, <2>2
<1>9. /\ dirs' = [dirs EXCEPT ![id] = D]
      /\ command' = [command EXCEPT !.todo = Tail(todo),
                                    !.entries = command.entries \cup {Entry(x)}]
  BY <1>4 DEF ClipFigure, Clip, Entry
<1> HIDE DEF D, x, todo
<1>10. dirs' \in [Id -> Directory] /\ \A d \in Id : dirs'[d].images = dirs[d].images
  BY <1>7, <1>8, <1>9
<1>11. command' \in Repair(id)' /\ command'.name = "repair"
  BY <1>1, <1>2, <1>5, <1>6, <1>9 DEF Repair
<1>12. CommandOK'
  BY <1>1, <1>2, <1>11 DEF CommandOK, RepairOK
<1>13. LibraryOK'
  BY <1>1, <1>10 DEF LibraryInv, LibraryOK
<1>14. FiguresOK'
  BY <1>1, <1>10 DEF LibraryInv, FiguresOK, Pictured, Ingesting
<1> QED BY <1>12, <1>13, <1>14 DEF LibraryInv

(* The manifest and the caption corrections are of the library's chunks.   *)
LEMMA EndRepairStep ==
  ASSUME LibraryInv, SaveOverrides \/ KillRepair
  PROVE  LibraryInv'
<1>1. /\ Repairing /\ ~Ingesting /\ UNCHANGED <<docs, draft, commands>>
      /\ command' = NoCommand /\ stale' \subseteq stale
  BY RepairUnderWay DEF SaveOverrides, KillRepair, LibraryInv
<1>2. PICK id \in Id : command \in Repair(id)
  BY <1>1, RepairUnderWay DEF LibraryInv, RepairOK
<1>3. command.id = id /\ command.entries \in SUBSET Entries /\ command.captions \in SUBSET Places
  BY <1>2 DEF Repair
<1>4. dirs \in [Id -> Directory] /\ dirs[id] \in Directory
  BY DEF LibraryInv, LibraryOK
<1> DEFINE D == [dirs[id] EXCEPT !.overrides = command.entries, !.captions = command.captions]
<1>5. D \in Directory /\ D.images = dirs[id].images
  <2>1. D \in Directory
    BY <1>3, <1>4, DirectoryFiles
  <2>2. D.images = dirs[id].images
    BY <1>4 DEF Directory
  <2> QED BY <2>1, <2>2
<1>6. dirs' = dirs \/ dirs' = [dirs EXCEPT ![id] = D]
  BY <1>3, <1>4 DEF SaveOverrides, KillRepair
<1> HIDE DEF D
<1>7. dirs' \in [Id -> Directory] /\ \A d \in Id : dirs'[d].images = dirs[d].images
  BY <1>4, <1>5, <1>6
<1>8. LibraryOK' /\ CommandOK'
  BY <1>1, <1>7 DEF LibraryInv, LibraryOK, CommandOK
<1>9. FiguresOK'
  BY <1>1, <1>7 DEF LibraryInv, FiguresOK, Pictured, Ingesting
<1> QED BY <1>8, <1>9 DEF LibraryInv

(* Every step keeps the library's directories and documents together.      *)
LEMMA LibraryStep == LibraryInv /\ [Next]_vars => LibraryInv'
<1> SUFFICES ASSUME LibraryInv, [Next]_vars PROVE LibraryInv'
  OBVIOUS
<1>1. CASE UNCHANGED vars
  BY <1>1
     DEF vars, LibraryInv, LibraryOK, CommandOK, FiguresOK, IngestOK, RepairOK, Repair,
         Pictured, Ingesting
<1> QED
  BY <1>1, BeginIngestStep, CopyImageStep, CommitIngestStep, StopIngestStep, LegacyStep,
     DetectRepairsStep, BeginRepairStep, ClipFigureStep, EndRepairStep DEF Next

(* In every reachable state the library's parts fit together.              *)
LEMMA Library == Spec => []LibraryInv
BY LibraryInit, LibraryStep, PTL DEF Spec

(* In every state a directory has one file of each name, and a document,   *)
(* a report and a command are what they should be.                         *)
THEOREM Types == Spec => []TypeOK
<1>1. LibraryInv => TypeOK
  <2> SUFFICES ASSUME LibraryInv PROVE TypeOK
    OBVIOUS
  <2>1. LibraryOK /\ CommandOK
    BY DEF LibraryInv
  <2>2. command.name \in {"none", "ingest", "repair"}
    BY <2>1 DEF CommandOK, IngestOK, RepairOK, Ingest, Repair, NoCommand
  <2>3. ASSUME NEW d \in Id
        PROVE  /\ DOMAIN dirs[d] = DOMAIN EmptyDir
               /\ Unique(dirs[d].images) /\ Unique(dirs[d].fixed)
               /\ dirs[d].overrides \subseteq Entries
    <3>1. dirs[d] \in Directory
      BY <2>1 DEF LibraryOK
    <3> QED BY <3>1, DirectoryFiles DEF Directory
  <2>4. ASSUME NEW o \in Entries
        PROVE  DOMAIN o = {"page", "img", "bbox", "fixed"} /\ o.page \in Nat
    <3>1. PICK c \in Extracted : o = Entry(c)
      BY DEF Entries
    <3>2. c.page \in Nat
      BY ChunksAsked DEF Extracted
    <3> QED BY <3>1, <3>2 DEF Entry
  <2>5. \A d \in Id : /\ docs[d].kind \in {"none", "mineru", "pymupdf"}
                      /\ docs[d].kind # "none" => docs[d].file \in Files
    BY <2>1, DocumentOf
  <2> QED BY <2>1, <2>2, <2>3, <2>4, <2>5 DEF TypeOK, LibraryOK, Unique
<1> QED BY <1>1, Library, PTL

(* However the PDF was split into outputs, every chunk of every document   *)
(* stands on the page of the whole PDF it was extracted from, in order.    *)
THEOREM OnTheirPages == Spec => []ChunksOnTheirPages
<1>1. LibraryInv => ChunksOnTheirPages
  <2> SUFFICES ASSUME LibraryInv, NEW d \in Id, NEW i \in DOMAIN docs[d].chunks
               PROVE  /\ docs[d].chunks[i].page = docs[d].chunks[i].source
                      /\ docs[d].chunks[i].order = i - 1
    BY DEF ChunksOnTheirPages
  <2>1. docs[d].kind = "mineru"
    <3>1. DOMAIN <<>> = {}
      OBVIOUS
    <3> QED BY <3>1, DocumentOf DEF LibraryInv
  <2>2. PICK r \in Asked : docs[d] = Made(r)
    BY <2>1, DocumentOf DEF LibraryInv
  <2>3. docs[d].chunks = Chunks(r)
    BY <2>2 DEF Made
  <2> QED BY <2>3, ChunksOfRequest DEF Asked
<1> QED BY <1>1, Library, PTL

-------------------------------------------------------------------------------
(* Manifests that are not stale.                                           *)

(* The entries O are of chunks of document d, and what their clips show is *)
(* the chunk's box in the document's PDF.                                  *)
ClipsOf(d, e) ==
  \A f \in dirs[d].fixed : f.name = FixedName(e) => f.bytes = Region(docs[d].file, e)

Sound(d, O) == \A o \in O : \E e \in ToSet(docs[d].chunks) : o = Entry(e) /\ ClipsOf(d, e)

ManifestOK ==
  /\ \A d \in Id : docs[d].kind = "mineru" /\ d \notin stale => Sound(d, dirs[d].overrides)
  /\ Repairing => Sound(command.id, command.entries)

(* Chunks of a document are told apart by their order.                     *)
LEMMA OrderTells ==
  ASSUME LibraryInv, NEW d \in Id, NEW c \in ToSet(docs[d].chunks),
         NEW e \in ToSet(docs[d].chunks), c.order = e.order
  PROVE  c = e
<1>1. docs[d].kind = "mineru"
  <2>1. ToSet(<<>>) = {}
    BY DEF ToSet
  <2> QED BY <2>1, DocumentOf DEF LibraryInv
<1>2. PICK r \in Asked : docs[d] = Made(r)
  BY <1>1, DocumentOf DEF LibraryInv
<1>3. docs[d].chunks = Chunks(r) /\ r \in Requests /\ (r.merge => Mergeable(r))
  BY <1>2 DEF Made, Asked
<1>4. PICK i \in DOMAIN Chunks(r), j \in DOMAIN Chunks(r) : c = Chunks(r)[i] /\ e = Chunks(r)[j]
  BY <1>3, ChunksAsked
<1>5. c.order = i - 1 /\ e.order = j - 1
  BY <1>3, <1>4, ChunksOfRequest
<1>6. i \in Int /\ j \in Int
  BY <1>3, ChunksOfRequest
<1> QED BY <1>4, <1>5, <1>6

(* A manifest stays sound as long as its clips and its document stay.      *)
LEMMA SoundStays ==
  ASSUME NEW d, NEW O, Sound(d, O), docs'[d] = docs[d], dirs'[d].fixed = dirs[d].fixed
  PROVE  Sound(d, O)'
BY DEF Sound, ClipsOf, Entry, FixedName, Region

(* An ingest copies pictures only, and a document that comes into a        *)
(* directory with a manifest makes it stale.                               *)
LEMMA ManifestIngest ==
  ASSUME LibraryInv, ManifestOK, CopyImage \/ CommitIngest \/ FailIngest \/ KillIngest
  PROVE  ManifestOK'
<1>0. Ingesting
  BY DEF CopyImage, CommitIngest, FailIngest, KillIngest
<1>1. PICK r \in Asked : command \in Ingest(r)
  BY <1>0, IngestUnderWay DEF LibraryInv, IngestOK
<1>2. command.id \in Id /\ dirs \in [Id -> Directory] /\ docs \in [Id -> Documents]
  BY <1>1 DEF Ingest, LibraryInv, LibraryOK
<1>6. ~Repairing'
  <2>1. CASE CopyImage
    <3>1. command'.name = "ingest"
      BY <1>0, <1>1, <2>1 DEF CopyImage, Ingesting, Ingest
    <3> QED BY <3>1 DEF Repairing
  <2>2. CASE command' = NoCommand
    BY <2>2 DEF NoCommand, Repairing
  <2> QED BY <2>1, <2>2 DEF CommitIngest, FailIngest, KillIngest
<1>3. CASE CopyImage
  <2>1. /\ docs' = docs /\ stale' = stale
        /\ \A d \in Id : /\ dirs'[d].fixed = dirs[d].fixed
                         /\ dirs'[d].overrides = dirs[d].overrides
    BY <1>2, <1>3 DEF CopyImage, Directory
  <2> QED BY <1>6, <2>1, SoundStays DEF ManifestOK
<1>4. CASE CommitIngest
  <2>1. dirs' = dirs /\ (dirs[command.id].overrides = {} \/ command.id \in stale')
        /\ stale \subseteq stale'
    BY <1>4 DEF CommitIngest
  <2>2. \A d \in Id : d = command.id \/ docs'[d] = docs[d] \/ docs'[d].kind # "mineru"
    <3>1. NoDoc.kind # "mineru"
      BY DEF NoDoc
    <3> QED BY <1>4, <3>1 DEF CommitIngest
  <2>3. ASSUME NEW d \in Id, docs'[d].kind = "mineru", d \notin stale'
        PROVE  Sound(d, dirs[d].overrides)'
    <3>1. CASE d = command.id
      BY <2>1, <2>3, <3>1 DEF Sound
    <3>2. CASE docs'[d] = docs[d]
      <4>1. Sound(d, dirs[d].overrides)
        BY <2>1, <2>3, <3>2 DEF ManifestOK
      <4> QED BY <2>1, <3>2, <4>1, SoundStays
    <3> QED BY <2>2, <2>3, <3>1, <3>2
  <2> QED BY <1>6, <2>3 DEF ManifestOK
<1>5. CASE FailIngest \/ KillIngest
  <2>1. docs' = docs
    BY <1>5 DEF FailIngest, KillIngest
  <2>2. \A d \in Id : \/ dirs'[d] = EmptyDir
                      \/ dirs'[d] = dirs[d] /\ (d \in stale => d \in stale')
    BY <1>2, <1>5 DEF FailIngest, KillIngest
  <2>3. ASSUME NEW d \in Id, docs'[d].kind = "mineru", d \notin stale'
        PROVE  Sound(d, dirs[d].overrides)'
    <3>1. CASE dirs'[d] = EmptyDir
      BY <3>1 DEF EmptyDir, Sound
    <3>2. CASE dirs'[d] = dirs[d] /\ d \notin stale
      <4>1. Sound(d, dirs[d].overrides)
        BY <2>1, <2>3, <3>2 DEF ManifestOK
      <4> QED BY <2>1, <3>2, <4>1, SoundStays
    <3> QED BY <2>2, <2>3, <3>1, <3>2
  <2> QED BY <1>6, <2>3 DEF ManifestOK
<1> QED BY <1>3, <1>4, <1>5

(* A clip replaces the one of its own chunk only.                          *)
LEMMA ManifestClip ==
  ASSUME LibraryInv, ManifestOK, ClipFigure
  PROVE  ManifestOK'
<1>1. /\ Repairing /\ command.todo # <<>> /\ docs' = docs /\ stale' = stale
  BY DEF ClipFigure
<1>2. PICK id \in Id : docs[id].kind = "mineru" /\ command \in Repair(id)
  BY <1>1, RepairUnderWay DEF LibraryInv, RepairOK
<1>3. command.todo \in Seq(ToSet(docs[id].chunks)) /\ command.id = id
  BY <1>2 DEF Repair
<1>9. PICK x \in ToSet(docs[id].chunks) : x = Head(command.todo)
  BY <1>1, <1>3
<1> DEFINE clip == [name |-> FixedName(x), bytes |-> Region(docs[id].file, x)]
<1>4. dirs \in [Id -> Directory] /\ dirs[id] \in Directory
  BY DEF LibraryInv, LibraryOK
<1>5. /\ dirs' = [dirs EXCEPT ![id].fixed = Put(@, clip)]
      /\ command' = [command EXCEPT !.todo = Tail(@), !.entries = @ \cup {Entry(x)}]
  BY <1>3, <1>9 DEF ClipFigure, Entry
<1>6. /\ dirs'[id].fixed = Put(dirs[id].fixed, clip)
      /\ \A d \in Id : /\ dirs'[d].overrides = dirs[d].overrides
                       /\ d # id => dirs'[d].fixed = dirs[d].fixed
  BY <1>4, <1>5 DEF Directory
<1>7. command'.id = id /\ command'.entries = command.entries \cup {Entry(x)}
  BY <1>2, <1>3, <1>5 DEF Repair
<1>8. ASSUME NEW e \in ToSet(docs[id].chunks), ClipsOf(id, e) \/ e = x PROVE ClipsOf(id, e)'
  <2> SUFFICES ASSUME NEW f \in dirs'[id].fixed, f.name = FixedName(e)
               PROVE  f.bytes = Region(docs[id].file, e)
    BY <1>1 DEF ClipsOf, FixedName, Region
  <2>1. f = clip \/ (f \in dirs[id].fixed /\ f.name # clip.name)
    BY <1>6 DEF Put
  <2>2. CASE f = clip
    <3>1. FixedName(x) = FixedName(e)
      BY <2>2
    <3>2. x.order = e.order
      BY <3>1 DEF FixedName
    <3>3. x = e
      BY <1>9, <3>2, OrderTells
    <3> QED BY <2>2, <3>3
  <2>3. CASE f \in dirs[id].fixed /\ f.name # clip.name
    <3>1. e # x
      BY <2>3
    <3> QED BY <1>8, <2>3, <3>1 DEF ClipsOf
  <2> QED BY <2>1, <2>2, <2>3
<1>10. \A d \in Id : docs'[d].kind = "mineru" /\ d \notin stale' => Sound(d, dirs[d].overrides)'
  <2> SUFFICES ASSUME NEW d \in Id, docs[d].kind = "mineru", d \notin stale
               PROVE  Sound(d, dirs[d].overrides)'
    BY <1>1
  <2>1. Sound(d, dirs[d].overrides)
    BY DEF ManifestOK
  <2>2. CASE d = id
    <3>1. \A o \in dirs[id].overrides :
            \E e \in ToSet(docs[id].chunks) : o = Entry(e) /\ ClipsOf(id, e)'
      BY <1>8, <2>1, <2>2 DEF Sound
    <3> QED BY <1>1, <1>6, <2>2, <3>1 DEF Sound, Entry, FixedName
  <2>3. CASE d # id
    BY <1>1, <1>6, <2>1, <2>3, SoundStays
  <2> QED BY <2>2, <2>3
<1>11. \A o \in command'.entries :
         \E e \in ToSet(docs[id].chunks) : o = Entry(e) /\ ClipsOf(id, e)'
  <2>1. \A o \in command.entries :
          \E e \in ToSet(docs[id].chunks) : o = Entry(e) /\ ClipsOf(id, e)'
    BY <1>1, <1>3, <1>8 DEF ManifestOK, Sound
  <2>2. ClipsOf(id, x)'
    BY <1>8, <1>9
  <2> QED BY <1>7, <1>9, <2>1, <2>2
<1>12. Sound(command.id, command.entries)'
  BY <1>1, <1>7, <1>11 DEF Sound, Entry, FixedName
<1> QED BY <1>10, <1>12 DEF ManifestOK

(* A repair that ends saves its entries, or nothing.                       *)
LEMMA ManifestSaved ==
  ASSUME LibraryInv, ManifestOK, SaveOverrides \/ KillRepair
  PROVE  ManifestOK'
<1>1. Repairing /\ docs' = docs /\ ~Repairing'
  BY DEF SaveOverrides, KillRepair, Repairing, NoCommand
<1>2. PICK id \in Id : command \in Repair(id)
  BY <1>1, RepairUnderWay DEF LibraryInv, RepairOK
<1>3. command.id = id /\ dirs \in [Id -> Directory]
  BY <1>2 DEF Repair, LibraryInv, LibraryOK
<1>4. CASE KillRepair
  <2>1. dirs' = dirs /\ stale' = stale
    BY <1>4 DEF KillRepair
  <2> QED BY <1>1, <2>1, SoundStays DEF ManifestOK
<1>5. CASE SaveOverrides
  <2>1. /\ \A d \in Id : /\ dirs'[d].fixed = dirs[d].fixed
                         /\ dirs'[d].overrides = IF d = id THEN command.entries
                                                 ELSE dirs[d].overrides
        /\ stale' = stale \ {id}
    BY <1>3, <1>5 DEF SaveOverrides, Directory
  <2>2. ASSUME NEW d \in Id, docs[d].kind = "mineru", d \notin stale'
        PROVE  Sound(d, dirs[d].overrides)'
    <3>1. Sound(d, IF d = id THEN command.entries ELSE dirs[d].overrides)
      BY <1>1, <1>3, <2>1, <2>2 DEF ManifestOK
    <3>2. Sound(d, IF d = id THEN command.entries ELSE dirs[d].overrides) =>
            \A o \in dirs'[d].overrides :
              \E e \in ToSet(docs[d].chunks) : o = Entry(e) /\ ClipsOf(d, e)
      BY <2>1 DEF Sound
    <3>3. \A e : ClipsOf(d, e) => ClipsOf(d, e)'
      BY <1>1, <2>1 DEF ClipsOf, FixedName, Region
    <3> QED BY <1>1, <3>1, <3>2, <3>3 DEF Sound, Entry, FixedName
  <2> QED BY <1>1, <2>2 DEF ManifestOK
<1> QED BY <1>4, <1>5

(* Every step keeps the manifests that are not stale sound.                *)
LEMMA ManifestStep ==
  ASSUME LibraryInv, ManifestOK, [Next]_vars
  PROVE  ManifestOK'
<1>1. CASE UNCHANGED vars
  <2>1. docs' = docs /\ dirs' = dirs /\ command' = command /\ stale' = stale
    BY <1>1 DEF vars
  <2> QED BY <2>1, SoundStays DEF ManifestOK, Repairing
<1>2. ASSUME dirs' = dirs, stale' = stale, ~Repairing',
             \A d \in Id : docs'[d] = docs[d] \/ docs'[d].kind # "mineru"
      PROVE  ManifestOK'
  BY <1>2, SoundStays DEF ManifestOK
<1>3. docs \in [Id -> Documents] /\ NoDoc.kind = "none"
  BY DEF LibraryInv, LibraryOK, NoDoc
<1>4. ASSUME NEW r \in Requests, BeginIngest(r) PROVE ManifestOK'
  BY <1>2, <1>4 DEF BeginIngest, Repairing
<1>5. ASSUME NEW file \in Files, AddLegacy(file) PROVE ManifestOK'
  <2>1. PICK id \in Id :
          docs' = [docs EXCEPT ![id] = [kind |-> "pymupdf", file |-> file, chunks |-> <<>>]]
    BY <1>5 DEF AddLegacy, NextIds
  <2> QED BY <1>2, <1>3, <1>5, <2>1 DEF AddLegacy, BeginCommand, NoCommand, Repairing
<1>6. ASSUME NEW d \in Id, SweepLegacy(d) PROVE ManifestOK'
  BY <1>2, <1>3, <1>6 DEF SweepLegacy, BeginCommand, NoCommand, Repairing
<1>7. ASSUME NEW d \in Id, DetectRepairs(d) PROVE ManifestOK'
  BY <1>2, <1>7 DEF DetectRepairs, BeginCommand, NoCommand, Repairing
<1>8. ASSUME NEW d \in Id, NEW allow, NEW captions, BeginRepair(d, allow, captions)
      PROVE  ManifestOK'
  <2>1. docs' = docs /\ dirs' = dirs /\ stale' = stale /\ command'.entries = {}
    BY <1>8 DEF BeginRepair
  <2> QED BY <2>1, SoundStays DEF ManifestOK, Sound
<1> QED
  BY <1>1, <1>4, <1>5, <1>6, <1>7, <1>8, ManifestIngest, ManifestClip, ManifestSaved DEF Next

(* A clip that an entry of a manifest that is not stale names is a clip of *)
(* the chunk's own place.                                                  *)
LEMMA ClipIsOfPlace ==
  ASSUME ManifestOK, NEW d \in Id, docs[d].kind = "mineru", d \notin stale,
         NEW c, NEW f \in FixedFiles(d, c)
  PROVE  IsFigureOf(f.bytes, d, c)
<1>1. PICK o \in dirs[d].overrides : Matches(o, c) /\ f.name = o.fixed /\ f \in dirs[d].fixed
  BY DEF FixedFiles
<1>2. PICK e \in ToSet(docs[d].chunks) : o = Entry(e) /\ ClipsOf(d, e)
  BY <1>1 DEF ManifestOK, Sound
<1>3. f.bytes = <<"clip", docs[d].file, e.page, e.bbox>>
  BY <1>1, <1>2 DEF ClipsOf, Entry, Region
<1>4. e.page = c.page /\ Close(e.bbox, c.bbox)
  BY <1>1, <1>2 DEF Entry, Matches
<1> QED BY <1>3, <1>4 DEF IsFigureOf

(* What the reading view leaves out lies inside a figure it shows.         *)
LEMMA NestedIsInside ==
  ASSUME NEW d, NEW c \in ToSet(docs[d].chunks)
  PROVE  c \in Reflow(d) \/ \E p \in Reflow(d) : StrictlyContains(p.bbox, c.bbox)
<1> SUFFICES ASSUME c \in Nested(d)
             PROVE  \E p \in Reflow(d) : StrictlyContains(p.bbox, c.bbox)
  BY DEF Reflow
<1>1. PICK p \in ImageChunks(d) : Captioned(d, p) /\ StrictlyContains(p.bbox, c.bbox)
  BY DEF Nested
<1>2. p \in Reflow(d)
  BY <1>1 DEF Reflow, Nested, ImageChunks
<1> QED BY <1>1, <1>2

(* When no ingest stops after it has taken an existing document's          *)
(* directory, every chunk with an image shows its own figure, whatever     *)
(* was ingested, overwritten, repaired, swept and stopped before; only a   *)
(* chunk that matches a manifest made for an earlier document of its id    *)
(* may be shown another one.                                               *)
THEOREM FiguresServed ==
  ASSUME StopInPlace = FALSE
  PROVE  Spec => []EveryFigureServed
<1>1. LibraryInv /\ ManifestOK => EveryFigureServed
  <2> SUFFICES ASSUME LibraryInv, ManifestOK, command = NoCommand, NEW d \in Id,
                      NEW c \in ToSet(docs[d].chunks), c.img # NoImage,
                      d \in stale => FixedFiles(d, c) = {}
               PROVE  IsFigureOf(ChunkImage(d, c), d, c)
    BY NestedIsInside DEF EveryFigureServed
  <2>1. docs[d].kind = "mineru"
    <3>1. ToSet(<<>>) = {}
      BY DEF ToSet
    <3> QED BY <3>1, DocumentOf DEF LibraryInv
  <2>2. PICK r \in Asked : docs[d] = Made(r)
    BY <2>1, DocumentOf DEF LibraryInv
  <2>3. docs[d].chunks = Chunks(r)
    BY <2>2 DEF Made
  <2> DEFINE originals == {f \in dirs[d].images : f.name = c.img}
             files == IF FixedFiles(d, c) # {} THEN FixedFiles(d, c) ELSE originals
  <2>4. ASSUME NEW f \in files PROVE IsFigureOf(f.bytes, d, c)
    <3>1. CASE f \in FixedFiles(d, c)
      BY <2>1, <3>1, ClipIsOfPlace
    <3>2. CASE f \in originals
      <4>1. Picture(c) \in dirs[d].images
        <5>1. ~Ingesting
          BY DEF Ingesting, NoCommand
        <5> QED BY <2>1, <5>1 DEF LibraryInv, FiguresOK, Pictured
      <4>2. Unique(dirs[d].images)
        BY DEF LibraryInv, LibraryOK, Directory
      <4>3. f = Picture(c)
        BY <3>2, <4>1, <4>2 DEF Unique, Picture
      <4> QED BY <4>3 DEF Picture, IsFigureOf
    <3> QED BY <3>1, <3>2
  <2>5. files # {}
    <3>1. ~Ingesting
      BY DEF Ingesting, NoCommand
    <3>2. Picture(c) \in originals
      BY <2>1, <3>1 DEF LibraryInv, FiguresOK, Pictured, Picture
    <3> QED BY <3>2
  <2>6. ChunkImage(d, c) = (CHOOSE f \in files : TRUE).bytes
    BY <2>5 DEF ChunkImage
  <2> HIDE DEF files
  <2>7. (CHOOSE f \in files : TRUE) \in files
    BY <2>5
  <2> QED BY <2>4, <2>6, <2>7
<1>2. Init => ManifestOK
  BY DEF Init, ManifestOK, Sound, EmptyDir, Repairing, NoCommand
<1>3. LibraryInv /\ ManifestOK /\ [Next]_vars => ManifestOK'
  BY ManifestStep
<1> QED BY <1>1, <1>2, <1>3, Library, PTL DEF Spec
===============================================================================
