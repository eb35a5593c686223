------------------------------- MODULE Retrieval -------------------------------
(***************************************************************************)
(* Embeddings and what chat does with them: backfill runs that fill the    *)
(* tables block_embeddings and chunk_embeddings (embedding/backfill.py,    *)
(* chunk_backfill.py), the brute-force search over them (store.py,         *)
(* search.py, chunk_search.py), and the chat request that builds its       *)
(* context with both (chat_context.py, chunk_chat_context.py,              *)
(* chunk_chat.py).                                                         *)
(*                                                                         *)
(* Several backfills run at once, in the server's jobs and from the        *)
(* command line, each with the encoder its process was started with; a     *)
(* request reads the tables one statement after the other, and another     *)
(* process may commit between any two.                                     *)
(***************************************************************************)
EXTENDS Naturals, FiniteSets, SequencesExt, FiniteSetsExt

CONSTANTS
  Shelf,         (* the blocks and chunks, numbered in document order:     *)
                 (* what never changes about each, among it the characters *)
                 (* of its stripped text, its size in a context and the    *)
                 (* section number in a heading's text, <<>> without one   *)
  Models,        (* encoders, each with a dimension of its own             *)
  NoClient,      (* a server without an encoder                            *)
  AllDocs,       (* a backfill without --doc-id                            *)
  Workers,       (* processes that may run a backfill                      *)
  Late,          (* items not translated yet at first                      *)
  Replaced,      (* documents that an ingest with --overwrite may replace  *)
  Scopes,        (* what backfills are asked for: <<kind, doc or AllDocs>> *)
  Anchors,       (* what threads are anchored at: <<item, as a section?>>  *)
                 (* (a bound)                                              *)
  BatchSize,     (* backfill: batch_size                                   *)
  TopK,          (* search: top_k                                          *)
  Budget,        (* build_section_context: budget                          *)
  Radius,        (* build_chunk_context: radius                            *)
  MaxVersion,    (* bound on the ingests of a document                     *)
  MaxBackfills   (* bound on the backfills of a behaviour                  *)

Item == DOMAIN Shelf

ASSUME ConstantsAssumption ==
  /\ IsFiniteSet(Item) /\ Item = 1..Cardinality(Item)
  /\ \A i \in Item :
       /\ Shelf[i].kind \in {"block", "chunk"}
       /\ {Shelf[i].chars, Shelf[i].size, Shelf[i].relevance, Shelf[i].page} \subseteq Nat
       /\ Shelf[i].number \in Seq(Nat) /\ Shelf[i].padded \in BOOLEAN
  /\ Scopes \subseteq {"block", "chunk"} \X ({Shelf[i].doc : i \in Item} \cup {AllDocs})
  /\ Late \subseteq Item /\ Anchors \subseteq Item \X BOOLEAN /\ NoClient \notin Models
  /\ {BatchSize, TopK, MaxVersion} \subseteq Nat \ {0}
  /\ {Budget, Radius, MaxBackfills} \subseteq Nat

VARIABLES
  text,        (* the version of each item's text, 0 when it does not exist *)
  translated,  (* items whose translation is stored with status translated *)
  rows,        (* the embedding row of each item                           *)
  worker,      (* the backfill of each process                             *)
  begun,       (* backfills begun                                          *)
  settled,     (* the last backfill that finished undisturbed (history)    *)
  ask          (* the chat request under way                               *)

vars == <<text, translated, rows, worker, begun, settled, ask>>

(* The items of S in document order: the n-th has n - 1 before it.         *)
Sorted(S) ==
  [n \in 1..Cardinality(S) |-> CHOOSE i \in S : Cardinality({j \in S : j < i}) = n - 1]

(* text_source_hash of the text as stored and of the text stripped: a      *)
(* padded text has two.                                                    *)
Hash(i, v) == <<i, v, Shelf[i].padded>>
StripHash(i, v) == <<i, v, FALSE>>

NoRow == [model |-> NoClient]
NoWork == [pc |-> "idle"]
NoAsk == [pc |-> "idle"]
Unsettled == [kind |-> "none"]

Init ==
  /\ text = [i \in Item |-> 1]
  /\ translated = Item \ Late
  /\ rows = [i \in Item |-> NoRow]
  /\ worker = [p \in Workers |-> NoWork]
  /\ begun = 0
  /\ settled = Unsettled
  /\ ask = NoAsk

(* History: a change of the tables or of the texts ends the claim of the   *)
(* last backfill, and disturbs those under way.                            *)
Disturb(others) ==
  [p \in Workers |-> IF p \in others /\ worker[p].pc # "idle"
                       THEN [worker[p] EXCEPT !.calm = FALSE] ELSE worker[p]]

-------------------------------------------------------------------------------
(* The library changes.                                                    *)

Translate(i) ==
  /\ text[i] > 0 /\ i \notin translated
  /\ translated' = translated \cup {i}
  /\ worker' = Disturb(Workers)
  /\ settled' = Unsettled
  /\ UNCHANGED <<text, rows, begun, ask>>

(* ingest-mineru --overwrite deletes a document, with its translations and *)
(* its embedding rows, and inserts the new chunks in the same transaction; *)
(* the last chunks of the table have their ids reused, and there may be    *)
(* fewer than before.                                                      *)
ReplaceDocument(d, kept) ==
  LET items == {i \in Item : Shelf[i].doc = d} IN
  /\ kept \subseteq items
  /\ \A i \in kept, j \in items \ kept : i < j
  /\ \A i \in items : text[i] < MaxVersion
  /\ \E i \in items : text[i] > 0
  /\ LET next == 1 + Max({text[i] : i \in items})
     IN  text' = [i \in Item |-> IF i \in kept THEN next ELSE IF i \in items THEN 0 ELSE text[i]]
  /\ translated' = translated \ items
  /\ rows' = [i \in Item |-> IF i \in items THEN NoRow ELSE rows[i]]
  /\ worker' = Disturb(Workers)
  /\ settled' = Unsettled
  /\ UNCHANGED <<begun, ask>>

-------------------------------------------------------------------------------
(* A backfill.                                                             *)

InScope(i, scope) == scope \in {AllDocs, Shelf[i].doc}

(* Translated blocks of type text or header and enough characters.  The    *)
(* searches have thresholds of their own.                                  *)
BackfillMinChars == 30
SearchMinChars(kind) == IF kind = "block" THEN 50 ELSE 20

BlockCandidates(scope) ==
  {i \in Item : Shelf[i].kind = "block" /\ text[i] > 0 /\ i \in translated
                /\ InScope(i, scope) /\ Shelf[i].chars >= BackfillMinChars
                /\ Shelf[i].type \in {"text", "heading"}}

ChunkCandidates(scope) ==
  {i \in Item : Shelf[i].kind = "chunk" /\ text[i] > 0 /\ i \in translated
                /\ InScope(i, scope) /\ Shelf[i].chars >= BackfillMinChars
                /\ Shelf[i].type \in {"text", "heading"}}

Candidates(kind, scope) ==
  IF kind = "block" THEN BlockCandidates(scope) ELSE ChunkCandidates(scope)

(* The candidates are read once; their texts stay as they were read.       *)
Begin(p, kind, scope, model) ==
  LET found == Sorted(Candidates(kind, scope)) IN
  /\ worker[p].pc = "idle" /\ begun < MaxBackfills
  /\ begun' = begun + 1
  /\ worker' = [worker EXCEPT ![p] =
       [pc |-> "check", kind |-> kind, scope |-> scope, model |-> model, calm |-> TRUE,
        todo |-> [k \in DOMAIN found |-> [item |-> found[k], v |-> text[found[k]]]],
        needs |-> <<>>]]
  /\ UNCHANGED <<text, translated, rows, settled, ask>>

BackfillBlocks(p, scope, model) == Begin(p, "block", scope, model)
BackfillChunks(p, scope, model) == Begin(p, "chunk", scope, model)

(* Variant: the first version's test, which a change of encoder passes.    *)
UpToDateByHash(i, v, model) == rows[i] # NoRow /\ rows[i].hash = Hash(i, v)

UpToDate(i, v, model) ==
  rows[i] # NoRow /\ rows[i].hash = Hash(i, v) /\ rows[i].model = model

(* One candidate of the loop that keeps those in need of a vector.         *)
Check(p) ==
  /\ worker[p].pc = "check" /\ worker[p].todo # <<>>
  /\ LET c == Head(worker[p].todo)
         w == [worker[p] EXCEPT !.todo = Tail(@)]
     IN  worker' = [worker EXCEPT ![p] =
           IF UpToDate(c.item, c.v, w.model) THEN w ELSE [w EXCEPT !.needs = Append(@, c)]]
  /\ UNCHANGED <<text, translated, rows, begun, settled, ask>>

Batch(p) == SubSeq(worker[p].needs, 1, Min({BatchSize, Len(worker[p].needs)}))

Encode(batch) == [k \in DOMAIN batch |-> <<batch[k].item, batch[k].v>>]

(* Variant: every row of the batch gets the hash of its first text.        *)
HashesOfFirst(batch) == [k \in DOMAIN batch |-> Hash(batch[1].item, batch[1].v)]

Hashes(batch) == [k \in DOMAIN batch |-> Hash(batch[k].item, batch[k].v)]

(* A batch is encoded and its rows are inserted or replaced, in one        *)
(* commit.  A row whose item has gone breaks the foreign key: the batch is *)
(* rolled back and the backfill raises.                                    *)
WriteBatch(p) ==
  LET batch == Batch(p)
      vecs == Encode(batch)
      hashes == Hashes(batch)
      Row(k) == [model |-> worker[p].model, of |-> vecs[k], hash |-> hashes[k]]
  IN
  /\ worker[p].pc = "check" /\ worker[p].todo = <<>> /\ batch # <<>>
  /\ \/ /\ \A k \in DOMAIN batch : text[batch[k].item] > 0
        /\ rows' = [i \in Item |->
             IF \E k \in DOMAIN batch : batch[k].item = i
               THEN Row(CHOOSE k \in DOMAIN batch : batch[k].item = i)
               ELSE rows[i]]
        /\ worker' = [Disturb(Workers \ {p}) EXCEPT ![p].needs =
                        SubSeq(@, Len(batch) + 1, Len(@))]
     \/ /\ \E k \in DOMAIN batch : text[batch[k].item] = 0
        /\ rows' = rows
        /\ worker' = [worker EXCEPT ![p] = NoWork]
  /\ settled' = Unsettled
  /\ UNCHANGED <<text, translated, begun, ask>>

Finish(p) ==
  /\ worker[p].pc = "check" /\ worker[p].todo = <<>> /\ worker[p].needs = <<>>
  /\ worker' = [worker EXCEPT ![p] = NoWork]
  /\ settled' = IF worker[p].calm
                  THEN [kind |-> worker[p].kind, scope |-> worker[p].scope,
                        model |-> worker[p].model]
                  ELSE settled
  /\ UNCHANGED <<text, translated, rows, begun, ask>>

(* The process ends, or its encoder raises: what is committed stays.       *)
StopBackfill(p) ==
  /\ worker[p].pc = "check"
  /\ worker' = [worker EXCEPT ![p] = NoWork]
  /\ UNCHANGED <<text, translated, rows, begun, settled, ask>>

-------------------------------------------------------------------------------
(* load_all, load_all_chunks: the rows whose dimension most rows have, of  *)
(* two equally frequent ones the first.                                    *)

RowItems(kind) == {i \in Item : Shelf[i].kind = kind /\ rows[i] # NoRow}

RowsOf(items, m) == {i \in items : rows[i].model = m}

Majority(items) ==
  LET Most(i) == \A m \in Models :
                   Cardinality(RowsOf(items, m)) <= Cardinality(RowsOf(items, rows[i].model))
  IN  rows[Min({i \in items : Most(i)})].model

(* Variant: the first version, which kept a zero row for each outlier in   *)
(* the matrix and none in the ids.                                         *)
LoadShifted(kind) ==
  LET items == RowItems(kind)
      model == IF items = {} THEN NoClient ELSE Majority(items)
      every == Sorted(items)
  IN  [ids |-> Sorted(RowsOf(items, model)), model |-> model,
       matrix |-> [k \in DOMAIN every |->
                     IF rows[every[k]].model = model THEN rows[every[k]].of ELSE <<0, 0>>]]

Load(kind) ==
  LET items == RowItems(kind)
      model == IF items = {} THEN NoClient ELSE Majority(items)
      ids == Sorted(RowsOf(items, model))
  IN  [ids |-> ids, model |-> model, matrix |-> [k \in DOMAIN ids |-> rows[ids[k]].of]]

(* The score of a vector, in steps: 0 is below the threshold.              *)
Score(of) == IF of[1] = 0 THEN 0 ELSE Shelf[of[1]].relevance

(* The best rows by descending score, equal ones in the order the sort     *)
(* leaves them, without those below the threshold, those that the filters  *)
(* drop and those whose item has gone since.                               *)
Hits(table, wanted) ==
  LET found == {k \in DOMAIN table.ids : /\ Score(table.matrix[k]) > 0
                                         /\ text[table.ids[k]] > 0
                                         /\ table.ids[k] \in wanted}
      Better(k, l) == Score(table.matrix[k]) > Score(table.matrix[l])
      best == {f \in [1..Min({TopK, Cardinality(found)}) -> found] :
                 /\ IsInjective(f)
                 /\ \A n \in DOMAIN f : \A k \in found :
                      Better(k, f[n]) => \E m \in 1..(n - 1) : f[m] = k}
  IN  {[n \in DOMAIN f |-> [item |-> table.ids[f[n]], of |-> table.matrix[f[n]]]] : f \in best}

-------------------------------------------------------------------------------
(* Sections and windows of a document's chunks, in document order.         *)

IsHeading(i) == Shelf[i].type = "heading"

Depth(h) == Len(Shelf[h].number)

(* Variant: a sibling does not end the section.                            *)
ClosesAbove(h, j) == IsHeading(j) /\ (Depth(h) = 0 \/ Depth(j) \in 1..(Depth(h) - 1))

(* Heading j ends the section of heading h: at the same depth or above,    *)
(* or any heading when h has no number.                                    *)
Closes(h, j) == IsHeading(j) /\ (Depth(h) = 0 \/ Depth(j) \in 1..Depth(h))

SectionEnd(s, a) ==
  CHOOSE e \in (a + 1)..(Len(s) + 1) :
    /\ e = Len(s) + 1 \/ Closes(s[a], s[e])
    /\ \A b \in (a + 1)..(e - 1) : ~Closes(s[a], s[b])

Position(s, i) == CHOOSE a \in DOMAIN s : s[a] = i

SectionRange(s, h) == SubSeq(s, Position(s, h), SectionEnd(s, Position(s, h)) - 1)

Window(s, i) ==
  LET a == Position(s, i)
  IN  SubSeq(s, IF a > Radius THEN a - Radius ELSE 1, Min({Len(s), a + Radius}))

DocChunks(d) == Sorted({i \in Item : Shelf[i].doc = d /\ text[i] > 0})

(* Blocks have their window within their page.                             *)
PageBlocks(i) ==
  Sorted({j \in Item : Shelf[j].doc = Shelf[i].doc /\ Shelf[j].page = Shelf[i].page})

Size(s) ==
  LET sum[n \in 0..Len(s)] == IF n = 0 THEN 0 ELSE sum[n - 1] + Shelf[s[n]].size
  IN  sum[Len(s)]

(* The heading and the chunks after it up to the first that does not fit.  *)
Truncated(section) ==
  LET fits == {n \in 1..Len(section) : n = 1 \/ Size(SubSeq(section, 1, n)) <= Budget}
  IN  SubSeq(section, 1, Max({n \in fits : 1..n \subseteq fits}))

(* Variant: every hit is measured against the whole budget.                *)
PackedEach(section, hits) ==
  LET packed[n \in 0..Len(hits)] ==
        IF n = 0 THEN <<section[1]>>
        ELSE IF Size(<<section[1], hits[n].item>>) > Budget THEN packed[n - 1]
        ELSE Append(packed[n - 1], hits[n].item)
  IN  packed[Len(hits)]

(* The heading and each hit that still fits, best first.                   *)
Packed(section, hits) ==
  LET packed[n \in 0..Len(hits)] ==
        IF n = 0 THEN <<section[1]>>
        ELSE IF Size(Append(packed[n - 1], hits[n].item)) > Budget THEN packed[n - 1]
        ELSE Append(packed[n - 1], hits[n].item)
  IN  packed[Len(hits)]

-------------------------------------------------------------------------------
(* A chat request on a block, a paragraph, a figure or a section.          *)

Reading(pc) == ask.pc = pc
AskOnly == UNCHANGED <<text, translated, rows, worker, begun, settled>>

(* The thread's anchor is read; a section is anchored at its heading.      *)
BeginAsk(i, section, client) ==
  /\ Reading("idle") /\ text[i] > 0
  /\ section => (Shelf[i].kind = "chunk" /\ IsHeading(i))
  /\ ask' = [pc |-> IF ~section THEN "window" ELSE IF client = NoClient THEN "plain" ELSE "section",
             anchor |-> i, v |-> text[i], section |-> section, client |-> client,
             read |-> <<>>, table |-> <<>>, context |-> <<>>, query |-> <<>>, hits |-> <<>>]
  /\ AskOnly

(* Building the context without a vector.  The request fails when the      *)
(* anchor has gone.                                                        *)
WindowContext ==
  /\ Reading("window")
  /\ LET s == IF Shelf[ask.anchor].kind = "block" THEN PageBlocks(ask.anchor)
              ELSE DocChunks(Shelf[ask.anchor].doc)
     IN  ask' = IF text[ask.anchor] = 0 THEN [ask EXCEPT !.pc = "failed"]
                ELSE [ask EXCEPT !.pc = "refs", !.read = s, !.context = Window(s, ask.anchor)]
  /\ AskOnly

PlainSection ==
  /\ Reading("plain")
  /\ LET s == DocChunks(Shelf[ask.anchor].doc)
         section == SectionRange(s, ask.anchor)
     IN  ask' = IF text[ask.anchor] = 0 THEN [ask EXCEPT !.pc = "failed"]
                ELSE [ask EXCEPT !.pc = "refs", !.read = s,
                        !.context = IF Size(section) <= Budget THEN section ELSE Truncated(section)]
  /\ AskOnly

(* build_section_context_topk reads the chunks, leaves a small section to  *)
(* build_section_context, which reads them again, and searches a large one. *)
ReadSection ==
  /\ Reading("section")
  /\ LET s == DocChunks(Shelf[ask.anchor].doc)
     IN  ask' = IF text[ask.anchor] = 0 \/ Size(SectionRange(s, ask.anchor)) <= Budget
                  THEN [ask EXCEPT !.pc = "plain"]
                  ELSE [ask EXCEPT !.pc = "sectionRows", !.read = s]
  /\ AskOnly

LoadSectionRows ==
  /\ Reading("sectionRows")
  /\ ask' = [ask EXCEPT !.pc = "sectionHits", !.table = Load("chunk")]
  /\ AskOnly

(* The question was encoded with the server's encoder; no hit falls back   *)
(* to the plain section.                                                   *)
TopKSection ==
  /\ Reading("sectionHits")
  /\ LET section == SectionRange(ask.read, ask.anchor)
         wanted == {i \in ToSet(section) : i # ask.anchor /\ Shelf[i].chars >= SearchMinChars("chunk")}
     IN  \E hits \in IF ask.table.model # ask.client THEN {<<>>} ELSE Hits(ask.table, wanted) :
           ask' = IF hits = <<>> THEN [ask EXCEPT !.pc = "plain", !.table = <<>>]
                  ELSE [ask EXCEPT !.pc = "refs", !.table = <<>>, !.context = Packed(section, hits)]
  /\ AskOnly

(* The query of the cross-document search: a figure's caption and          *)
(* neighbours, or the anchor's vector, stored or computed.                 *)
Lookup(i, v, client) ==
  IF rows[i] # NoRow /\ rows[i].hash = StripHash(i, v)
    THEN [of |-> rows[i].of, model |-> rows[i].model]
    ELSE [of |-> <<i, v>>, model |-> client]

FindQuery ==
  /\ Reading("refs")
  /\ ask' = IF ask.client = NoClient THEN [ask EXCEPT !.pc = "done"]
            ELSE [ask EXCEPT !.pc = "refRows",
                    !.query = IF Shelf[ask.anchor].type = "image"
                                THEN [of |-> <<ask.anchor, ask.v>>, model |-> ask.client]
                                ELSE Lookup(ask.anchor, ask.v, ask.client)]
  /\ AskOnly

LoadRefRows ==
  /\ Reading("refRows")
  /\ ask' = [ask EXCEPT !.pc = "refHits", !.table = Load(Shelf[ask.anchor].kind)]
  /\ AskOnly

Foreign ==
  {i \in Item : /\ Shelf[i].doc # Shelf[ask.anchor].doc
                /\ Shelf[i].chars >= SearchMinChars(Shelf[ask.anchor].kind)}

(* search_chunks gives no hit when the dimensions differ; search raises,   *)
(* and the request on a block fails with it.                               *)
ChunkRefs ==
  /\ Reading("refHits") /\ Shelf[ask.anchor].kind = "chunk"
  /\ \E hits \in IF ask.table.model # ask.query.model THEN {<<>>} ELSE Hits(ask.table, Foreign) :
       ask' = [ask EXCEPT !.pc = "done", !.table = <<>>, !.hits = hits]
  /\ AskOnly

BlockRefs ==
  /\ Reading("refHits") /\ Shelf[ask.anchor].kind = "block"
  /\ IF ask.table.ids # <<>> /\ ask.table.model # ask.query.model
       THEN ask' = [ask EXCEPT !.pc = "failed", !.table = <<>>]
       ELSE \E hits \in Hits(ask.table, Foreign) :
              ask' = [ask EXCEPT !.pc = "done", !.table = <<>>, !.hits = hits]
  /\ AskOnly

EndAsk ==
  /\ ask.pc \in {"done", "failed"}
  /\ ask' = NoAsk
  /\ AskOnly

-------------------------------------------------------------------------------
Library ==
  \/ \E i \in Item : Translate(i)
  \/ \E d \in Replaced : \E kept \in SUBSET {i \in Item : Shelf[i].doc = d} : ReplaceDocument(d, kept)

Backfill(p) ==
  \/ \E scope \in Scopes, m \in Models :
       \/ scope[1] = "block" /\ BackfillBlocks(p, scope[2], m)
       \/ scope[1] = "chunk" /\ BackfillChunks(p, scope[2], m)
  \/ Check(p) \/ WriteBatch(p) \/ Finish(p) \/ StopBackfill(p)

Request ==
  \/ \E a \in Anchors, c \in Models \cup {NoClient} : BeginAsk(a[1], a[2], c)
  \/ WindowContext \/ PlainSection \/ ReadSection \/ LoadSectionRows \/ TopKSection
  \/ FindQuery \/ LoadRefRows \/ ChunkRefs \/ BlockRefs \/ EndAsk

Next == Library \/ Request \/ \E p \in Workers : Backfill(p)

Spec == Init /\ [][Next]_vars

-------------------------------------------------------------------------------
(* Properties.                                                             *)

Vector == Item \X (1..MaxVersion)

TypeOK ==
  /\ text \in [Item -> 0..MaxVersion] /\ translated \subseteq Item
  /\ \A i \in Item : rows[i] # NoRow =>
       /\ rows[i].model \in Models
       /\ rows[i].of \in Vector
       /\ rows[i].hash[1] = i
  /\ \A p \in Workers : worker[p].pc \in {"idle", "check"}
  /\ begun \in 0..MaxBackfills
  /\ ask.pc \in {"idle", "window", "plain", "section", "sectionRows", "sectionHits", "refs",
                 "refRows", "refHits", "done", "failed"}

(* Once a backfill has finished that no other change of the tables or      *)
(* texts disturbed, each of its candidates has the vector of its present   *)
(* text by that encoder; and when it covered every document, the search    *)
(* reads all of them, whatever rows earlier encoders had left, as long as  *)
(* they outnumber the rows that a late batch has left for chunks not       *)
(* translated yet (backfill.py:1-12, store.py:83-93).                      *)
SettledServesAll ==
  settled # Unsettled =>
    LET candidates == Candidates(settled.kind, settled.scope)
        leftover == RowItems(settled.kind) \ candidates IN
    /\ \A i \in candidates : rows[i].model = settled.model /\ rows[i].of = <<i, text[i]>>
    /\ (settled.scope = AllDocs /\ Cardinality(leftover) < Cardinality(candidates)) =>
         candidates \subseteq ToSet(Load(settled.kind).ids)

(* A request searches with a vector of its own anchor's text as it read    *)
(* it, never of the text another document had under the same id; every hit *)
(* is another document's, and got its score from its own vector, not from  *)
(* a neighbour's row (lookup.py:62-64, store.py:83-103).                   *)
SearchMatchesTexts ==
  /\ (ask.pc \in {"refRows", "refHits", "done"} /\ ask.query # <<>>) =>
       ask.query.of = <<ask.anchor, ask.v>>
  /\ ask.pc = "done" =>
       \A n \in DOMAIN ask.hits :
         /\ ask.hits[n].of[1] = ask.hits[n].item
         /\ Shelf[ask.hits[n].item].doc # Shelf[ask.anchor].doc

(* j's number continues h's: a parent includes its children.               *)
Subheading(h, j) == Depth(h) < Depth(j) /\ IsPrefix(Shelf[h].number, Shelf[j].number)

(* By its numbers the document s is an outline below heading h: a numbered *)
(* heading after h continues its number, or comes with or after one that   *)
(* is as high.                                                             *)
OutlinedBelow(s, h) ==
  \A j \in ToSet(s) : (IsHeading(j) /\ h < j /\ Depth(j) > 0) =>
    Subheading(h, j) \/ \E k \in ToSet(s) : IsHeading(k) /\ h < k /\ k <= j /\ Depth(k) \in 1..Depth(h)

(* The chunks of s that stand under heading h: between them and h is no    *)
(* heading but unnumbered ones and ones that continue its number, and none *)
(* at all when h has no number.                                            *)
UnderHeading(s, h) ==
  {i \in ToSet(s) : h <= i /\ \A j \in ToSet(s) : (IsHeading(j) /\ h < j /\ j <= i) =>
                                Depth(h) > 0 /\ (Depth(j) = 0 \/ Subheading(h, j))}

(* The context of a section begins with its heading, holds no chunk twice  *)
(* and is within the budget unless it is the heading alone, on the plain,  *)
(* the truncated and the top-K path alike; of a document numbered as an    *)
(* outline it holds only what stands under the heading, and of a section   *)
(* within the budget all of that (chunk_chat_context.py:147-310).          *)
ContextFits ==
  (ask.pc \in {"refs", "refRows", "refHits", "done"} /\ ask.section) =>
    /\ ask.context # <<>> /\ ask.context[1] = ask.anchor
    /\ IsInjective(ask.context)
    /\ Size(ask.context) <= Budget \/ ask.context = <<ask.anchor>>
    /\ OutlinedBelow(ask.read, ask.anchor) =>
         ToSet(ask.context) \subseteq UnderHeading(ask.read, ask.anchor)
    /\ Size(SectionRange(ask.read, ask.anchor)) <= Budget =>
         UnderHeading(ask.read, ask.anchor) \subseteq ToSet(ask.context)
===============================================================================
