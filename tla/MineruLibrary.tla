----------------------------- MODULE MineruLibrary -----------------------------
(***************************************************************************)
(* The 2.0 library: documents that MinerU extracted, and the directory     *)
(* <extracts>/<doc id>/ each of them has.                                  *)
(*                                                                         *)
(* ingest-mineru and ingest-mineru-multi (merge.py, content_list.py,       *)
(* ingest_mineru/pipeline.py) fill both, in one transaction of the         *)
(* database and one file after the other on the disk; detect-repairs and   *)
(* repair-images (image_repair.py) add corrections to the directory; the   *)
(* routes of reflow.py read database and directory together.  Commands run *)
(* one at a time and may fail or be killed.                                *)
(***************************************************************************)
EXTENDS Integers, FiniteSets, SequencesExt

CONSTANTS
  Files,         (* filenames                                              *)
  Requests,      (* what is asked to be ingested                           *)
  NoImage,       (* the img_path of an item without one                    *)
  NoBox,         (* a malformed or missing bbox                            *)
  Missing,       (* the bytes of an image that is not on the disk          *)
  MaxId,         (* bound on document ids                                  *)
  MaxCommands,   (* bound on the commands of a behaviour                   *)
  StopInPlace    (* may an ingest stop once it has taken an existing       *)
                 (* document's directory? (a bound)                        *)

(* An item of MinerU's content_list.json, with the bytes of its image, its *)
(* page in the output and, for the properties, in the whole PDF.           *)
MineruItem ==
  [type : STRING, page : Nat, source : Nat, text : BOOLEAN, caption : BOOLEAN, dark : BOOLEAN,
   img : {NoImage} \cup (Nat \X STRING), bytes : {Missing} \cup Seq(STRING),
   bbox : {NoBox} \cup (Int \X Int \X Int \X Int)]

(* An output of MinerU and the page of the whole PDF it begins at.         *)
Output == [pages : Nat, first : Nat, items : Seq(MineruItem)]

(* A request names a file and its MinerU outputs; merge says that it is    *)
(* ingest-mineru-multi, with the page count of the whole PDF.              *)
ASSUME ConstantsAssumption ==
  /\ \A r \in Requests :
       /\ r.file \in Files /\ {r.merge, r.overwrite} \subseteq BOOLEAN
       /\ r.parts \in Seq(Output) /\ (~r.merge => Len(r.parts) = 1)
  /\ MaxId \in Nat /\ MaxCommands \in Nat
  /\ StopInPlace \in BOOLEAN

VARIABLES
  docs,       (* the documents table, each with its chunks                 *)
  dirs,       (* the directory of each document id                         *)
  draft,      (* the last report of detect-repairs                         *)
  command,    (* the command under way                                     *)
  commands,   (* commands begun                                            *)
  stale       (* ids whose manifest was saved for an earlier document of   *)
              (* the id (auxiliary)                                        *)

vars == <<docs, dirs, draft, command, commands, stale>>

Id == 1..MaxId

-------------------------------------------------------------------------------
(* merge.py.                                                               *)

Pages(parts) ==
  LET sum[n \in 0..Len(parts)] == IF n = 0 THEN 0 ELSE sum[n - 1] + parts[n].pages
  IN  sum[Len(parts)]

(* Variant: the offset counts the part itself.                             *)
PageOffsetOfNext(parts, k) == Pages(SubSeq(parts, 1, k))

PageOffset(parts, k) == Pages(SubSeq(parts, 1, k - 1))

(* Each output begins where the one before it ends.                        *)
Consecutive(parts) ==
  /\ parts[1].first = 0
  /\ \A k \in 2..Len(parts) : parts[k].first = parts[k - 1].first + parts[k - 1].pages

(* External: outputs whose pages add up to the PDF's are given in its      *)
(* order, and each item is from the page its output says.                  *)
ASSUME OutputsInOrder ==
  \A r \in Requests :
    /\ r.parts # <<>> /\ (r.merge => Pages(r.parts) = r.sourcePages) => Consecutive(r.parts)
    /\ \A k \in DOMAIN r.parts : \A i \in DOMAIN r.parts[k].items :
         r.parts[k].items[i].source = r.parts[k].first + r.parts[k].items[i].page

(* External: the images directory of an output has one file of a name.     *)
ASSUME OneFilePerName ==
  \A r \in Requests : \A k \in DOMAIN r.parts :
    LET items == r.parts[k].items IN
    \A i, j \in DOMAIN items :
      (NoImage \notin {items[i].img, items[j].img} /\ items[i].img[2] = items[j].img[2]) =>
        items[i].bytes = items[j].bytes

Namespaced(k, img) == IF img = NoImage THEN NoImage ELSE <<k, img[2]>>

OffsetItems(parts, k) ==
  [i \in DOMAIN parts[k].items |->
     [parts[k].items[i] EXCEPT !.page = @ + PageOffset(parts, k),
                               !.img = Namespaced(k, @)]]

Mergeable(r) ==
  /\ r.parts # <<>>
  /\ Pages(r.parts) = r.sourcePages
  /\ \A k \in DOMAIN r.parts : \A i \in DOMAIN r.parts[k].items :
       LET item == r.parts[k].items[i] IN
       item.page < r.parts[k].pages /\ (item.img # NoImage => item.bytes # Missing)

Merged(parts) ==
  LET all[k \in 0..Len(parts)] == IF k = 0 THEN <<>> ELSE all[k - 1] \o OffsetItems(parts, k)
  IN  all[Len(parts)]

Items(r) == IF r.merge THEN Merged(r.parts) ELSE r.parts[1].items

(* The elements of s at the positions in S, in their order: the n-th has   *)
(* n - 1 before it.                                                        *)
Selected(s, S) ==
  [n \in 1..Cardinality(S) |-> s[CHOOSE i \in S : Cardinality({j \in S : j < i}) = n - 1]]

(* content_list.py: running chrome and empty text give no chunk; a chart   *)
(* is an image; only figures and tables carry a caption; order_idx counts  *)
(* the chunks that are kept.                                               *)
Kept(item) ==
  item.type # "chrome" /\ (item.type \in {"text", "equation"} => item.text)

ChunkOf(item, order) ==
  [page |-> item.page, order |-> order, bbox |-> item.bbox, img |-> item.img,
   type |-> IF item.type = "chart" THEN "image" ELSE item.type,
   caption |-> item.caption /\ item.type \in {"image", "chart", "table"},
   bytes |-> item.bytes, dark |-> item.dark, source |-> item.source]

Parse(items) ==
  LET kept == Selected(items, {i \in DOMAIN items : Kept(items[i])})
  IN  [i \in DOMAIN kept |-> ChunkOf(kept[i], i - 1)]

Chunks(r) == Parse(Items(r))

-------------------------------------------------------------------------------
(* The state.                                                              *)

NoDoc == [kind |-> "none", file |-> "", chunks |-> <<>>]
EmptyDir == [images |-> {}, fixed |-> {}, overrides |-> {}, captions |-> {}]
NoCommand == [name |-> "none"]
NoDraft == [id |-> 0, allow |-> {}, captions |-> {}]

Taken == {d \in Id : docs[d].kind # "none"}
ImageChunks(d) == {c \in ToSet(docs[d].chunks) : c.type = "image"}

TypeOK ==
  /\ \A d \in Id :
       /\ docs[d].kind \in {"none", "mineru", "pymupdf"}
       /\ docs[d].kind # "none" => docs[d].file \in Files
       /\ DOMAIN dirs[d] = DOMAIN EmptyDir
       /\ \A f, g \in dirs[d].images : f.name = g.name => f = g
       /\ \A f, g \in dirs[d].fixed : f.name = g.name => f = g
       /\ \A o \in dirs[d].overrides :
            DOMAIN o = {"page", "img", "bbox", "fixed"} /\ o.page \in Nat
  /\ draft.id \in Id \cup {0}
  /\ command.name \in {"none", "ingest", "repair"}
  /\ commands \in 0..MaxCommands
  /\ stale \subseteq Id

Init ==
  /\ docs = [d \in Id |-> NoDoc]
  /\ dirs = [d \in Id |-> EmptyDir]
  /\ draft = NoDraft
  /\ command = NoCommand
  /\ commands = 0
  /\ stale = {}

BeginCommand ==
  /\ command = NoCommand
  /\ commands < MaxCommands
  /\ commands' = commands + 1

(* SQLite gives a row of a table without AUTOINCREMENT the id after the    *)
(* largest one in use (none beyond the bound MaxId).                       *)
NextIds(used) == {n \in Id : (\A k \in used : k < n) /\ (n = 1 \/ n - 1 \in used)}

(* Variant: a copy lands beside the file it should replace.                *)
PutBeside(files, f) == files \cup {f}

Put(files, f) == {g \in files : g.name # f.name} \cup {f}

-------------------------------------------------------------------------------
(* ingest_mineru_output, with the commit of its caller.                    *)

(* Variant: the lookup does not look at the extractor.                     *)
ExistingByName(file) == {d \in Taken : docs[d].file = file}

Existing(file) == {d \in Taken : docs[d].file = file /\ docs[d].kind = "mineru"}

(* From the lookup to the flush that gives the new row its id: the old     *)
(* document and its chunks go in the same transaction.                     *)
BeginIngest(r) ==
  LET old    == Existing(r.file)
      chunks == Chunks(r)
  IN  /\ BeginCommand
      /\ r.merge => Mergeable(r)
      /\ chunks # <<>>
      /\ old # {} => r.overwrite
      /\ \E id \in NextIds(Taken \ old) :
           command' = [name |-> "ingest", file |-> r.file, chunks |-> chunks, old |-> old,
                       id |-> id,
                       todo |-> Selected(chunks, {i \in DOMAIN chunks : chunks[i].img # NoImage})]
      /\ UNCHANGED <<docs, dirs, draft, stale>>

Ingesting == command.name = "ingest"

(* _copy_image, one chunk after the other.                                 *)
CopyImage ==
  /\ Ingesting
  /\ command.todo # <<>>
  /\ Head(command.todo).bytes # Missing
  /\ dirs' = [dirs EXCEPT ![command.id].images =
                Put(@, [name |-> Head(command.todo).img, bytes |-> Head(command.todo).bytes])]
  /\ command' = [command EXCEPT !.todo = Tail(@)]
  /\ UNCHANGED <<docs, draft, commands, stale>>

(* The directory may have a manifest of whoever had the id before; nothing *)
(* removes it.                                                             *)
CommitIngest ==
  /\ Ingesting
  /\ command.todo = <<>>
  /\ docs' = [d \in Id |->
       IF d = command.id
         THEN [kind |-> "mineru", file |-> command.file, chunks |-> command.chunks]
       ELSE IF d \in command.old THEN NoDoc ELSE docs[d]]
  /\ stale' = IF dirs[command.id].overrides = {} THEN stale ELSE stale \cup {command.id}
  /\ command' = NoCommand
  /\ UNCHANGED <<dirs, draft, commands>>

InPlace == command.id \in command.old

(* An image is missing, or the disk is full: the session is rolled back    *)
(* and the directory of the id that was given is removed, whole.           *)
FailIngest ==
  /\ Ingesting
  /\ command.todo # <<>>
  /\ StopInPlace \/ ~InPlace
  /\ dirs' = [dirs EXCEPT ![command.id] = EmptyDir]
  /\ stale' = stale \ {command.id}
  /\ command' = NoCommand
  /\ UNCHANGED <<docs, draft, commands>>

(* Killed, or the caller's commit fails: what was copied stays.            *)
KillIngest ==
  /\ Ingesting
  /\ StopInPlace \/ ~InPlace
  /\ command' = NoCommand
  /\ UNCHANGED <<docs, dirs, draft, commands, stale>>

-------------------------------------------------------------------------------
(* 1.x documents share the table: the jobs add them, and the restart sweep *)
(* deletes the half-made ones.                                             *)

AddLegacy(file) ==
  /\ BeginCommand
  /\ \E id \in NextIds(Taken) :
       docs' = [docs EXCEPT ![id] = [kind |-> "pymupdf", file |-> file, chunks |-> <<>>]]
  /\ UNCHANGED <<dirs, draft, command, stale>>

SweepLegacy(d) ==
  /\ BeginCommand
  /\ docs[d].kind = "pymupdf"
  /\ docs' = [docs EXCEPT ![d] = NoDoc]
  /\ UNCHANGED <<dirs, draft, command, stale>>

-------------------------------------------------------------------------------
(* Boxes: containment for the reading view, closeness for the manifest.    *)

Area(b) == (b[3] - b[1]) * (b[4] - b[2])

StrictlyContains(a, b) ==
  /\ NoBox \notin {a, b}
  /\ a[1] <= b[1] + 2 /\ a[2] <= b[2] + 2
  /\ a[3] + 2 >= b[3] /\ a[4] + 2 >= b[4]
  /\ Area(a) > Area(b)

Close(a, b) ==
  /\ NoBox \notin {a, b}
  /\ \A i \in 1..4 : a[i] <= b[i] + 2 /\ b[i] <= a[i] + 2

Matches(entry, c) ==
  entry.page = c.page /\ entry.img = c.img /\ c.img # NoImage /\ Close(entry.bbox, c.bbox)

-------------------------------------------------------------------------------
(* detect-repairs and repair-images.                                       *)

Clippable(c) == c.bbox # NoBox

(* detect_caption_mispairs: an image without a caption beside one with a   *)
(* caption that does not contain it.                                       *)
Mispaired(d) ==
  LET captioned(c) == {p \in ImageChunks(d) : p.page = c.page /\ p.caption}
  IN  {c \in ImageChunks(d) :
         /\ ~c.caption
         /\ captioned(c) # {}
         /\ \A p \in captioned(c) : ~StrictlyContains(p.bbox, c.bbox)}

Degraded(d) == {c \in ImageChunks(d) : c.dark /\ c.img # NoImage /\ c.bytes # Missing}

(* The report is a draft for a human, who turns it into a seed.            *)
DetectRepairs(d) ==
  /\ BeginCommand
  /\ docs[d].kind = "mineru"
  /\ draft' = [id |-> d,
               allow |-> {c.img : c \in {e \in Degraded(d) : Clippable(e)}},
               captions |-> {[page |-> c.page, img |-> c.img, bbox |-> c.bbox] :
                               c \in {e \in Mispaired(d) : Clippable(e)}}]
  /\ UNCHANGED <<docs, dirs, command, stale>>

(* The seed is any part of the report, and outlives the document it was    *)
(* made for: a reviewer's correction is applied again after a re-ingest.   *)
BeginRepair(d, allow, captions) ==
  /\ BeginCommand
  /\ docs[d].kind = "mineru"
  /\ draft.id # 0
  /\ command' = [name |-> "repair", id |-> d, entries |-> {}, captions |-> captions,
                 todo |-> Selected(docs[d].chunks,
                            {i \in DOMAIN docs[d].chunks :
                               LET c == docs[d].chunks[i]
                               IN  c \in Degraded(d) /\ c.img \in allow /\ Clippable(c)})]
  /\ UNCHANGED <<docs, dirs, draft, stale>>

Repairing == command.name = "repair"

(* The picture of a chunk's box on its page of the file's PDF.             *)
Region(file, c) == <<"clip", file, c.page, c.bbox>>

FixedName(c) == <<c.page, c.order, c.img>>

ClipFigure ==
  /\ Repairing
  /\ command.todo # <<>>
  /\ LET c == Head(command.todo) IN
     /\ dirs' = [dirs EXCEPT ![command.id].fixed =
                   Put(@, [name |-> FixedName(c), bytes |-> Region(docs[command.id].file, c)])]
     /\ command' = [command EXCEPT !.todo = Tail(@),
                      !.entries = @ \cup {[page |-> c.page, img |-> c.img, bbox |-> c.bbox,
                                           fixed |-> FixedName(c)]}]
  /\ UNCHANGED <<docs, draft, commands, stale>>

SaveOverrides ==
  /\ Repairing
  /\ command.todo = <<>>
  /\ dirs' = [dirs EXCEPT ![command.id].overrides = command.entries,
                          ![command.id].captions = command.captions]
  /\ stale' = stale \ {command.id}
  /\ command' = NoCommand
  /\ UNCHANGED <<docs, draft, commands>>

KillRepair ==
  /\ Repairing
  /\ command' = NoCommand
  /\ UNCHANGED <<docs, dirs, draft, commands, stale>>

-------------------------------------------------------------------------------
(* What reflow.py serves.                                                  *)

NotFound == <<"404">>

(* Variant: any entry for the image's name is taken.                       *)
FixedFilesByName(d, c) ==
  {f \in dirs[d].fixed : \E o \in dirs[d].overrides : o.img = c.img /\ f.name = o.fixed}

FixedFiles(d, c) ==
  {f \in dirs[d].fixed : \E o \in dirs[d].overrides : Matches(o, c) /\ f.name = o.fixed}

ChunkImage(d, c) ==
  LET originals == {f \in dirs[d].images : f.name = c.img}
      files     == IF FixedFiles(d, c) # {} THEN FixedFiles(d, c) ELSE originals
  IN  IF files = {} THEN NotFound ELSE (CHOOSE f \in files : TRUE).bytes

(* A caption correction is applied before nested panels are dropped.       *)
Captioned(d, c) == c.caption \/ \E o \in dirs[d].captions : Matches(o, c)

Nested(d) ==
  {c \in ImageChunks(d) :
     /\ ~Captioned(d, c)
     /\ \E p \in ImageChunks(d) :
          p.page = c.page /\ Captioned(d, p) /\ StrictlyContains(p.bbox, c.bbox)}

Reflow(d) == ToSet(docs[d].chunks) \ Nested(d)

-------------------------------------------------------------------------------

Next ==
  \/ \E r \in Requests : BeginIngest(r)
  \/ CopyImage
  \/ CommitIngest
  \/ FailIngest
  \/ KillIngest
  \/ \E file \in Files : AddLegacy(file)
  \/ \E d \in Id : SweepLegacy(d)
  \/ \E d \in Id : DetectRepairs(d)
  \/ \E d \in Id : \E allow \in SUBSET draft.allow, captions \in SUBSET draft.captions :
       BeginRepair(d, allow, captions)
  \/ ClipFigure
  \/ SaveOverrides
  \/ KillRepair

Spec == Init /\ [][Next]_vars

-------------------------------------------------------------------------------
(* Properties.                                                             *)

(* The chunk's figure as MinerU cut it, or clipped again from the PDF at   *)
(* the chunk's place, to the tolerance of the manifest.                    *)
IsFigureOf(bytes, d, c) ==
  \/ bytes = c.bytes
  \/ /\ bytes[1] = "clip" /\ bytes[2] = docs[d].file /\ bytes[3] = c.page
     /\ Close(bytes[4], c.bbox)

(* Between commands every chunk of a document that has an image shows its  *)
(* own figure, whatever ingests, overwrites and repairs were stopped       *)
(* before and whoever had the directory, unless it matches a manifest made *)
(* for another document; and what the reading view leaves out lies inside  *)
(* a figure it shows.                                                      *)
EveryFigureServed ==
  command = NoCommand =>
    \A d \in Id : \A c \in ToSet(docs[d].chunks) :
      /\ c.img # NoImage /\ (d \in stale => FixedFiles(d, c) = {}) =>
           IsFigureOf(ChunkImage(d, c), d, c)
      /\ c \in Reflow(d) \/ \E p \in Reflow(d) : StrictlyContains(p.bbox, c.bbox)

(* "A stale manifest simply stops matching" (image_repair.py:19): when the *)
(* manifest was made for an earlier document of the id, what a chunk is    *)
(* shown by it is the chunk's own figure none the less.                    *)
StaleManifestStopsMatching ==
  command = NoCommand =>
    \A d \in stale : \A c \in ToSet(docs[d].chunks) :
      FixedFiles(d, c) # {} => IsFigureOf(ChunkImage(d, c), d, c)

(* "A 1.x document with the same filename must coexist untouched": an      *)
(* ingest neither deletes nor replaces a document of the other extractor,  *)
(* even when ids are given again.                                          *)
LegacyUntouched ==
  [][\A d \in Id :
       docs[d].kind = "pymupdf" /\ docs'[d] # docs[d] => SweepLegacy(d)]_vars

(* The chunks of a document stand in the order of the PDF, each on the     *)
(* page of the whole PDF it was extracted from, however the PDF was split. *)
ChunksOnTheirPages ==
  \A d \in Id : \A i \in DOMAIN docs[d].chunks :
    /\ docs[d].chunks[i].page = docs[d].chunks[i].source
    /\ docs[d].chunks[i].order = i - 1
===============================================================================
