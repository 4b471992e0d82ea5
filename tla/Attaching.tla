------------------------------- MODULE Attaching -------------------------------
(***************************************************************************)
(* How a file comes to a paper, and under which name: fetched on request,  *)
(* by the queue of downloads or for the browser's extension, put into the  *)
(* directory of its attachment, replaced, renamed after its paper, drawn   *)
(* as a thumbnail, and removed (yk-server/src/routes/files.rs,             *)
(* connector.rs, files_browser.rs and thumbnails.rs, storage.rs,           *)
(* naming.rs).                                                             *)
(*                                                                         *)
(* The database and the disk have no common transaction, and a request is  *)
(* many steps: everything else can come between two of them, and a request *)
(* whose client hangs up, or whose server stops, ends at any of them.      *)
(***************************************************************************)
EXTENDS Integers, Sequences, SequencesExt, FiniteSetsExt, TLC, FiniteSetTheorems, TLAPS

CONSTANTS
  Jobs,       \* requests and the worker of the downloads
  Web,        \* Web[a]: what the address a answers
  Nowhere,    \* no address
  Pages,      \* what the extension finds on a page, a sequence of objects
  Templates,  \* sequences of placeholders
  Shelved,    \* the papers there are at first: their fields and creators
  MaxKey, MaxWrites, MaxActs, MaxStops  \* bounds: keys, downloads and uploads, requests and deletions, stops

\* A name is a stem and what follows its last dot, and Web answers for every
\* address that is written down in a field, a page or an answer.
Objects == UNION {ToSet(page) : page \in Pages}
Known(fields) == \A n \in {"arXiv", "url", "DOI"} \cap DOMAIN fields : fields[n] \in DOMAIN Web \cup {Nowhere}

ASSUME AttachingAssumption ==
  /\ \A a \in DOMAIN Web : LET w == Web[a] IN
       w.name = <<w.name[1], w.name[2]>> /\ {w.meta, w.rel, w.leads} \subseteq DOMAIN Web \cup {Nowhere}
  /\ Pages \subseteq Seq(Objects)
  /\ \A object \in Objects :
       Known(object.fields) /\ object.notes \in Seq(STRING) /\ object.files \in Seq(DOMAIN Web)
  /\ Shelved = [n \in 1 .. Len(Shelved) |-> Shelved[n]] /\ Len(Shelved) \in Nat
  /\ \A n \in DOMAIN Shelved : Known(Shelved[n].fields)

VARIABLES
  items,    \* items[k], or Gone; keys are given once
  disk,     \* disk[path]: the file under a path
  content,  \* content[f]: the bytes in file f, Empty, or Mixed
  wanted,   \* rows in the queue of downloads: papers and addresses
  doomed,   \* keys of which the files are to be removed
  job,      \* what each request is doing
  writes, acts, stops,              \* how many there have been
  last,     \* history: the bytes that were put last for an attachment
  crossed,  \* history: attachments that two requests had in hand, or one let go
  raced     \* history: addresses that two requests found missing under a paper

vars == <<items, disk, content, wanted, doomed, job, writes, acts, stops, last, crossed, raced>>

Gone  == [type |-> "gone"]
Empty == 0
Mixed == -1
NoName == <<>>

Live(k) == k \in DOMAIN items /\ items[k].type # "gone"
IsAttachment(k) == Live(k) /\ items[k].type = "attachment"
Under(p) == {k \in DOMAIN items : Live(k) /\ items[k].parent = p}

-----------------------------------------------------------------------------
(***************************************************************************)
(* Names and paths.  A name is a stem and what follows its last dot.       *)
(***************************************************************************)

\* The end of the address, if it ends as a file does; an arXiv number does not.
FilenameFromUrl(a) ==
  LET w == Web[a] IN
  IF w.type # "pdf" \/ w.lettered THEN w.name ELSE <<w.name[1] \o w.name[2], <<"pdf">>>>

\* The surname, or a name in one piece.
Surname(creator) == SelectSeq(<<creator.last, creator.name>>, LAMBDA n : n # "")

\* What a placeholder stands for; nothing, when the paper does not say.
Value(placeholder, k) ==
  CASE placeholder = "key" -> <<"key">>
    [] placeholder = "author" -> IF items[k].creators = <<>> THEN <<>> ELSE Surname(items[k].creators[1])
    [] placeholder \in DOMAIN items[k].fields -> <<items[k].fields[placeholder]>>
    [] OTHER -> <<>>

\* Missing parts leave no holes, and a name is never empty.
Render(template, k) ==
  LET said == FlattenSeq([n \in DOMAIN template |-> Value(template[n], k)])
  IN IF said = <<>> THEN <<"key">> ELSE said

FilenameFor(template, k, name) == <<Render(template, k), name[2]>>

Path(k, name)    == [in |-> "storage", of |-> k, name |-> name]
Picture(k, kind) == [in |-> "cache", of |-> k, name |-> <<<<"page">>, <<kind>>>>]
IsPicture(path)  == path.in = "cache"

\* Mutant of the next: bytes are written where they are served from.
InPlace(path) == path

\* A directory for each attachment, and one file beside each for what is being
\* written.
Temp(path) ==
  [path EXCEPT !.name = <<path.name[1], IF IsPicture(path) THEN Append(path.name[2], "part") ELSE <<"part">>>>]

Holds(path) == path \in DOMAIN disk
Bytes(path) == IF Holds(path) THEN content[disk[path]] ELSE Empty
Removed(S)  == [path \in DOMAIN disk \ S |-> disk[path]]

\* What is sent for an attachment, and for its first page: a PNG if there is
\* one.
Named(k) == IsAttachment(k) /\ items[k].name # NoName
Served(k) == Bytes(Path(k, items[k].name))
Kinds == <<"png", "jpg">>
Shown(k) == SelectSeq(Kinds, LAMBDA kind : Holds(Picture(k, kind)))

-----------------------------------------------------------------------------
(***************************************************************************)
(* Addresses.                                                              *)
(***************************************************************************)

Field(k, name) == IF name \in DOMAIN items[k].fields THEN items[k].fields[name] ELSE Nowhere

\* A DOI leads to a page that may name the file.
DoiLandingPage(k) == Field(k, "DOI")

\* The file that a page names: in the tag made for it, or else as a link.
PdfLink(w) == IF w.meta # Nowhere THEN w.meta ELSE w.rel

\* Where a paper can be had: an arXiv number, an address that is that of a file
\* or leads to one by its form, or else a DOI.
PdfUrlFor(k) ==
  LET url == Field(k, "url") IN
  CASE Field(k, "arXiv") # Nowhere -> Field(k, "arXiv")
    [] Field(k, "arXiv") = Nowhere /\ url # Nowhere /\ Web[url].leads # Nowhere -> Web[url].leads
    [] OTHER -> DoiLandingPage(k)

WorthFetching(k) == PdfUrlFor(k) # Nowhere /\ {c \in Under(k) : items[c].type = "attachment"} = {}

-----------------------------------------------------------------------------
Idle ==
  [at |-> "idle", for |-> "nobody", parent |-> 0, url |-> Nowhere, key |-> 0, path |-> Path(0, NoName), bytes |-> Empty,
   file |-> 0, todo |-> <<>>, notes |-> 0, files |-> <<>>, moved |-> {}, made |-> <<>>, told |-> <<>>]

Go(j, next) == job' = [job EXCEPT ![j] = next]

Acts == acts < MaxActs /\ acts' = acts + 1
Starts(j) == job[j].at = "idle" /\ Acts

\* Mutant of the next: a save goes on with the next paper.
NextPaper(j) ==
  IF job[j].for = "save" THEN [job[j] EXCEPT !.at = "saving", !.parent = 0, !.files = <<>>] ELSE Idle

\* A save goes on when a file has come, or has not.
Attached(j) ==
  IF job[j].for = "save" THEN [job[j] EXCEPT !.at = "saving", !.url = Nowhere, !.key = 0] ELSE Idle

Fresh(record) == Append(items, record)
NextKey == Len(items) + 1
Room == Len(items) < MaxKey

Paper(draft) ==
  [type |-> "paper", parent |-> 0, url |-> Nowhere, name |-> NoName, fields |-> draft.fields, creators |-> draft.creators]
Child(type, parent, url, name) ==
  [type |-> type, parent |-> parent, url |-> url, name |-> name, fields |-> <<>>, creators |-> <<>>]

-----------------------------------------------------------------------------
(***************************************************************************)
(* Fetching: attach_url.                                                   *)
(***************************************************************************)

Attach(state, for, p, a) == [state EXCEPT !.at = "get", !.for = for, !.parent = p, !.url = a]

\* fetch, with an address or what the paper says.
Fetch(j, p, given) ==
  /\ Starts(j) /\ Live(p) /\ items[p].type = "paper"
  /\ LET a == IF given # Nowhere THEN given ELSE PdfUrlFor(p) IN
     a # Nowhere /\ Go(j, Attach(Idle, "fetch", p, a))
  /\ UNCHANGED <<items, disk, content, wanted, doomed, writes, stops, last>>

\* queue_missing_files, when papers are filed.
File(p) ==
  /\ Live(p) /\ items[p].type = "paper" /\ WorthFetching(p)
  /\ wanted' = wanted \cup {[paper |-> p, url |-> PdfUrlFor(p)]} /\ wanted' # wanted
  /\ UNCHANGED <<items, disk, content, doomed, job, writes, acts, stops, last>>

\* The worker takes a row, whatever became of its paper; what becomes of the
\* row is in DownloadQueue.
TakeWanted(j, row) ==
  /\ Starts(j)
  /\ wanted' = wanted \ {row}
  /\ Go(j, Attach(Idle, "worker", row.paper, row.url))
  /\ UNCHANGED <<items, disk, content, doomed, writes, stops, last>>

\* download_file, and once more for the file that a page names.
Download(j) ==
  LET w == Web[job[j].url] IN
  /\ job[j].at \in {"get", "follow"} /\ writes < MaxWrites
  /\ IF w.type # "html" /\ w.answers
     THEN /\ writes' = writes + 1
          /\ Go(j, [job[j] EXCEPT !.at = "look", !.bytes = writes + 1])
     ELSE /\ UNCHANGED writes
          /\ Go(j, IF w.answers /\ job[j].at = "get" /\ PdfLink(w) # Nowhere
                   THEN [job[j] EXCEPT !.at = "follow", !.url = PdfLink(w)] ELSE Attached(j))
  /\ UNCHANGED <<items, disk, content, wanted, doomed, acts, stops, last>>

\* A network that does not answer, a status that is no success, a file too large.
DownloadFails(j) ==
  /\ job[j].at \in {"get", "follow"}
  /\ Go(j, Attached(j))
  /\ UNCHANGED <<items, disk, content, wanted, doomed, writes, acts, stops, last>>

\* Mutant of the next: no attachment is looked for.
Another(j) == {}

\* The attachment of this address, if the paper has one.
Existing(j) == {c \in Under(job[j].parent) : items[c].type = "attachment" /\ items[c].url = job[j].url}

Into(j, k) == [job[j] EXCEPT !.at = "open", !.key = k, !.path = Path(k, FilenameFromUrl(job[j].url))]

LookForAttachment(j) ==
  /\ job[j].at = "look"
  /\ IF Existing(j) = {} THEN Go(j, [job[j] EXCEPT !.at = "create"])
     ELSE \E k \in Existing(j) : Go(j, Into(j, k))
  /\ UNCHANGED <<items, disk, content, wanted, doomed, writes, acts, stops, last>>

CreateAttachment(j) ==
  LET a == job[j].url IN
  /\ job[j].at = "create"
  /\ IF Live(job[j].parent)
     THEN /\ Room
          /\ items' = Fresh(Child("attachment", job[j].parent, a, FilenameFromUrl(a)))
          /\ last' = Append(last, Empty)
          /\ Go(j, Into(j, NextKey))
     ELSE Go(j, Attached(j)) /\ UNCHANGED <<items, last>>
  /\ UNCHANGED <<disk, content, wanted, doomed, writes, acts, stops>>

-----------------------------------------------------------------------------
(***************************************************************************)
(* Writing: Storage::put, and the same for a picture.                      *)
(***************************************************************************)

\* File::create: the file beside is made, or emptied when there is one.
OpenTemp(j) ==
  LET temp == Temp(job[j].path) IN
  /\ job[j].at = "open"
  /\ IF Holds(temp)
     THEN /\ content' = [content EXCEPT ![disk[temp]] = Empty]
          /\ UNCHANGED disk
          /\ Go(j, [job[j] EXCEPT !.at = "fill", !.file = disk[temp]])
     ELSE /\ content' = Append(content, Empty)
          /\ disk' = [path \in DOMAIN disk \cup {temp} |-> IF path = temp THEN Len(content) + 1 ELSE disk[path]]
          /\ Go(j, [job[j] EXCEPT !.at = "fill", !.file = Len(content) + 1])
  /\ UNCHANGED <<items, wanted, doomed, writes, acts, stops, last>>

\* Two that write one file from its beginning leave it mixed.
Fill(j) ==
  /\ job[j].at = "fill"
  /\ content' = [content EXCEPT ![job[j].file] = IF @ \in {Empty, job[j].bytes} THEN job[j].bytes ELSE Mixed]
  /\ Go(j, [job[j] EXCEPT !.at = "swap"])
  /\ UNCHANGED <<items, disk, wanted, doomed, writes, acts, stops, last>>

\* rename over the name: it fails when there is nothing beside any more.
Swap(j) ==
  LET path == job[j].path
      temp == Temp(path) IN
  /\ job[j].at = "swap"
  /\ IF Holds(temp)
     THEN /\ disk' = [q \in (DOMAIN disk \ {temp}) \cup {path} |-> IF q = path THEN disk[temp] ELSE disk[q]]
          /\ last' = IF IsPicture(path) THEN last ELSE [last EXCEPT ![path.of] = job[j].bytes]
     ELSE UNCHANGED <<disk, last>>
  /\ Go(j, Attached(j))
  /\ UNCHANGED <<items, content, wanted, doomed, writes, acts, stops>>

\* upload: the name is read before the bytes are written.
Upload(j, k) ==
  /\ Starts(j) /\ Named(k) /\ writes < MaxWrites
  /\ writes' = writes + 1
  /\ Go(j, [Idle EXCEPT !.at = "open", !.for = "upload", !.key = k, !.path = Path(k, items[k].name), !.bytes = writes + 1])
  /\ UNCHANGED <<items, disk, content, wanted, doomed, stops, last>>

\* store: a page that was told there is no picture drew what it was sent and
\* hands the picture back.
StorePicture(j, k, kind) ==
  /\ Starts(j) /\ Named(k) /\ Served(k) > 0 /\ Shown(k) = <<>>
  /\ Go(j, [Idle EXCEPT !.at = "open", !.for = "picture", !.key = k, !.path = Picture(k, kind), !.bytes = Served(k)])
  /\ UNCHANGED <<items, disk, content, wanted, doomed, writes, stops, last>>

-----------------------------------------------------------------------------
(***************************************************************************)
(* Renaming: the files one by one, then every record at once.              *)
(***************************************************************************)

Changes(template) ==
  {k \in DOMAIN items : Named(k) /\ Live(items[k].parent)
                        /\ FilenameFor(template, items[k].parent, items[k].name) # items[k].name}

\* plan: the files of the papers that were chosen, in the order they are listed.
Rename(j, template) ==
  /\ Starts(j)
  /\ \E chosen \in SetToAllKPermutations(Changes(template)) \ {<<>>} :
       Go(j, [Idle EXCEPT !.at = "names", !.for = "names",
              !.todo = [n \in DOMAIN chosen |->
                          [key |-> chosen[n], from |-> Path(chosen[n], items[chosen[n]].name),
                           to |-> Path(chosen[n], FilenameFor(template, items[chosen[n]].parent, items[chosen[n]].name))]]])
  /\ UNCHANGED <<items, disk, content, wanted, doomed, writes, stops, last>>

\* Storage::rename does not replace a file: it looks first.
LookForTarget(j) ==
  /\ job[j].at = "names" /\ job[j].todo # <<>>
  /\ Go(j, IF Holds(Head(job[j].todo).to) THEN [job[j] EXCEPT !.todo = Tail(@)] ELSE [job[j] EXCEPT !.at = "move"])
  /\ UNCHANGED <<items, disk, content, wanted, doomed, writes, acts, stops, last>>

MoveFile(j) ==
  LET move == Head(job[j].todo) IN
  /\ job[j].at = "move"
  /\ IF Holds(move.from)
     THEN /\ disk' = [q \in (DOMAIN disk \ {move.from}) \cup {move.to} |-> IF q = move.to THEN disk[move.from] ELSE disk[q]]
          /\ Go(j, [job[j] EXCEPT !.at = "names", !.todo = Tail(@), !.moved = @ \cup {move}])
     ELSE UNCHANGED disk /\ Go(j, [job[j] EXCEPT !.at = "names", !.todo = Tail(@)])
  /\ UNCHANGED <<items, content, wanted, doomed, writes, acts, stops, last>>

\* Mutant of the next: the records keep their names.
Unrecorded(j, k) == items[k]

\* The record as it is after a rename.
Recorded(j, k) ==
  LET mine == {m \in job[j].moved : m.key = k}
  IN IF mine = {} \/ ~Live(k) THEN items[k] ELSE [items[k] EXCEPT !.name = (CHOOSE m \in mine : TRUE).to.name]

RecordNames(j) ==
  /\ job[j].at = "names" /\ job[j].todo = <<>>
  /\ items' = [k \in DOMAIN items |-> Recorded(j, k)]
  /\ Go(j, Idle)
  /\ UNCHANGED <<disk, content, wanted, doomed, writes, acts, stops, last>>

-----------------------------------------------------------------------------
(***************************************************************************)
(* The extension: saveItems.                                               *)
(***************************************************************************)

\* creator: a name in one piece stays whole, and what is neither is left out.
Creator(value) ==
  CASE value.shape = "text" -> <<[last |-> "", name |-> value.name]>>
    [] value.shape = "first or last" -> <<[last |-> value.last, name |-> ""]>>
    [] value.shape = "name" -> <<[last |-> "", name |-> value.name]>>
    [] OTHER -> <<>>

\* to_draft: fields that are plain values, and not those that say how the
\* object hangs together.
Structural == {"itemType", "creators", "tags", "notes", "attachments", "seeAlso", "id", "uri", "key"}
Fields(object) == [name \in {n \in DOMAIN object.fields : n \notin Structural /\ object.fields[n] # "nested"} |-> object.fields[name]]
Draft(object) ==
  [type |-> object.type, fields |-> Fields(object),
   creators |-> FlattenSeq([n \in DOMAIN object.creators |-> Creator(object.creators[n])])]

\* notes: those that are blank are left.
NotesIn(object) == Cardinality({n \in DOMAIN object.notes : object.notes[n] # ""})

\* The store refuses a type it does not know.
Accepted(object) == Draft(object).type = "article"

SaveItems(j, page) ==
  /\ Starts(j)
  /\ Go(j, [Idle EXCEPT !.at = "saving", !.for = "save", !.todo = page])
  /\ UNCHANGED <<items, disk, content, wanted, doomed, writes, stops, last>>

Saving(j) == job[j].at = "saving"
Between(j) == Saving(j) /\ job[j].notes = 0 /\ job[j].files = <<>>

\* The next object; one that is refused is passed over.
SaveItem(j) ==
  LET object == Head(job[j].todo)
      next == [job[j] EXCEPT !.todo = Tail(@)] IN
  /\ Between(j) /\ job[j].parent = 0 /\ job[j].todo # <<>>
  /\ IF Accepted(object)
     THEN /\ Room
          /\ items' = Fresh(Paper(Draft(object)))
          /\ last' = Append(last, Empty)
          /\ Go(j, [next EXCEPT !.parent = NextKey, !.notes = NotesIn(object), !.files = object.files,
                                !.made = Append(@, [key |-> NextKey, notes |-> NotesIn(object)])])
     ELSE Go(j, next) /\ UNCHANGED <<items, last>>
  /\ UNCHANGED <<disk, content, wanted, doomed, writes, acts, stops>>

\* A note of it; nobody hears when it fails.
SaveNote(j) ==
  /\ Saving(j) /\ job[j].notes > 0
  /\ IF Live(job[j].parent)
     THEN Room /\ items' = Fresh(Child("note", job[j].parent, Nowhere, NoName)) /\ last' = Append(last, Empty)
     ELSE UNCHANGED <<items, last>>
  /\ Go(j, [job[j] EXCEPT !.notes = @ - 1])
  /\ UNCHANGED <<disk, content, wanted, doomed, writes, acts, stops>>

\* attachments: the next file; a page is passed over.
SaveFile(j) ==
  LET a    == Head(job[j].files)
      next == [job[j] EXCEPT !.files = Tail(@)] IN
  /\ Saving(j) /\ job[j].notes = 0 /\ job[j].files # <<>>
  /\ Go(j, IF Web[a].type = "html" THEN next ELSE Attach(next, "save", job[j].parent, a))
  /\ UNCHANGED <<items, disk, content, wanted, doomed, writes, acts, stops, last>>

\* It will be in the answer.
Saved(j) ==
  /\ Between(j) /\ job[j].parent # 0
  /\ Go(j, [job[j] EXCEPT !.told = Append(@, job[j].parent), !.parent = 0])
  /\ UNCHANGED <<items, disk, content, wanted, doomed, writes, acts, stops, last>>

\* Everybody hears that something changed, and the extension what was saved.
AnswerSaved(j) ==
  /\ Between(j) /\ job[j].parent = 0 /\ job[j].todo = <<>>
  /\ Go(j, Idle)
  /\ UNCHANGED <<items, disk, content, wanted, doomed, writes, acts, stops, last>>

\* saveSnapshot: a page that nothing is known about, by its address.
SaveSnapshot(a) ==
  /\ Acts /\ Room
  /\ items' = Fresh(Paper([fields |-> [url |-> a], creators |-> <<>>]))
  /\ last' = Append(last, Empty)
  /\ UNCHANGED <<disk, content, wanted, doomed, job, writes, stops>>

-----------------------------------------------------------------------------
(***************************************************************************)
(* An item goes with what hangs from it; its files follow (FileStore), and *)
(* a request ends where it is.                                             *)
(***************************************************************************)

Delete(k) ==
  LET S == {k} \cup Under(k) IN
  /\ Live(k) /\ Acts
  /\ items' = [i \in DOMAIN items |-> IF i \in S THEN Gone ELSE items[i]]
  /\ doomed' = doomed \cup S
  /\ UNCHANGED <<disk, content, wanted, job, writes, stops, last>>

\* remove and forget.
CleanUp(k) ==
  /\ k \in doomed
  /\ doomed' = doomed \ {k}
  /\ disk' = Removed({path \in DOMAIN disk : path.of = k})
  /\ UNCHANGED <<items, content, wanted, job, writes, acts, stops, last>>

Stop(j) ==
  /\ job[j].at # "idle" /\ stops < MaxStops
  /\ stops' = stops + 1
  /\ Go(j, Idle)
  /\ UNCHANGED <<items, disk, content, wanted, doomed, writes, acts, last>>

-----------------------------------------------------------------------------
Writes(j, k)  == j.at \in {"open", "fill", "swap"} /\ j.path.of = k
Renames(j, k) == \E m \in ToSet(j.todo) \cup j.moved : j.for = "names" /\ m.key = k
InHand(j, k)  == Writes(j, k) \/ Renames(j, k)

\* What two requests have in hand, what a rename lets go half done, and what
\* is written when its record is gone or has another name.
Crosses(k) ==
  \/ \E i, j \in Jobs : i # j /\ InHand(job'[i], k) /\ InHand(job'[j], k)
  \/ \E j \in Jobs : Renames(job[j], k) /\ stops' # stops /\ job'[j].at = "idle"
  \/ \E j \in Jobs : /\ Writes(job'[j], k)
                     /\ items'[k] # Gone => ~IsPicture(job'[j].path) /\ items'[k].name # job'[j].path.name

Missed(i, j) ==
  /\ i # j /\ job'[i].at = "create" /\ job'[j].at = "create"
  /\ job'[i].parent = job'[j].parent /\ job'[i].url = job'[j].url

History ==
  /\ crossed' = crossed \cup {k \in DOMAIN items' : Crosses(k)}
  /\ raced' = raced \cup {<<job'[i].parent, job'[i].url>> : i \in {i \in Jobs : \E j \in Jobs : Missed(i, j)}}

Init ==
  /\ items = [n \in DOMAIN Shelved |-> Paper(Shelved[n])]
  /\ disk = <<>> /\ content = <<>> /\ wanted = {} /\ doomed = {}
  /\ job = [j \in Jobs |-> Idle]
  /\ writes = 0 /\ acts = 0 /\ stops = 0
  /\ last = [n \in DOMAIN Shelved |-> Empty]
  /\ crossed = {} /\ raced = {}

Next ==
  /\ \/ \E j \in Jobs :
          \/ \E k \in DOMAIN items :
               \/ \E a \in DOMAIN Web \cup {Nowhere} : Fetch(j, k, a)
               \/ Upload(j, k) \/ \E n \in DOMAIN Kinds : StorePicture(j, k, Kinds[n])
          \/ \E row \in wanted : TakeWanted(j, row)
          \/ Download(j) \/ DownloadFails(j) \/ LookForAttachment(j) \/ CreateAttachment(j)
          \/ OpenTemp(j) \/ Fill(j) \/ Swap(j)
          \/ \E template \in Templates : Rename(j, template)
          \/ LookForTarget(j) \/ MoveFile(j) \/ RecordNames(j)
          \/ \E page \in Pages : SaveItems(j, page)
          \/ SaveItem(j) \/ SaveNote(j) \/ SaveFile(j) \/ Saved(j) \/ AnswerSaved(j)
          \/ Stop(j)
     \/ \E a \in {a \in DOMAIN Web : Web[a].type = "html"} : SaveSnapshot(a)
     \/ \E k \in DOMAIN items : File(k) \/ Delete(k) \/ CleanUp(k)
  /\ History

Spec == Init /\ [][Next]_vars

-----------------------------------------------------------------------------
(***************************************************************************)
(* Properties.                                                             *)
(***************************************************************************)

\* What is written is beside what is served: not so for a name that ends as
\* what is written does.
Beside(k) == items[k].name[2] # <<"part">>

\* Every attachment that no two requests had in hand at once serves, whole,
\* what was put last for it, whatever stopped, or waits for its first file
\* (put, rename, attach_url).
ServesTheLast ==
  \A k \in DOMAIN items : Named(k) /\ Beside(k) /\ k \notin crossed /\ ~(\E j \in Jobs : Renames(job[j], k)) =>
    /\ Served(k) = last[k]
    /\ last[k] = Empty /\ stops = 0 => \E j \in Jobs : Writes(job[j], k)

\* An address has one attachment under a paper, unless two requests found it
\* missing at the same time (attach_url).
OnePerAddress ==
  \A k, m \in DOMAIN items :
    /\ IsAttachment(k) /\ IsAttachment(m) /\ k # m
    /\ items[k].parent = items[m].parent /\ items[k].url = items[m].url
    => <<items[k].parent, items[k].url>> \in raced

\* What the extension is told was saved is every paper that was accepted, in
\* order, each with all its notes (save_items).
SavedIsTold ==
  \A j \in Jobs : job[j].for = "save" =>
    /\ Saving(j) /\ job[j].parent = 0 => job[j].told = [n \in DOMAIN job[j].made |-> job[j].made[n].key]
    /\ \A n \in DOMAIN job[j].told : Live(job[j].told[n]) =>
         Cardinality({c \in Under(job[j].told[n]) : items[c].type = "note"}) = job[j].made[n].notes
           \/ \E i \in DOMAIN items : items[i] = Gone

\* A picture is whole, and belongs to an attachment that is there or whose
\* files are still to be removed, unless two drew it at once or it was written
\* while its item went (store, forget).
PicturesBelong ==
  \A path \in DOMAIN disk : IsPicture(path) /\ Len(path.name[2]) = 1 /\ path.of \notin crossed =>
    /\ Live(path.of) \/ path.of \in doomed
    /\ Bytes(path) > 0

\* What is served, found, told and shown of files is right, races aside.
AttachedRight == ServesTheLast /\ OnePerAddress /\ SavedIsTold /\ PicturesBelong

-----------------------------------------------------------------------------
(***************************************************************************)
(* An instance: a paper that has a DOI, a page that names its file, a page *)
(* of the browser with one object that is refused and one with a blank     *)
(* note, a note and two addresses.                                         *)
(***************************************************************************)
Address(type, name, link, leads) ==
  [answers |-> TRUE, type |-> type, name |-> name, lettered |-> FALSE, meta |-> "none", rel |-> link, leads |-> leads]
SampleWeb ==
  [page |-> Address("html", <<<<"p">>, <<>>>>, "pdf", "none"),
   pdf  |-> Address("pdf", <<<<"24">>, <<"01">>>>, "none", "pdf")]
SamplePages ==
  {<<[type |-> "odd", fields |-> <<>>, creators |-> <<>>, notes |-> <<>>, files |-> <<>>],
     [type |-> "article", fields |-> [url |-> "pdf", key |-> "k", extra |-> "nested"],
      creators |-> <<[shape |-> "neither"], [shape |-> "text", name |-> "a"]>>,
      notes |-> <<"", "n">>, files |-> <<"page", "pdf">>]>>}
SampleTemplates == {<<"author">>}
SampleShelf == <<[fields |-> [DOI |-> "page"], creators |-> <<[last |-> "x", name |-> ""]>>]>>
Symmetry == Permutations(Jobs)

-----------------------------------------------------------------------------
(***************************************************************************)
(* What the proofs carry from step to step.  First what everything looks   *)
(* like, with n keys given and c files on the disk.                        *)
(***************************************************************************)
IsItem(i, n) ==
  \/ i = Gone
  \/ /\ DOMAIN i = {"type", "parent", "url", "name", "fields", "creators"}
     /\ i.type \in {"paper", "attachment", "note"} /\ i.parent \in 0 .. n
     /\ i.type = "attachment" => i.name = <<i.name[1], i.name[2]>> /\ i.url \in DOMAIN Web
     /\ Known(i.fields)

IsPath(q, n) == q = [in |-> q.in, of |-> q.of, name |-> <<q.name[1], q.name[2]>>] /\ q.of \in 1 .. n

\* A path that is written to: a picture has no second ending.
IsTarget(q, n) ==
  /\ IsPath(q, n) /\ q.in \in {"storage", "cache"}
  /\ IsPicture(q) => q.name[2] = <<q.name[2][1]>>

IsMove(m, n) ==
  /\ DOMAIN m = {"key", "from", "to"} /\ m.key \in 1 .. n
  /\ \A q \in {m.from, m.to} : IsPath(q, n) /\ q.in = "storage" /\ q.of = m.key
  /\ m.from # m.to

\* A rename has each file once, to be moved or moved.
IsPlan(r, n) ==
  /\ r.todo \in Seq(ToSet(r.todo)) /\ \A m \in ToSet(r.todo) \cup r.moved : IsMove(m, n)
  /\ \A a, b \in DOMAIN r.todo : r.todo[a].key = r.todo[b].key => a = b
  /\ \A m, o \in r.moved : m.key = o.key => m = o
  /\ \A m \in r.moved, a \in DOMAIN r.todo : m.key # r.todo[a].key
  /\ r.at = "move" => r.todo # <<>>

JobFields ==
  {"at", "for", "parent", "url", "key", "path", "bytes", "file", "todo", "notes", "files", "moved", "made", "told"}

IsJob(r, n, c) ==
  /\ DOMAIN r = JobFields
  /\ r.at \in {"idle", "get", "follow", "look", "create", "open", "fill", "swap", "names", "move", "saving"}
  /\ r.at = "idle" => r.for = "nobody"
  /\ r.at = "saving" => r.for = "save"
  /\ r.for = "names" <=> r.at \in {"names", "move"}
  /\ r.parent \in 0 .. n
  /\ r.at \in {"get", "follow", "look", "create"} => r.url \in DOMAIN Web /\ r.parent \in 1 .. n
  /\ r.at \in {"look", "create", "open", "fill", "swap"} => r.bytes \in Nat \ {0}
  /\ r.at \in {"open", "fill", "swap"} => IsTarget(r.path, n)
  /\ r.at \in {"fill", "swap"} => r.file \in 1 .. c
  /\ r.for = "names" => IsPlan(r, n)
  /\ r.for = "save" => /\ r.todo \in Seq(Objects) /\ r.files \in Seq(DOMAIN Web) /\ r.notes \in Nat
                       /\ r.told \in Seq(Nat) /\ r.made \in Seq([key : Nat, notes : Nat])
                       /\ \A x \in DOMAIN r.made : r.made[x].key \in 1 .. n
                       /\ r.parent = 0 => r.notes = 0 /\ r.files = <<>>

Shape ==
  /\ items \in Seq(ToSet(items)) /\ \A k \in DOMAIN items : IsItem(items[k], Len(items))
  /\ last \in Seq(Nat) /\ Len(last) = Len(items)
  /\ content \in Seq(Int)
  /\ \A q \in DOMAIN disk : IsPath(q, Len(items)) /\ disk[q] \in 1 .. Len(content)
  /\ doomed \subseteq {k \in DOMAIN items : items[k] = Gone}
  /\ \A row \in wanted : row.paper \in DOMAIN items /\ row.url \in DOMAIN Web
  /\ writes \in Nat /\ acts \in Nat /\ stops \in Nat
  /\ DOMAIN job = Jobs /\ \A j \in Jobs : IsJob(job[j], Len(items), Len(content))

-----------------------------------------------------------------------------
(***************************************************************************)
(* Then the files: no file has two paths, and what is being filled lies    *)
(* under no other key; and for a key that no two requests had in hand,     *)
(* what each request that writes or renames it still holds true.           *)
(***************************************************************************)
Apart ==
  /\ \A q, r \in DOMAIN disk : disk[q] = disk[r] => q = r
  /\ \A j \in Jobs : job[j].at = "fill" =>
       \A q \in DOMAIN disk : disk[q] = job[j].file => q.of = job[j].path.of

Alone(k) == \A i, j \in Jobs : InHand(job[i], k) /\ InHand(job[j], k) => i = j

Written(k) ==
  \A j \in Jobs : Writes(job[j], k) =>
    /\ items[k] # Gone /\ (~IsPicture(job[j].path) => items[k].name = job[j].path.name)
    /\ job[j].at \in {"fill", "swap"} => Holds(Temp(job[j].path)) /\ disk[Temp(job[j].path)] = job[j].file
    /\ job[j].at = "fill" => content[job[j].file] = Empty
    /\ job[j].at = "swap" => content[job[j].file] = job[j].bytes

Moving(k) ==
  \A j \in Jobs : Named(k) /\ job[j].for = "names" =>
    /\ \A m \in ToSet(job[j].todo) \cup job[j].moved : m.key = k =>
         m.from = Path(k, items[k].name) /\ m.to.name[2] = items[k].name[2]
    /\ \A m \in job[j].moved : m.key = k /\ Beside(k) => Bytes(m.to) = last[k]

Moved(r, k) == r.for = "names" /\ \E m \in r.moved : m.key = k

Serves(k) == Named(k) /\ Beside(k) /\ (\A j \in Jobs : ~Moved(job[j], k)) => Served(k) = last[k]

Waits(k) ==
  Named(k) /\ last[k] = Empty /\ stops = 0 => \E j \in Jobs : Writes(job[j], k) /\ ~IsPicture(job[j].path)

Pictured(k) ==
  \A q \in DOMAIN disk : IsPicture(q) /\ Len(q.name[2]) = 1 /\ q.of = k =>
    (Live(k) \/ k \in doomed) /\ Bytes(q) > 0

Kept(k) == Alone(k) /\ Written(k) /\ Moving(k) /\ Serves(k) /\ Waits(k) /\ Pictured(k)

FilesInv == Apart /\ \A k \in DOMAIN items : k \notin crossed => Kept(k)

-----------------------------------------------------------------------------
(***************************************************************************)
(* The addresses: whoever is about to create an attachment is right that   *)
(* there is none, or is not the only one.  And the papers that an          *)
(* extension saves: who made a paper knows how many of its notes are left. *)
(***************************************************************************)
Races ==
  /\ \A j \in Jobs : job[j].at = "create" => Existing(j) = {} \/ <<job[j].parent, job[j].url>> \in raced
  /\ \A i, j \in Jobs :
       /\ job[i].at = "create" /\ job[j].at = "create" /\ i # j
       /\ job[i].parent = job[j].parent /\ job[i].url = job[j].url
       => <<job[i].parent, job[i].url>> \in raced

NotesUnder(p) == {c \in Under(p) : items[c].type = "note"}
Left(r, n) == IF r.parent = r.made[n].key THEN r.notes ELSE 0

Telling(r) ==
  /\ r.parent = 0 => Len(r.made) = Len(r.told)
  /\ r.parent # 0 => Len(r.made) = Len(r.told) + 1 /\ r.parent = r.made[Len(r.made)].key
  /\ \A n \in DOMAIN r.told : r.told[n] = r.made[n].key

Counted(r) == \A n \in DOMAIN r.made : Cardinality(NotesUnder(r.made[n].key)) + Left(r, n) = r.made[n].notes

Saves ==
  LET savers == {j \in Jobs : job[j].for = "save"} IN
  /\ \A j \in savers : Telling(job[j])
  /\ \A i, j \in savers : \A m \in DOMAIN job[i].made, n \in DOMAIN job[j].made :
       job[i].made[m].key = job[j].made[n].key => i = j /\ m = n
  /\ (\E k \in DOMAIN items : items[k] = Gone) \/ \A j \in savers : Counted(job[j])

-----------------------------------------------------------------------------
(***************************************************************************)
(* Sequences, jobs and paths.                                              *)
(***************************************************************************)

\* What a sequence is like with one more at its end, and without its first.
LEMMA AtTheEnd ==
  ASSUME NEW s, s \in Seq(ToSet(s)), NEW e
  PROVE  LET t == Append(s, e) IN
         /\ t \in Seq(ToSet(t)) /\ Len(t) = Len(s) + 1 /\ DOMAIN t = DOMAIN s \cup {Len(s) + 1}
         /\ \A k \in DOMAIN s : t[k] = s[k]
         /\ t[Len(s) + 1] = e
BY DEF ToSet

\* A sequence is one of its own elements.
LEMMA OfItsOwn == ASSUME NEW S, NEW s \in Seq(S) PROVE s \in Seq(ToSet(s))
BY DEF ToSet

LEMMA WithoutFirst ==
  ASSUME NEW s, s \in Seq(ToSet(s)), s # <<>>
  PROVE  /\ Tail(s) \in Seq(ToSet(Tail(s))) /\ Len(s) \in Nat \ {0} /\ Len(Tail(s)) = Len(s) - 1
         /\ DOMAIN Tail(s) = 1 .. Len(s) - 1 /\ \A k \in 1 .. Len(s) - 1 : Tail(s)[k] = s[k + 1]
         /\ Head(s) = s[1] /\ 1 \in DOMAIN s
         /\ ToSet(s) = {Head(s)} \cup ToSet(Tail(s))
<1>1. Len(s) \in Nat \ {0} /\ Head(s) = s[1] /\ DOMAIN s = 1 .. Len(s)
  BY DEF ToSet
<1>2. Tail(s) \in Seq(ToSet(s)) /\ Len(Tail(s)) = Len(s) - 1 /\ \A k \in 1 .. Len(s) - 1 : Tail(s)[k] = s[k + 1]
  BY <1>1
<1>3. DOMAIN Tail(s) = 1 .. Len(s) - 1
  BY <1>2
<1>4. Tail(s) \in Seq(ToSet(Tail(s)))
  BY <1>2, OfItsOwn
<1>5. ToSet(s) = {Head(s)} \cup ToSet(Tail(s))
  <2>1. ASSUME NEW x \in 1 .. Len(s) PROVE s[x] \in {Head(s)} \cup ToSet(Tail(s))
    <3>1. CASE x = 1
      BY <3>1, <1>1
    <3>2. CASE x # 1
      <4>1. x - 1 \in 1 .. Len(s) - 1 /\ Tail(s)[x - 1] = s[x]
        BY <3>2, <1>1, <1>2
      <4> QED BY <4>1, <1>3 DEF ToSet
    <3> QED BY <3>1, <3>2
  <2>2. ASSUME NEW x \in 1 .. Len(s) - 1 PROVE Tail(s)[x] \in ToSet(s)
    BY <1>1, <1>2 DEF ToSet
  <2> QED BY <2>1, <2>2, <1>1, <1>3 DEF ToSet
<1> QED BY <1>1, <1>2, <1>3, <1>4, <1>5

\* A sequence whose elements are replaced.
LEMMA EachReplaced ==
  ASSUME NEW s, s \in Seq(ToSet(s)), NEW t, t = [k \in DOMAIN s |-> t[k]]
  PROVE  t \in Seq(ToSet(t)) /\ Len(t) = Len(s) /\ DOMAIN t = DOMAIN s
BY DEF ToSet

\* One request goes on, the others are where they were.
LEMMA OneGoes ==
  ASSUME DOMAIN job = Jobs, NEW j \in Jobs, NEW next, job' = [job EXCEPT ![j] = next]
  PROVE  DOMAIN job' = Jobs /\ job'[j] = next /\ \A i \in Jobs : i # j => job'[i] = job[i]
OBVIOUS

\* What is as it should be stays so when there are more keys and more files.
LEMMA MoreIsFine ==
  ASSUME NEW n \in Nat, NEW m \in Nat, n <= m, NEW c \in Nat, NEW d \in Nat, c <= d
  PROVE  /\ \A i : IsItem(i, n) => IsItem(i, m)
         /\ \A q : IsPath(q, n) => IsPath(q, m)
         /\ \A r : IsJob(r, n, c) => IsJob(r, m, d)
<1>1. \A i : IsItem(i, n) => IsItem(i, m)
  BY DEF IsItem
<1>2. \A q : IsPath(q, n) => IsPath(q, m)
  BY DEF IsPath
<1>3. \A q : IsTarget(q, n) => IsTarget(q, m)
  BY <1>2 DEF IsTarget
<1>4. \A q : IsMove(q, n) => IsMove(q, m)
  BY <1>2 DEF IsMove
<1>5. \A r : IsPlan(r, n) => IsPlan(r, m)
  BY <1>4 DEF IsPlan
<1>6. 1 .. n \subseteq 1 .. m /\ 0 .. n \subseteq 0 .. m /\ 1 .. c \subseteq 1 .. d
  OBVIOUS
<1>7. ASSUME NEW r, IsJob(r, n, c) PROVE IsJob(r, m, d)
  BY <1>3, <1>5, <1>6, <1>7 DEF IsJob
<1> QED BY <1>1, <1>2, <1>7

\* One ending, and two.
LEMMA OneMore == ASSUME NEW kind, NEW e PROVE Len(<<kind>>) = 1 /\ Len(Append(<<kind>>, e)) = 2
<1>1. <<kind>> \in Seq({kind})
  OBVIOUS
<1> QED BY <1>1

\* What a request writes first is beside what it writes, under the same key, and
\* is neither a picture nor, but for one ending, a file that is served.
LEMMA TempIsBeside ==
  ASSUME NEW n \in Nat, NEW q, IsTarget(q, n)
  PROVE  /\ IsPath(Temp(q), n) /\ Temp(q).of = q.of /\ Temp(q).in = q.in
         /\ IsPicture(q) => Len(Temp(q).name[2]) = 2
         /\ ~IsPicture(q) => Temp(q).name[2] = <<"part">>
<1>1. q = [in |-> q.in, of |-> q.of, name |-> <<q.name[1], q.name[2]>>] /\ q.of \in 1 .. n
  BY DEF IsTarget, IsPath
<1>2. CASE IsPicture(q)
  <2>0. PICK kind : q.name[2] = <<kind>>
    BY <1>2 DEF IsTarget
  <2>1. \A e : [q EXCEPT !.name = <<q.name[1], e>>] = [in |-> q.in, of |-> q.of, name |-> <<q.name[1], e>>]
    BY <1>1
  <2>2. PICK e : e = Append(q.name[2], "part")
    OBVIOUS
  <2>3. Len(e) = 2
    BY <2>0, <2>2, OneMore
  <2>4. Temp(q) = [q EXCEPT !.name = <<q.name[1], e>>]
    BY <1>2, <2>2 DEF Temp
  <2> QED BY <1>1, <1>2, <2>1, <2>3, <2>4 DEF IsPath
<1>3. CASE ~IsPicture(q)
  <2>1. Temp(q) = [in |-> q.in, of |-> q.of, name |-> <<q.name[1], <<"part">>>>]
    BY <1>1, <1>3 DEF Temp
  <2> QED BY <1>1, <1>3, <2>1 DEF IsPath
<1> QED BY <1>2, <1>3

-----------------------------------------------------------------------------
(***************************************************************************)
(* Everything looks as it should.                                          *)
(***************************************************************************)

\* Numbers of keys and files.
LEMMA Counts ==
  ASSUME Shape
  PROVE  /\ Len(items) \in Nat /\ DOMAIN items = 1 .. Len(items) /\ Len(content) \in Nat /\ DOMAIN content = 1 .. Len(content)
         /\ DOMAIN last = 1 .. Len(items)
BY DEF Shape

\* A request that does nothing is as it should be.
LEMMA IdleIsFine == ASSUME NEW n \in Nat, NEW c PROVE IsJob(Idle, n, c) /\ Idle.for = "nobody" /\ Idle.at = "idle"
BY DEF IsJob, Idle, JobFields

\* So is one that goes on after a file, or without.
LEMMA AttachedIsFine ==
  ASSUME Shape, NEW j \in Jobs, job[j].for # "names"
  PROVE  IsJob(Attached(j), Len(items), Len(content))
<1>1. IsJob(job[j], Len(items), Len(content)) /\ Len(items) \in Nat
  BY Counts DEF Shape
<1>2. CASE job[j].for = "save"
  BY <1>1, <1>2 DEF Attached, IsJob, JobFields
<1>3. CASE job[j].for # "save"
  BY <1>1, <1>3, IdleIsFine DEF Attached
<1> QED BY <1>2, <1>3

\* One that is about to fetch.
LEMMA AttachIsFine ==
  ASSUME Shape, NEW p \in DOMAIN items, NEW a \in DOMAIN Web
  PROVE  /\ \A for \in {"fetch", "worker"} : IsJob(Attach(Idle, for, p, a), Len(items), Len(content))
         /\ \A r : IsJob(r, Len(items), Len(content)) /\ r.for = "save" =>
              IsJob(Attach(r, "save", p, a), Len(items), Len(content))
<1>1. p \in 1 .. Len(items) /\ Len(items) \in Nat
  BY Counts
<1>2. IsJob(Idle, Len(items), Len(content)) /\ Idle.for = "nobody" /\ Idle.at = "idle"
  BY <1>1, IdleIsFine
<1> QED BY <1>1, <1>2 DEF Attach, IsJob, JobFields

\* One that is about to write what it fetched.
LEMMA IntoIsFine ==
  ASSUME NEW j \in Jobs, NEW n \in Nat, NEW c, NEW k \in 1 .. n,
         IsJob(job[j], n, c), job[j].at \in {"look", "create"}
  PROVE  IsJob(Into(j, k), n, c)
<1>1. job[j].url \in DOMAIN Web /\ DOMAIN job[j] = JobFields
  BY DEF IsJob
<1>2. \E s, e : FilenameFromUrl(job[j].url) = <<s, e>>
  BY <1>1, AttachingAssumption DEF FilenameFromUrl
<1>3. IsTarget(Path(k, FilenameFromUrl(job[j].url)), n)
  BY <1>2 DEF IsTarget, IsPath, Path, IsPicture
<1>4. Into(j, k).path = Path(k, FilenameFromUrl(job[j].url)) /\ Into(j, k).at = "open"
  BY <1>1 DEF Into, JobFields
<1>5. DOMAIN Into(j, k) = JobFields /\ \A f \in JobFields \ {"at", "key", "path"} : Into(j, k)[f] = job[j][f]
  BY <1>1 DEF Into, JobFields
<1>6. job[j].for # "names" /\ job[j].bytes \in Nat \ {0}
  BY DEF IsJob
<1> HIDE DEF Into
<1>7. /\ Into(j, k).for = job[j].for /\ Into(j, k).parent = job[j].parent /\ Into(j, k).bytes = job[j].bytes
      /\ Into(j, k).todo = job[j].todo /\ Into(j, k).notes = job[j].notes /\ Into(j, k).files = job[j].files
      /\ Into(j, k).made = job[j].made /\ Into(j, k).told = job[j].told
  BY <1>5 DEF JobFields
<1> QED BY <1>3, <1>4, <1>5, <1>6, <1>7 DEF IsJob

\* What a paper says of where it can be had is an address that there is.
LEMMA AddressIsKnown ==
  ASSUME Shape, NEW p, Live(p)
  PROVE  PdfUrlFor(p) \in DOMAIN Web \cup {Nowhere}
<1>1. Known(items[p].fields)
  BY DEF Shape, IsItem, Live, Gone
<1>2. \A n \in {"arXiv", "url", "DOI"} : Field(p, n) \in DOMAIN Web \cup {Nowhere}
  BY <1>1 DEF Known, Field
<1>3. \A a \in DOMAIN Web : Web[a].leads \in DOMAIN Web \cup {Nowhere}
  BY AttachingAssumption
<1> QED BY <1>2, <1>3 DEF PdfUrlFor, DoiLandingPage

\* A step of one request that leaves the items and the disk alone.
LEMMA OnlyARequest ==
  ASSUME Shape, NEW j \in Jobs, NEW next, Go(j, next), IsJob(next, Len(items), Len(content)),
         UNCHANGED <<items, disk, content, doomed, last>>, wanted' \subseteq wanted,
         writes' \in Nat, acts' \in Nat, stops' \in Nat
  PROVE  Shape'
<1>1. DOMAIN job' = Jobs /\ job'[j] = next /\ \A i \in Jobs : i # j => job'[i] = job[i]
  BY OneGoes DEF Shape, Go
<1>2. \A i \in Jobs : IsJob(job'[i], Len(items), Len(content))
  BY <1>1 DEF Shape
<1> QED BY <1>1, <1>2 DEF Shape

\* A step that puts an item, with a step of one request or none.
LEMMA OneMoreItem ==
  ASSUME Shape, NEW record, IsItem(record, Len(items) + 1), items' = Fresh(record), last' = Append(last, Empty),
         UNCHANGED <<disk, content, doomed, wanted>>, writes' \in Nat, acts' \in Nat, stops' \in Nat,
         \/ UNCHANGED job
         \/ \E j \in Jobs : \E next : Go(j, next) /\ IsJob(next, Len(items) + 1, Len(content))
  PROVE  Shape'
<1> DEFINE n == Len(items)
<1>1. /\ items' \in Seq(ToSet(items')) /\ Len(items') = n + 1 /\ DOMAIN items' = DOMAIN items \cup {n + 1}
      /\ \A k \in DOMAIN items : items'[k] = items[k]
      /\ items'[n + 1] = record
  BY AtTheEnd DEF Shape, Fresh
<1>2. last' \in Seq(Nat) /\ Len(last') = n + 1
  BY DEF Shape, Empty
<1>3. /\ n \in Nat /\ n + 1 \in Nat /\ n <= n + 1 /\ Len(content) \in Nat /\ Len(content) <= Len(content)
      /\ DOMAIN items = 1 .. n
  BY Counts
<1>4. /\ \A i : IsItem(i, n) => IsItem(i, n + 1)
      /\ \A q : IsPath(q, n) => IsPath(q, n + 1)
      /\ \A r : IsJob(r, n, Len(content)) => IsJob(r, n + 1, Len(content))
  BY <1>3, MoreIsFine
<1> HIDE DEF n
<1>5. DOMAIN job' = Jobs /\ \A j \in Jobs : IsJob(job'[j], n + 1, Len(content))
  <2>1. CASE UNCHANGED job
    BY <2>1, <1>4 DEF Shape, n
  <2>2. ASSUME NEW j \in Jobs, NEW next, Go(j, next), IsJob(next, n + 1, Len(content))
        PROVE  DOMAIN job' = Jobs /\ \A i \in Jobs : IsJob(job'[i], n + 1, Len(content))
    <3>1. DOMAIN job' = Jobs /\ job'[j] = next /\ \A i \in Jobs : i # j => job'[i] = job[i]
      BY <2>2, OneGoes DEF Shape, Go
    <3> QED BY <3>1, <2>2, <1>4 DEF Shape, n
  <2> QED BY <2>1, <2>2 DEF n
<1>6. \A k \in DOMAIN items' : IsItem(items'[k], n + 1)
  BY <1>1, <1>4 DEF Shape, n
<1>7. \A q \in DOMAIN disk : IsPath(q, n + 1) /\ disk[q] \in 1 .. Len(content)
  BY <1>4 DEF Shape, n
<1>8. doomed \subseteq {k \in DOMAIN items' : items'[k] = Gone}
  BY <1>1 DEF Shape, n
<1>9. \A row \in wanted : row.paper \in DOMAIN items' /\ row.url \in DOMAIN Web
  BY <1>1 DEF Shape, n
<1> QED BY <1>1, <1>2, <1>5, <1>6, <1>7, <1>8, <1>9 DEF Shape

\* What is put is an item.
LEMMA PutsItems ==
  ASSUME NEW n \in Nat
  PROVE  /\ \A object \in Objects : IsItem(Paper(Draft(object)), n)
         /\ \A p \in 0 .. n, a \in DOMAIN Web : \A s, e : IsItem(Child("attachment", p, a, <<s, e>>), n)
         /\ \A p \in 0 .. n : IsItem(Child("note", p, Nowhere, NoName), n)
         /\ \A a \in DOMAIN Web : IsItem(Paper([fields |-> [url |-> a], creators |-> <<>>]), n)
         /\ \A x \in DOMAIN Shelved : IsItem(Paper(Shelved[x]), n)
<1>1. \A draft : Known(draft.fields) => IsItem(Paper(draft), n)
  BY DEF IsItem, Paper
<1>2. ASSUME NEW object \in Objects PROVE Known(Draft(object).fields)
  <2>1. Known(object.fields)
    BY AttachingAssumption
  <2>2. Draft(object).fields = Fields(object)
    BY DEF Draft
  <2>3. Known(Fields(object))
    BY <2>1 DEF Known, Fields
  <2> QED BY <2>2, <2>3
<1>3. \A a \in DOMAIN Web : Known([url |-> a])
  BY DEF Known
<1>4. \A type \in {"attachment", "note"}, p \in 0 .. n : \A a, name :
        (type = "attachment" => a \in DOMAIN Web /\ name = <<name[1], name[2]>>) => IsItem(Child(type, p, a, name), n)
  BY DEF IsItem, Child, Known
<1>5. ASSUME NEW a \in DOMAIN Web PROVE IsItem(Paper([fields |-> [url |-> a], creators |-> <<>>]), n)
  BY <1>1, <1>3
<1>6. \A x \in DOMAIN Shelved : IsItem(Paper(Shelved[x]), n)
  BY <1>1, AttachingAssumption
<1> QED BY <1>1, <1>2, <1>4, <1>5, <1>6

\* The selection that is renamed: some of the files that would change, each once.
LEMMA ChosenOnce ==
  ASSUME Shape, NEW template, NEW chosen \in SetToAllKPermutations(Changes(template))
  PROVE  /\ \E n \in Nat : chosen \in [1 .. n -> Changes(template)]
         /\ \A a, b \in DOMAIN chosen : chosen[a] = chosen[b] => a = b
<1>1. PICK S \in SUBSET Changes(template) : chosen \in SetToSeqs(S)
  BY DEF SetToAllKPermutations
<1>2. Cardinality(S) \in Nat
  <2>1. S \subseteq 1 .. Len(items) /\ Len(items) \in Nat
    BY Counts DEF Changes
  <2>2. IsFiniteSet(1 .. Len(items))
    BY <2>1, FS_Interval
  <2> QED BY <2>1, <2>2, FS_Subset, FS_CardinalityType
<1>3. chosen \in [1 .. Cardinality(S) -> S] /\ \A i, j \in 1 .. Cardinality(S) : i # j => chosen[i] # chosen[j]
  BY <1>1 DEF SetToSeqs
<1>4. chosen \in [1 .. Cardinality(S) -> Changes(template)]
  BY <1>1, <1>3
<1> QED BY <1>2, <1>3, <1>4

\* A step of the requests that leaves the items alone and makes no fewer files.
LEMMA OnlyTheDisk ==
  ASSUME Shape, NEW j \in Jobs, NEW next, Go(j, next), IsJob(next, Len(items), Len(content')),
         content' \in Seq(Int), Len(content) <= Len(content'),
         \A q \in DOMAIN disk' : IsPath(q, Len(items)) /\ disk'[q] \in 1 .. Len(content'),
         last' \in Seq(Nat), Len(last') = Len(last),
         UNCHANGED <<items, doomed, wanted, writes, acts, stops>>
  PROVE  Shape'
<1>1. DOMAIN job' = Jobs /\ job'[j] = next /\ \A i \in Jobs : i # j => job'[i] = job[i]
  BY OneGoes DEF Shape, Go
<1>2. Len(items) \in Nat /\ Len(items) <= Len(items) /\ Len(content) \in Nat /\ Len(content') \in Nat
  BY Counts
<1>3. \A r : IsJob(r, Len(items), Len(content)) => IsJob(r, Len(items), Len(content'))
  BY <1>2, MoreIsFine
<1>4. \A i \in Jobs : IsJob(job'[i], Len(items), Len(content'))
  BY <1>1, <1>3 DEF Shape
<1> QED BY <1>1, <1>4 DEF Shape

\* An attachment has a name and an address.
LEMMA HasAName ==
  ASSUME Shape, NEW k, IsAttachment(k)
  PROVE  /\ items[k].name = <<items[k].name[1], items[k].name[2]>> /\ items[k].url \in DOMAIN Web
         /\ k \in DOMAIN items /\ items[k] # Gone /\ items[k].name # NoName /\ Named(k)
<1>1. k \in DOMAIN items /\ items[k].type = "attachment" /\ items[k] # Gone
  BY DEF IsAttachment, Live, Gone
<1>2. IsItem(items[k], Len(items))
  BY <1>1 DEF Shape
<1>3. items[k].name = <<items[k].name[1], items[k].name[2]>> /\ items[k].url \in DOMAIN Web
  BY <1>1, <1>2 DEF IsItem
<1>4. items[k].name # NoName
  <2>1. \A s, e : <<s, e>> # <<>>
    OBVIOUS
  <2> QED BY <1>3, <2>1 DEF NoName
<1> QED BY <1>1, <1>3, <1>4 DEF Named

\* The bytes under a path.
LEMMA BytesAreNumbers == ASSUME Shape PROVE \A q : Bytes(q) \in Int
<1> SUFFICES ASSUME NEW q PROVE Bytes(q) \in Int
  OBVIOUS
<1>1. CASE Holds(q)
  <2>1. disk[q] \in 1 .. Len(content) /\ content \in Seq(Int)
    BY <1>1 DEF Shape, Holds
  <2> QED BY <1>1, <2>1 DEF Bytes
<1> QED BY <1>1 DEF Bytes, Empty

\* The steps that fetch.
LEMMA FetchShape ==
  ASSUME Shape, NEW j \in Jobs,
         \/ \E p \in DOMAIN items : \E a \in DOMAIN Web \cup {Nowhere} : Fetch(j, p, a)
         \/ \E row \in wanted : TakeWanted(j, row)
         \/ Download(j) \/ DownloadFails(j)
  PROVE  Shape'
<1> DEFINE r == job[j]
<1>0. IsJob(r, Len(items), Len(content)) /\ writes \in Nat /\ acts \in Nat /\ stops \in Nat
  BY DEF Shape
<1>1. ASSUME NEW p \in DOMAIN items, NEW a \in DOMAIN Web \cup {Nowhere}, Fetch(j, p, a) PROVE Shape'
  <2>1. Live(p)
    BY <1>1 DEF Fetch
  <2>2. PICK b \in DOMAIN Web : Go(j, Attach(Idle, "fetch", p, b))
    BY <1>1, <2>1, AddressIsKnown DEF Fetch
  <2>3. IsJob(Attach(Idle, "fetch", p, b), Len(items), Len(content))
    BY AttachIsFine
  <2> QED BY <1>0, <1>1, <2>2, <2>3, OnlyARequest DEF Fetch, Starts, Acts
<1>2. ASSUME NEW row \in wanted, TakeWanted(j, row) PROVE Shape'
  <2>1. row.paper \in DOMAIN items /\ row.url \in DOMAIN Web
    BY DEF Shape
  <2>2. IsJob(Attach(Idle, "worker", row.paper, row.url), Len(items), Len(content))
    BY <2>1, AttachIsFine
  <2> QED BY <1>0, <1>2, <2>2, OnlyARequest DEF TakeWanted, Starts, Acts
<1>3. CASE Download(j)
  <2>1. r.for # "names" /\ r.url \in DOMAIN Web /\ DOMAIN r = JobFields
    BY <1>0, <1>3 DEF Download, IsJob
  <2>2. IsJob(Attached(j), Len(items), Len(content))
    BY <2>1, AttachedIsFine
  <2>3. CASE Web[r.url].type # "html" /\ Web[r.url].answers
    <3>1. Go(j, [r EXCEPT !.at = "look", !.bytes = writes + 1]) /\ writes' = writes + 1
      BY <1>3, <2>3 DEF Download
    <3>2. IsJob([r EXCEPT !.at = "look", !.bytes = writes + 1], Len(items), Len(content))
      BY <1>0, <1>3, <2>1 DEF IsJob, JobFields, Download
    <3> QED BY <1>0, <1>3, <3>1, <3>2, OnlyARequest DEF Download
  <2>4. CASE ~(Web[r.url].type # "html" /\ Web[r.url].answers)
    <3>1. PdfLink(Web[r.url]) \in DOMAIN Web \cup {Nowhere}
      BY <2>1, AttachingAssumption DEF PdfLink
    <3>2. \A a \in DOMAIN Web : IsJob([r EXCEPT !.at = "follow", !.url = a], Len(items), Len(content))
      BY <1>0, <1>3, <2>1 DEF IsJob, JobFields, Download
    <3>3. \E next : Go(j, next) /\ IsJob(next, Len(items), Len(content))
      BY <1>3, <2>2, <2>4, <3>1, <3>2 DEF Download
    <3>4. UNCHANGED <<items, disk, content, wanted, doomed, writes, acts, stops, last>>
      BY <1>3, <2>4 DEF Download
    <3> QED BY <1>0, <3>3, <3>4, OnlyARequest
  <2> QED BY <2>3, <2>4
<1>4. CASE DownloadFails(j)
  <2>1. r.for # "names"
    BY <1>0, <1>4 DEF DownloadFails, IsJob
  <2> QED BY <1>0, <1>4, <2>1, AttachedIsFine, OnlyARequest DEF DownloadFails
<1> QED BY <1>1, <1>2, <1>3, <1>4

\* The steps that find or create the attachment, and those that begin to write.
LEMMA IntoShape ==
  ASSUME Shape, NEW j \in Jobs,
         \/ LookForAttachment(j) \/ CreateAttachment(j)
         \/ \E k \in DOMAIN items : Upload(j, k) \/ \E x \in DOMAIN Kinds : StorePicture(j, k, Kinds[x])
  PROVE  Shape'
<1> DEFINE r == job[j]
<1>0. /\ IsJob(r, Len(items), Len(content)) /\ writes \in Nat /\ acts \in Nat /\ stops \in Nat
      /\ Len(items) \in Nat /\ DOMAIN items = 1 .. Len(items)
  BY Counts DEF Shape
<1>1. CASE LookForAttachment(j)
  <2>1. DOMAIN r = JobFields /\ r.at = "look"
    BY <1>0, <1>1 DEF LookForAttachment, IsJob
  <2>2. IsJob([r EXCEPT !.at = "create"], Len(items), Len(content))
    BY <1>0, <2>1 DEF IsJob, JobFields
  <2>3. \A k \in Existing(j) : IsJob(Into(j, k), Len(items), Len(content))
    BY <1>0, <2>1, IntoIsFine DEF Existing, Under
  <2>4. \E next : Go(j, next) /\ IsJob(next, Len(items), Len(content))
    BY <1>1, <2>2, <2>3 DEF LookForAttachment
  <2> QED BY <1>0, <1>1, <2>4, OnlyARequest DEF LookForAttachment
<1>2. CASE CreateAttachment(j)
  <2>1. r.at = "create" /\ r.for # "names" /\ r.url \in DOMAIN Web /\ r.parent \in 1 .. Len(items)
    BY <1>0, <1>2 DEF CreateAttachment, IsJob
  <2>2. CASE Live(r.parent)
    <3>1. PICK s, e : FilenameFromUrl(r.url) = <<s, e>>
      BY <2>1, AttachingAssumption DEF FilenameFromUrl
    <3>2. IsItem(Child("attachment", r.parent, r.url, FilenameFromUrl(r.url)), Len(items) + 1)
      BY <1>0, <2>1, <3>1, PutsItems
    <3>3. IsJob(r, Len(items) + 1, Len(content))
      <4>1. Len(items) + 1 \in Nat /\ Len(items) <= Len(items) + 1 /\ Len(content) \in Nat /\ Len(content) <= Len(content)
        BY <1>0, Counts
      <4> QED BY <1>0, <4>1, MoreIsFine
    <3>4. IsJob(Into(j, NextKey), Len(items) + 1, Len(content))
      <4>1. Len(items) + 1 \in Nat /\ Len(items) + 1 \in 1 .. Len(items) + 1
        BY <1>0
      <4> QED BY <2>1, <3>3, <4>1, IntoIsFine DEF NextKey
    <3>5. /\ items' = Fresh(Child("attachment", r.parent, r.url, FilenameFromUrl(r.url)))
          /\ last' = Append(last, Empty) /\ Go(j, Into(j, NextKey))
          /\ UNCHANGED <<disk, content, wanted, doomed, writes, acts, stops>>
      BY <1>2, <2>2 DEF CreateAttachment
    <3> QED BY <1>0, <3>2, <3>4, <3>5, OneMoreItem
  <2>3. CASE ~Live(r.parent)
    BY <1>0, <1>2, <2>1, <2>3, AttachedIsFine, OnlyARequest DEF CreateAttachment
  <2> QED BY <2>2, <2>3
<1>3. ASSUME NEW k \in DOMAIN items, Upload(j, k) PROVE Shape'
  <2>1. items[k].name = <<items[k].name[1], items[k].name[2]>>
    BY <1>3, HasAName DEF Upload, Named
  <2>2. IsTarget(Path(k, items[k].name), Len(items))
    BY <1>0, <2>1 DEF IsTarget, IsPath, Path, IsPicture
  <2> DEFINE next == [Idle EXCEPT !.at = "open", !.for = "upload", !.key = k, !.path = Path(k, items[k].name), !.bytes = writes + 1]
  <2>3. next.path = Path(k, items[k].name) /\ next.at = "open" /\ next.for = "upload" /\ next.bytes = writes + 1 /\ next.parent = 0
        /\ DOMAIN next = JobFields
    BY DEF Idle, JobFields
  <2>4. Go(j, next) /\ writes' = writes + 1 /\ acts' = acts + 1 /\ UNCHANGED <<items, disk, content, wanted, doomed, stops, last>>
    BY <1>3 DEF Upload, Starts, Acts
  <2> HIDE DEF next
  <2>5. IsJob(next, Len(items), Len(content))
    BY <1>0, <2>2, <2>3 DEF IsJob
  <2> QED BY <1>0, <2>4, <2>5, OnlyARequest
<1>4. ASSUME NEW k \in DOMAIN items, NEW x \in DOMAIN Kinds, StorePicture(j, k, Kinds[x]) PROVE Shape'
  <2>2. IsTarget(Picture(k, Kinds[x]), Len(items))
    <3>1. \A kind : LET q == Picture(k, kind) IN
            q = [in |-> q.in, of |-> q.of, name |-> <<q.name[1], q.name[2]>>] /\ q.name[2] = <<kind>> /\ q.of = k /\ q.in = "cache"
      BY DEF Picture
    <3> QED BY <1>0, <3>1 DEF IsTarget, IsPath
  <2>3. Served(k) \in Nat \ {0}
    <3>1. \A q : Bytes(q) \in Int
      BY BytesAreNumbers
    <3>2. Bytes(Path(k, items[k].name)) \in Int
      BY <3>1
    <3>3. Served(k) > 0
      BY <1>4 DEF StorePicture
    <3>4. Served(k) \in Int
      BY <3>2 DEF Served
    <3>5. \A b \in Int : b > 0 => b \in Nat \ {0}
      OBVIOUS
    <3> QED BY <3>3, <3>4, <3>5
  <2> DEFINE next == [Idle EXCEPT !.at = "open", !.for = "picture", !.key = k, !.path = Picture(k, Kinds[x]), !.bytes = Served(k)]
  <2>4. next.path = Picture(k, Kinds[x]) /\ next.at = "open" /\ next.for = "picture" /\ next.bytes = Served(k) /\ next.parent = 0
        /\ DOMAIN next = JobFields
    BY DEF Idle, JobFields
  <2>5. Go(j, next) /\ acts' = acts + 1 /\ UNCHANGED <<items, disk, content, wanted, doomed, writes, stops, last>>
    BY <1>4 DEF StorePicture, Starts, Acts
  <2> HIDE DEF next
  <2>6. IsJob(next, Len(items), Len(content))
    BY <1>0, <2>2, <2>3, <2>4 DEF IsJob
  <2> QED BY <1>0, <2>5, <2>6, OnlyARequest
<1> QED BY <1>1, <1>2, <1>3, <1>4

\* A sequence with one element replaced, or with one more.
LEMMA OneReplaced ==
  ASSUME NEW S, NEW s \in Seq(S), NEW v \in S, NEW t, \E f : t = [s EXCEPT ![f] = v]
  PROVE  t \in Seq(S) /\ Len(t) = Len(s)
<1>1. Len(s) \in Nat /\ s \in [1 .. Len(s) -> S]
  OBVIOUS
<1>2. t \in [1 .. Len(s) -> S]
  BY <1>1
<1> QED BY <1>1, <1>2

LEMMA OnePut ==
  ASSUME NEW S, NEW s \in Seq(S), NEW v \in S
  PROVE  Append(s, v) \in Seq(S) /\ Len(Append(s, v)) = Len(s) + 1
OBVIOUS

\* The steps that write.
LEMMA WriteShape ==
  ASSUME Shape, NEW j \in Jobs, OpenTemp(j) \/ Fill(j) \/ Swap(j)
  PROVE  Shape'
<1> DEFINE n == Len(items)
           temp == Temp(job[j].path)
<1>0. /\ IsJob(job[j], n, Len(content)) /\ n \in Nat /\ content \in Seq(Int) /\ Len(content) \in Nat
      /\ last \in Seq(Nat)
      /\ \A q \in DOMAIN disk : IsPath(q, n) /\ disk[q] \in 1 .. Len(content)
  BY Counts DEF Shape
<1>1. /\ job[j].at \in {"open", "fill", "swap"} /\ job[j].for # "names" /\ DOMAIN job[j] = JobFields
      /\ IsTarget(job[j].path, n) /\ job[j].bytes \in Nat \ {0}
  BY <1>0 DEF OpenTemp, Fill, Swap, IsJob
<1>2. IsPath(temp, n) /\ IsPath(job[j].path, n)
  BY <1>0, <1>1, TempIsBeside DEF IsTarget
<1>3. IsJob(Attached(j), n, Len(content))
  BY <1>1, AttachedIsFine
<1> HIDE DEF n, temp
<1>4. CASE OpenTemp(j)
  <2>1. \A f, c : c \in Nat /\ f \in 1 .. c /\ Len(content) <= c => IsJob([job[j] EXCEPT !.at = "fill", !.file = f], n, c)
    BY <1>0, <1>1, <1>4 DEF IsJob, JobFields, OpenTemp
  <2>2. Empty \in Int
    BY DEF Empty
  <2>3. CASE Holds(temp)
    <3>1. /\ content' = [content EXCEPT ![disk[temp]] = Empty] /\ UNCHANGED disk
          /\ Go(j, [job[j] EXCEPT !.at = "fill", !.file = disk[temp]])
      BY <1>4, <2>3 DEF OpenTemp, temp
    <3>2. content' \in Seq(Int) /\ Len(content') = Len(content)
      <4>1. \E f : content' = [content EXCEPT ![f] = Empty]
        BY <3>1
      <4>2. content \in Seq(Int)
        BY <1>0
      <4>3. content' \in Seq(Int)
        BY <2>2, <4>1, <4>2, OneReplaced
      <4>4. Len(content') = Len(content)
        BY <2>2, <4>1, <4>2, OneReplaced
      <4> QED BY <4>3, <4>4
    <3>3. disk[temp] \in 1 .. Len(content)
      BY <1>0, <2>3 DEF Holds
    <3>5. Len(content) <= Len(content) /\ Len(content) <= Len(content')
      BY <1>0, <3>2
    <3>4. IsJob([job[j] EXCEPT !.at = "fill", !.file = disk[temp]], n, Len(content'))
      BY <1>0, <2>1, <3>2, <3>3, <3>5
    <3>6. \A q \in DOMAIN disk' : IsPath(q, n) /\ disk'[q] \in 1 .. Len(content')
      BY <1>0, <3>1, <3>2
    <3>7. last' \in Seq(Nat) /\ Len(last') = Len(last) /\ UNCHANGED <<items, doomed, wanted, writes, acts, stops>>
      BY <1>0, <1>4 DEF OpenTemp
    <3>8. content' \in Seq(Int)
      BY <3>2
    <3>9. Go(j, [job[j] EXCEPT !.at = "fill", !.file = disk[temp]])
      BY <3>1
    <3> QED BY <3>4, <3>5, <3>6, <3>7, <3>8, <3>9, OnlyTheDisk DEF n
  <2>4. CASE ~Holds(temp)
    <3> DEFINE f == Len(content) + 1
    <3>1. /\ content' = Append(content, Empty)
          /\ disk' = [path \in DOMAIN disk \cup {temp} |-> IF path = temp THEN f ELSE disk[path]]
          /\ Go(j, [job[j] EXCEPT !.at = "fill", !.file = f])
      BY <1>4, <2>4 DEF OpenTemp, temp
    <3>2. content' \in Seq(Int) /\ Len(content') = f
      BY <1>0, <2>2, <3>1, OnePut
    <3>3. f \in Nat /\ f \in 1 .. f /\ Len(content) <= f /\ 1 .. Len(content) \subseteq 1 .. f
      BY <1>0
    <3> HIDE DEF f
    <3>4. IsJob([job[j] EXCEPT !.at = "fill", !.file = f], n, Len(content'))
      BY <2>1, <3>2, <3>3
    <3>5. \A q \in DOMAIN disk' : IsPath(q, n) /\ disk'[q] \in 1 .. Len(content')
      BY <1>0, <1>2, <3>1, <3>2, <3>3
    <3> QED BY <1>0, <1>4, <3>1, <3>2, <3>3, <3>4, <3>5, OnlyTheDisk DEF OpenTemp, n
  <2> QED BY <2>3, <2>4
<1>5. CASE Fill(j)
  <2>1. IsJob([job[j] EXCEPT !.at = "swap"], n, Len(content))
    BY <1>0, <1>1, <1>5 DEF IsJob, JobFields, Fill
  <2>2. PICK v \in Int : content' = [content EXCEPT ![job[j].file] = v]
    <3>1. \A x \in Int : (IF x \in {Empty, job[j].bytes} THEN job[j].bytes ELSE Mixed) \in Int
      BY <1>1 DEF Empty, Mixed
    <3>2. CASE job[j].file \in DOMAIN content
      <4>1. content[job[j].file] \in Int
        BY <1>0, <3>2
      <4> QED BY <3>1, <4>1, <1>5 DEF Fill
    <3>3. CASE job[j].file \notin DOMAIN content
      BY <1>0, <1>1, <1>5, <3>3 DEF Fill, IsJob
    <3> QED BY <3>2, <3>3
  <2>3. content' \in Seq(Int) /\ Len(content') = Len(content)
    <3>1. \E f : content' = [content EXCEPT ![f] = v]
      BY <2>2
    <3>2. content \in Seq(Int)
      BY <1>0
    <3>3. content' \in Seq(Int)
      BY <3>1, <3>2, OneReplaced
    <3>4. Len(content') = Len(content)
      BY <3>1, <3>2, OneReplaced
    <3> QED BY <3>3, <3>4
  <2> QED BY <1>0, <1>5, <2>1, <2>3, OnlyTheDisk DEF Fill, n
<1>6. CASE Swap(j)
  <2>1. last' \in Seq(Nat) /\ Len(last') = Len(last)
    <3>1. UNCHANGED last \/ \E f : last' = [last EXCEPT ![f] = job[j].bytes]
      BY <1>6 DEF Swap
    <3>2. job[j].bytes \in Nat
      BY <1>1
    <3> QED BY SMTT(30), <1>0, <3>1, <3>2, OneReplaced
  <2>2. \A q \in DOMAIN disk' : IsPath(q, n) /\ disk'[q] \in 1 .. Len(content)
    <3>1. CASE Holds(temp)
      <4>1. disk' = [q \in (DOMAIN disk \ {temp}) \cup {job[j].path} |-> IF q = job[j].path THEN disk[temp] ELSE disk[q]]
        BY <1>6, <3>1 DEF Swap, temp
      <4>2. disk[temp] \in 1 .. Len(content)
        BY <1>0, <3>1 DEF Holds
      <4> QED BY <1>0, <1>2, <4>1, <4>2
    <3>2. CASE ~Holds(temp)
      BY <1>0, <1>6, <3>2 DEF Swap, temp
    <3> QED BY <3>1, <3>2
  <2>3. Go(j, Attached(j)) /\ UNCHANGED <<items, content, wanted, doomed, writes, acts, stops>>
    BY <1>6 DEF Swap
  <2> QED BY <1>0, <1>3, <2>1, <2>2, <2>3, OnlyTheDisk DEF n
<1> QED BY <1>1, <1>4, <1>5, <1>6

\* What a rename sets out to do.
LEMMA PlanIsFine ==
  ASSUME Shape, NEW template, NEW chosen \in SetToAllKPermutations(Changes(template)), NEW r, r.moved = {}, r.at = "names",
         r.todo = [n \in DOMAIN chosen |->
                     [key |-> chosen[n], from |-> Path(chosen[n], items[chosen[n]].name),
                      to |-> Path(chosen[n], FilenameFor(template, items[chosen[n]].parent, items[chosen[n]].name))]]
  PROVE  IsPlan(r, Len(items))
<1>1. PICK m \in Nat : chosen \in [1 .. m -> Changes(template)]
  BY ChosenOnce
<1>2. \A a, b \in DOMAIN chosen : chosen[a] = chosen[b] => a = b
  BY ChosenOnce
<1>3. DOMAIN r.todo = 1 .. m
  BY <1>1
<1>4. r.todo \in Seq(ToSet(r.todo))
  <2>1. r.todo = [x \in 1 .. m |-> r.todo[x]]
    BY <1>1
  <2> QED BY <1>3, <2>1 DEF ToSet
<1>5. ASSUME NEW x \in 1 .. m PROVE IsMove(r.todo[x], Len(items)) /\ r.todo[x].key = chosen[x]
  <2> DEFINE k == chosen[x]
             to == FilenameFor(template, items[k].parent, items[k].name)
  <2>1. k \in Changes(template)
    BY <1>1
  <2>2. Named(k) /\ to # items[k].name /\ k \in 1 .. Len(items)
    BY <2>1, Counts DEF Changes
  <2>3. items[k].name = <<items[k].name[1], items[k].name[2]>>
    BY <2>2, HasAName DEF Named
  <2>4. to = <<to[1], to[2]>>
    BY DEF FilenameFor
  <2>5. r.todo[x] = [key |-> k, from |-> Path(k, items[k].name), to |-> Path(k, to)]
    BY <1>1
  <2> HIDE DEF k, to
  <2>6. Path(k, items[k].name) # Path(k, to)
    BY <2>2 DEF Path
  <2>7. \A s : s = <<s[1], s[2]>> => IsPath(Path(k, s), Len(items)) /\ Path(k, s).in = "storage" /\ Path(k, s).of = k
    BY <2>2 DEF IsPath, Path
  <2>8. /\ DOMAIN r.todo[x] = {"key", "from", "to"} /\ r.todo[x].key = k
        /\ r.todo[x].from = Path(k, items[k].name) /\ r.todo[x].to = Path(k, to)
    BY <2>5
  <2>9. \A q \in {Path(k, items[k].name), Path(k, to)} : IsPath(q, Len(items)) /\ q.in = "storage" /\ q.of = k
    BY <2>3, <2>4, <2>7
  <2>10. IsMove(r.todo[x], Len(items))
    BY <2>2, <2>6, <2>8, <2>9 DEF IsMove
  <2> QED BY <2>8, <2>10 DEF k
<1>6. \A y \in ToSet(r.todo) : IsMove(y, Len(items))
  BY <1>3, <1>5 DEF ToSet
<1>7. \A a, b \in DOMAIN r.todo : r.todo[a].key = r.todo[b].key => a = b
  BY <1>1, <1>2, <1>3, <1>5
<1> QED BY <1>4, <1>6, <1>7 DEF IsPlan

\* The next of a plan is passed over, or moved.
LEMMA PlanGoesOn ==
  ASSUME NEW n, NEW r, IsPlan(r, n), r.todo # <<>>,
         NEW next, next.at = "names", next.todo = Tail(r.todo), next.moved \in {r.moved, r.moved \cup {Head(r.todo)}}
  PROVE  IsPlan(next, n)
<1>1. /\ Tail(r.todo) \in Seq(ToSet(Tail(r.todo))) /\ Len(r.todo) \in Nat \ {0}
      /\ DOMAIN Tail(r.todo) = 1 .. Len(r.todo) - 1 /\ \A x \in 1 .. Len(r.todo) - 1 : Tail(r.todo)[x] = r.todo[x + 1]
      /\ Head(r.todo) = r.todo[1] /\ 1 \in DOMAIN r.todo /\ DOMAIN r.todo = 1 .. Len(r.todo)
      /\ ToSet(r.todo) = {Head(r.todo)} \cup ToSet(Tail(r.todo))
  <2>1. r.todo \in Seq(ToSet(r.todo))
    BY DEF IsPlan
  <2>2. DOMAIN r.todo = 1 .. Len(r.todo)
    BY <2>1
  <2> QED BY <2>1, <2>2, WithoutFirst
<1>2. \A m \in ToSet(next.todo) \cup next.moved : IsMove(m, n)
  BY <1>1 DEF IsPlan
<1>3. \A x \in 1 .. Len(r.todo) - 1 : x + 1 \in DOMAIN r.todo /\ x + 1 # 1
  BY <1>1
<1>4. ASSUME NEW a \in DOMAIN next.todo, NEW b \in DOMAIN next.todo, next.todo[a].key = next.todo[b].key PROVE a = b
  <2>1. a + 1 = b + 1
    <3>1. a + 1 \in DOMAIN r.todo /\ b + 1 \in DOMAIN r.todo /\ r.todo[a + 1] = next.todo[a] /\ r.todo[b + 1] = next.todo[b]
      BY <1>1, <1>3
    <3> QED BY <1>4, <3>1 DEF IsPlan
  <2>2. a \in Int /\ b \in Int
    BY <1>1
  <2> QED BY <2>1, <2>2
<1>5. \A a \in DOMAIN next.todo : next.todo[a].key # Head(r.todo).key
  BY SMTT(30), <1>1, <1>3 DEF IsPlan
<1>6. \A m \in r.moved : m.key # Head(r.todo).key
  BY <1>1 DEF IsPlan
<1>7. \A m, o \in next.moved : m.key = o.key => m = o
  BY <1>6 DEF IsPlan
<1>8. \A m \in next.moved, a \in DOMAIN next.todo : m.key # next.todo[a].key
  BY <1>1, <1>3, <1>5 DEF IsPlan
<1> QED BY <1>1, <1>2, <1>4, <1>7, <1>8 DEF IsPlan

\* The steps that rename.
LEMMA RenameShape ==
  ASSUME Shape, NEW j \in Jobs, (\E template \in Templates : Rename(j, template)) \/ LookForTarget(j) \/ MoveFile(j)
  PROVE  Shape'
<1> DEFINE n == Len(items)
           c == Len(content)
           head == Head(job[j].todo)
<1>0. /\ IsJob(job[j], n, c) /\ n \in Nat /\ writes \in Nat /\ acts \in Nat /\ stops \in Nat
      /\ \A q \in DOMAIN disk : IsPath(q, n) /\ disk[q] \in 1 .. c
      /\ content \in Seq(Int) /\ last \in Seq(Nat)
  BY Counts DEF Shape
<1> HIDE DEF n, c, head
<1>1. ASSUME NEW template \in Templates, Rename(j, template) PROVE Shape'
  <2>1. PICK chosen \in SetToAllKPermutations(Changes(template)) :
          Go(j, [Idle EXCEPT !.at = "names", !.for = "names",
              !.todo = [x \in DOMAIN chosen |->
                          [key |-> chosen[x], from |-> Path(chosen[x], items[chosen[x]].name),
                           to |-> Path(chosen[x], FilenameFor(template, items[chosen[x]].parent, items[chosen[x]].name))]]])
    BY <1>1 DEF Rename
  <2>2. PICK todo : todo = [x \in DOMAIN chosen |->
                          [key |-> chosen[x], from |-> Path(chosen[x], items[chosen[x]].name),
                           to |-> Path(chosen[x], FilenameFor(template, items[chosen[x]].parent, items[chosen[x]].name))]]
    OBVIOUS
  <2> DEFINE next == [Idle EXCEPT !.at = "names", !.for = "names", !.todo = todo]
  <2>3. next.at = "names" /\ next.for = "names" /\ next.todo = todo /\ next.moved = {} /\ next.parent = 0 /\ DOMAIN next = JobFields
    BY DEF Idle, JobFields
  <2>4. Go(j, next)
    BY <2>1, <2>2
  <2> HIDE DEF next
  <2>5. IsPlan(next, n)
    BY <2>2, <2>3, PlanIsFine DEF n
  <2>6. IsJob(next, n, c)
    BY <1>0, <2>3, <2>5 DEF IsJob
  <2>7. acts' \in Nat /\ UNCHANGED <<items, disk, content, wanted, doomed, writes, stops, last>>
    <3>1. acts' = acts + 1
      BY <1>1 DEF Rename, Starts, Acts
    <3>2. UNCHANGED <<items, disk, content, wanted, doomed, writes, stops, last>>
      BY <1>1 DEF Rename
    <3> QED BY <1>0, <3>1, <3>2
  <2> QED BY <1>0, <2>4, <2>6, <2>7, OnlyARequest DEF n, c
<1>2. CASE LookForTarget(j)
  <2>1. job[j].at = "names" /\ job[j].todo # <<>> /\ DOMAIN job[j] = JobFields /\ job[j].for = "names" /\ IsPlan(job[j], n)
    BY <1>0, <1>2 DEF LookForTarget, IsJob
  <2>2. IsJob([job[j] EXCEPT !.at = "move"], n, c)
    <3>1. IsPlan([job[j] EXCEPT !.at = "move"], n)
      BY <2>1 DEF IsPlan, JobFields
    <3> QED BY <1>0, <2>1, <3>1 DEF IsJob, JobFields
  <2>3. IsJob([job[j] EXCEPT !.todo = Tail(@)], n, c)
    <3> DEFINE next == [job[j] EXCEPT !.todo = Tail(@)]
    <3>1. /\ next.at = "names" /\ next.for = "names" /\ next.todo = Tail(job[j].todo) /\ next.moved = job[j].moved
          /\ next.parent = job[j].parent /\ DOMAIN next = JobFields
      BY <2>1 DEF JobFields
    <3> HIDE DEF next
    <3>2. IsPlan(next, n)
      BY <2>1, <3>1, PlanGoesOn
    <3>3. IsJob(next, n, c)
      BY <1>0, <3>1, <3>2 DEF IsJob
    <3> QED BY <3>3 DEF next
  <2>4. \E next : Go(j, next) /\ IsJob(next, n, c)
    BY <1>2, <2>2, <2>3 DEF LookForTarget
  <2> QED BY <1>0, <1>2, <2>4, OnlyARequest DEF LookForTarget, n, c
<1>3. CASE MoveFile(j)
  <2>1. job[j].at = "move" /\ DOMAIN job[j] = JobFields /\ job[j].for = "names" /\ IsPlan(job[j], n) /\ job[j].todo # <<>>
    BY <1>0, <1>3 DEF MoveFile, IsJob, IsPlan
  <2>2. PICK next : /\ Go(j, next) /\ DOMAIN next = JobFields /\ next.at = "names" /\ next.for = "names" /\ next.parent = job[j].parent
                    /\ next.todo = Tail(job[j].todo) /\ next.moved \in {job[j].moved, job[j].moved \cup {head}}
    <3>1. \/ Go(j, [job[j] EXCEPT !.at = "names", !.todo = Tail(@), !.moved = @ \cup {head}])
          \/ Go(j, [job[j] EXCEPT !.at = "names", !.todo = Tail(@)])
      BY <1>3 DEF MoveFile, head
    <3>2. CASE Go(j, [job[j] EXCEPT !.at = "names", !.todo = Tail(@), !.moved = @ \cup {head}])
      <4> DEFINE next == [job[j] EXCEPT !.at = "names", !.todo = Tail(@), !.moved = @ \cup {head}]
      <4>1. /\ DOMAIN next = JobFields /\ next.at = "names" /\ next.for = "names" /\ next.parent = job[j].parent
            /\ next.todo = Tail(job[j].todo) /\ next.moved = job[j].moved \cup {head}
        BY <2>1 DEF JobFields
      <4> HIDE DEF next
      <4>2. Go(j, next)
        BY <3>2 DEF next
      <4> QED BY <4>1, <4>2
    <3>3. CASE Go(j, [job[j] EXCEPT !.at = "names", !.todo = Tail(@)])
      <4> DEFINE next == [job[j] EXCEPT !.at = "names", !.todo = Tail(@)]
      <4>1. /\ DOMAIN next = JobFields /\ next.at = "names" /\ next.for = "names" /\ next.parent = job[j].parent
            /\ next.todo = Tail(job[j].todo) /\ next.moved = job[j].moved
        BY <2>1 DEF JobFields
      <4> HIDE DEF next
      <4>2. Go(j, next)
        BY <3>3 DEF next
      <4> QED BY <4>1, <4>2
    <3> QED BY <3>1, <3>2, <3>3
  <2>3. IsPlan(next, n)
    BY <2>1, <2>2, PlanGoesOn DEF head
  <2>4. IsJob(next, n, c)
    BY <1>0, <2>2, <2>3 DEF IsJob
  <2>5. IsMove(head, n)
    BY <2>1, WithoutFirst DEF IsPlan, head
  <2>6. \A q \in DOMAIN disk' : IsPath(q, n) /\ disk'[q] \in 1 .. c
    BY SMTT(30), <1>0, <1>3, <2>5 DEF MoveFile, head, Holds, IsMove
  <2>7. c <= c /\ c \in Nat
    BY Counts DEF c
  <2> QED BY <1>0, <1>3, <2>2, <2>4, <2>6, <2>7, OnlyTheDisk DEF MoveFile, n, c
<1> QED BY <1>1, <1>2, <1>3

\* The record of a file after a rename: as it was, or with a name it was moved to.
LEMMA RecordedIsMoved ==
  ASSUME Shape, NEW j \in Jobs, job[j].for = "names", NEW k \in DOMAIN items
  PROVE  \/ Recorded(j, k) = items[k] /\ (Live(k) => \A m \in job[j].moved : m.key # k)
         \/ \E m \in job[j].moved : m.key = k /\ Live(k) /\ IsMove(m, Len(items)) /\ Recorded(j, k) = [items[k] EXCEPT !.name = m.to.name]
<1> DEFINE mine == {m \in job[j].moved : m.key = k}
<1>1. IsPlan(job[j], Len(items))
  BY DEF Shape, IsJob
<1>2. CASE mine = {} \/ ~Live(k)
  BY <1>2 DEF Recorded
<1>3. CASE ~(mine = {} \/ ~Live(k))
  <2>1. (CHOOSE m \in mine : TRUE) \in mine
    BY <1>3
  <2>2. PICK m \in mine : m = CHOOSE o \in mine : TRUE
    BY <2>1
  <2>3. Recorded(j, k) = [items[k] EXCEPT !.name = m.to.name]
    BY <1>3, <2>2 DEF Recorded
  <2>4. m \in job[j].moved /\ m.key = k /\ IsMove(m, Len(items))
    BY <1>1, <2>2 DEF IsPlan
  <2> QED BY <1>3, <2>3, <2>4
<1> QED BY <1>2, <1>3

\* A step that leaves the number of items as it is, the disk, and all but one
\* request that is done.
LEMMA OnlyTheItems ==
  ASSUME Shape, items' = [k \in DOMAIN items |-> items'[k]], \A k \in DOMAIN items : IsItem(items'[k], Len(items)),
         doomed' \subseteq {k \in DOMAIN items : items'[k] = Gone},
         UNCHANGED job \/ \E j \in Jobs : Go(j, Idle),
         UNCHANGED <<disk, content, wanted, last, writes, stops>>, acts' \in Nat
  PROVE  Shape'
<1>1. items' \in Seq(ToSet(items')) /\ DOMAIN items' = DOMAIN items
  BY EachReplaced DEF Shape
<1>2. Len(items') = Len(items)
  BY EachReplaced DEF Shape
<1>3. Len(items) \in Nat /\ IsJob(Idle, Len(items), Len(content))
  BY Counts, IdleIsFine
<1>4. DOMAIN job' = Jobs /\ \A i \in Jobs : IsJob(job'[i], Len(items), Len(content))
  <2>1. ASSUME NEW j \in Jobs, Go(j, Idle) PROVE DOMAIN job' = Jobs /\ \A i \in Jobs : IsJob(job'[i], Len(items), Len(content))
    <3>1. DOMAIN job' = Jobs /\ job'[j] = Idle /\ \A i \in Jobs : i # j => job'[i] = job[i]
      BY <2>1, OneGoes DEF Shape, Go
    <3> QED BY <1>3, <3>1 DEF Shape
  <2> QED BY <2>1 DEF Shape
<1> QED BY <1>1, <1>2, <1>4 DEF Shape

\* The names are written down, and an item goes.
LEMMA ItemsShape ==
  ASSUME Shape, (\E j \in Jobs : RecordNames(j)) \/ \E k \in DOMAIN items : Delete(k)
  PROVE  Shape'
<1>0. \A k \in DOMAIN items : IsItem(items[k], Len(items))
  BY DEF Shape
<1>1. ASSUME NEW j \in Jobs, RecordNames(j) PROVE Shape'
  <2>1. job[j].for = "names"
    BY <1>1 DEF Shape, IsJob, RecordNames
  <2>2. ASSUME NEW k \in DOMAIN items PROVE IsItem(Recorded(j, k), Len(items)) /\ (items[k] = Gone => Recorded(j, k) = Gone)
    <3>1. CASE Recorded(j, k) = items[k]
      BY <1>0, <3>1
    <3>2. ASSUME NEW m, Live(k), IsMove(m, Len(items)), Recorded(j, k) = [items[k] EXCEPT !.name = m.to.name]
          PROVE  IsItem(Recorded(j, k), Len(items)) /\ items[k] # Gone
      <4>1. m.to.name = <<m.to.name[1], m.to.name[2]>>
        BY <3>2 DEF IsMove, IsPath
      <4>2. PICK name : name = m.to.name
        OBVIOUS
      <4>3. items[k] # Gone
        BY <3>2 DEF Live, Gone
      <4> QED BY <1>0, <3>2, <4>1, <4>2, <4>3 DEF IsItem, Gone
    <3> QED BY <2>1, <3>1, <3>2, RecordedIsMoved
  <2>3. items' = [k \in DOMAIN items |-> Recorded(j, k)] /\ Go(j, Idle)
        /\ UNCHANGED <<disk, content, wanted, doomed, writes, acts, stops, last>>
    BY <1>1 DEF RecordNames
  <2>4. doomed' \subseteq {k \in DOMAIN items : items'[k] = Gone}
    BY <2>2, <2>3 DEF Shape
  <2>5. acts' \in Nat
    BY <2>3 DEF Shape
  <2> QED BY <2>2, <2>3, <2>4, <2>5, OnlyTheItems
<1>2. ASSUME NEW k \in DOMAIN items, Delete(k) PROVE Shape'
  <2> DEFINE S == {k} \cup Under(k)
  <2>1. /\ items' = [i \in DOMAIN items |-> IF i \in S THEN Gone ELSE items[i]] /\ doomed' = doomed \cup S
        /\ UNCHANGED <<disk, content, wanted, job, writes, stops, last>>
    BY <1>2 DEF Delete
  <2>2. S \subseteq DOMAIN items
    BY DEF Under
  <2>3. acts' \in Nat
    BY <1>2 DEF Delete, Acts, Shape
  <2>4. \A i \in DOMAIN items : IsItem(items'[i], Len(items))
    BY <1>0, <2>1 DEF IsItem
  <2> HIDE DEF S
  <2>5. doomed' \subseteq {i \in DOMAIN items : items'[i] = Gone}
    BY <2>1, <2>2 DEF Shape
  <2> QED BY <2>1, <2>3, <2>4, <2>5, OnlyTheItems
<1> QED BY <1>1, <1>2

\* How many notes an object has.
LEMMA NotesAreCounted ==
  ASSUME NEW object \in Objects PROVE NotesIn(object) \in Nat /\ object.files \in Seq(DOMAIN Web)
<1>1. object.notes \in Seq(STRING) /\ object.files \in Seq(DOMAIN Web)
  BY AttachingAssumption
<1>2. DOMAIN object.notes = 1 .. Len(object.notes) /\ Len(object.notes) \in Nat
  BY <1>1
<1>3. IsFiniteSet(1 .. Len(object.notes))
  BY <1>2, FS_Interval
<1>4. Cardinality({n \in DOMAIN object.notes : object.notes[n] # ""}) \in Nat
  BY <1>2, <1>3, FS_Subset, FS_CardinalityType
<1> QED BY <1>1, <1>4 DEF NotesIn

\* The first of a sequence, and one more at its end.
LEMMA FirstOf == ASSUME NEW S, NEW s \in Seq(S), s # <<>> PROVE Head(s) \in S /\ Tail(s) \in Seq(S)
OBVIOUS

LEMMA LastOf ==
  ASSUME NEW S, NEW s \in Seq(S), NEW e \in S
  PROVE  /\ Append(s, e) \in Seq(S) /\ Len(Append(s, e)) = Len(s) + 1 /\ Len(s) \in Nat
         /\ DOMAIN s = 1 .. Len(s) /\ DOMAIN Append(s, e) = 1 .. Len(s) + 1
         /\ \A x \in DOMAIN s : Append(s, e)[x] = s[x]
         /\ Append(s, e)[Len(s) + 1] = e
OBVIOUS

\* What the request of an extension looks like between two files.
LEMMA SavingIsFine ==
  ASSUME NEW n, NEW c, NEW r, DOMAIN r = JobFields, r.at = "saving", r.for = "save", r.parent \in 0 .. n,
         r.todo \in Seq(Objects), r.files \in Seq(DOMAIN Web), r.notes \in Nat, r.told \in Seq(Nat),
         r.made \in Seq([key : Nat, notes : Nat]), \A x \in DOMAIN r.made : r.made[x].key \in 1 .. n,
         r.parent = 0 => r.notes = 0 /\ r.files = <<>>
  PROVE  IsJob(r, n, c)
BY DEF IsJob

\* The steps of the extension's request that put nothing.
LEMMA SavingShape ==
  ASSUME Shape, NEW j \in Jobs,
         (\E page \in Pages : SaveItems(j, page)) \/ SaveFile(j) \/ Saved(j) \/ AnswerSaved(j) \/ Stop(j)
  PROVE  Shape'
<1> DEFINE n == Len(items)
           c == Len(content)
<1>0. /\ IsJob(job[j], n, c) /\ n \in Nat /\ writes \in Nat /\ acts \in Nat /\ stops \in Nat /\ IsJob(Idle, n, c)
  BY Counts, IdleIsFine DEF Shape
<1>1. ASSUME NEW page \in Pages, SaveItems(j, page) PROVE Shape'
  <2> DEFINE next == [Idle EXCEPT !.at = "saving", !.for = "save", !.todo = page]
  <2>1. /\ next.at = "saving" /\ next.for = "save" /\ next.todo = page /\ next.parent = 0 /\ next.notes = 0 /\ next.files = <<>>
        /\ next.told = <<>> /\ next.made = <<>> /\ DOMAIN next = JobFields
    BY DEF Idle, JobFields
  <2>2. Go(j, next) /\ acts' = acts + 1 /\ UNCHANGED <<items, disk, content, wanted, doomed, writes, stops, last>>
    BY <1>1 DEF SaveItems, Starts, Acts
  <2> HIDE DEF next
  <2>3. page \in Seq(Objects)
    BY AttachingAssumption
  <2>4. IsJob(next, n, c)
    BY <1>0, <2>1, <2>3 DEF IsJob
  <2> QED BY <1>0, <2>2, <2>4, OnlyARequest
<1>2. CASE SaveFile(j)
  <2> DEFINE next == [job[j] EXCEPT !.files = Tail(@)]
             a == Head(job[j].files)
  <2>1. job[j].at = "saving" /\ job[j].for = "save" /\ job[j].files # <<>> /\ DOMAIN job[j] = JobFields /\ job[j].parent \in 1 .. n
        /\ job[j].files \in Seq(DOMAIN Web)
    BY <1>0, <1>2 DEF SaveFile, Saving, IsJob
  <2>2. a \in DOMAIN Web /\ Tail(job[j].files) \in Seq(DOMAIN Web)
    BY <2>1, FirstOf
  <2>3. /\ DOMAIN next = JobFields /\ next.files = Tail(job[j].files)
        /\ \A f \in JobFields \ {"files"} : next[f] = job[j][f]
    BY <2>1 DEF JobFields
  <2>4. \/ Go(j, next)
        \/ Go(j, Attach(next, "save", next.parent, a))
    BY <1>2, <2>1, <2>3 DEF SaveFile, JobFields
  <2>5. UNCHANGED <<items, disk, content, wanted, doomed, writes, acts, stops, last>>
    BY <1>2 DEF SaveFile
  <2> HIDE DEF next, a
  <2>6. IsJob(next, n, c) /\ next.for = "save" /\ next.parent \in DOMAIN items
    BY <1>0, <2>1, <2>2, <2>3, Counts DEF IsJob, JobFields
  <2>7. IsJob(Attach(next, "save", next.parent, a), n, c)
    BY <2>2, <2>6, AttachIsFine
  <2>8. \E state : Go(j, state) /\ IsJob(state, n, c)
    BY <2>4, <2>6, <2>7
  <2> QED BY <1>0, <2>5, <2>8, OnlyARequest
<1>3. CASE Saved(j)
  <2> DEFINE next == [job[j] EXCEPT !.told = Append(@, job[j].parent), !.parent = 0]
  <2>1. job[j].at = "saving" /\ job[j].for = "save" /\ job[j].notes = 0 /\ job[j].files = <<>> /\ DOMAIN job[j] = JobFields
    BY <1>0, <1>3 DEF Saved, Between, Saving, IsJob
  <2>2. /\ DOMAIN next = JobFields /\ next.parent = 0 /\ next.told = Append(job[j].told, job[j].parent)
        /\ \A f \in JobFields \ {"told", "parent"} : next[f] = job[j][f]
    BY <2>1 DEF JobFields
  <2>3. Go(j, next) /\ UNCHANGED <<items, disk, content, wanted, doomed, writes, acts, stops, last>>
    BY <1>3 DEF Saved
  <2> HIDE DEF next
  <2>4. Append(job[j].told, job[j].parent) \in Seq(Nat)
    <3>1. job[j].told \in Seq(Nat) /\ job[j].parent \in Nat
      BY <1>0, <2>1 DEF IsJob
    <3> QED BY <3>1
  <2>5. IsJob(next, n, c)
    <3>1. /\ job[j].todo \in Seq(Objects) /\ job[j].files \in Seq(DOMAIN Web) /\ job[j].notes \in Nat
          /\ job[j].made \in Seq([key : Nat, notes : Nat]) /\ \A x \in DOMAIN job[j].made : job[j].made[x].key \in 1 .. n
      BY <1>0, <2>1 DEF IsJob
    <3>2. /\ next.todo = job[j].todo /\ next.files = job[j].files /\ next.notes = job[j].notes /\ next.made = job[j].made
          /\ next.at = "saving" /\ next.for = "save"
      BY <2>1, <2>2 DEF JobFields
    <3>3. 0 \in 0 .. n
      BY <1>0
    <3> HIDE DEF n, c
    <3> QED BY <2>1, <2>2, <2>4, <3>1, <3>2, <3>3, SavingIsFine
  <2> QED BY <1>0, <2>3, <2>5, OnlyARequest
<1>4. CASE AnswerSaved(j)
  BY <1>0, <1>4, OnlyARequest DEF AnswerSaved
<1>5. CASE Stop(j)
  BY <1>0, <1>5, OnlyARequest DEF Stop
<1> QED BY <1>1, <1>2, <1>3, <1>4, <1>5

\* The steps of the extension's request that put an item or a note.
LEMMA SavesShape ==
  ASSUME Shape, NEW j \in Jobs, SaveItem(j) \/ SaveNote(j)
  PROVE  Shape'
<1> DEFINE n == Len(items)
           c == Len(content)
<1>0. /\ IsJob(job[j], n, c) /\ n \in Nat /\ writes \in Nat /\ acts \in Nat /\ stops \in Nat
      /\ n + 1 \in Nat /\ n <= n + 1 /\ c \in Nat /\ c <= c
  BY Counts DEF Shape
<1>1. IsJob(job[j], n + 1, c)
  BY <1>0, MoreIsFine
<1>2. job[j].at = "saving" /\ job[j].for = "save" /\ DOMAIN job[j] = JobFields
  BY <1>0 DEF SaveItem, SaveNote, Between, Saving, IsJob
<1>3. CASE SaveItem(j)
  <2> DEFINE object == Head(job[j].todo)
             next == [job[j] EXCEPT !.todo = Tail(@)]
             put == [next EXCEPT !.parent = NextKey, !.notes = NotesIn(object), !.files = object.files,
                                 !.made = Append(@, [key |-> NextKey, notes |-> NotesIn(object)])]
  <2>1. /\ job[j].notes = 0 /\ job[j].files = <<>> /\ job[j].parent = 0 /\ job[j].todo # <<>> /\ job[j].todo \in Seq(Objects)
        /\ job[j].made \in Seq([key : Nat, notes : Nat])
    BY <1>0, <1>2, <1>3 DEF SaveItem, Between, IsJob
  <2>2. object \in Objects /\ Tail(job[j].todo) \in Seq(Objects)
    BY <2>1
  <2>3. NotesIn(object) \in Nat /\ object.files \in Seq(DOMAIN Web) /\ NextKey = n + 1
    BY <2>2, NotesAreCounted DEF NextKey
  <2>4. PICK one \in [key : Nat, notes : Nat] : one = [key |-> NextKey, notes |-> NotesIn(object)]
    BY <1>0, <2>3
  <2>5. /\ DOMAIN next = JobFields /\ next.todo = Tail(job[j].todo) /\ \A f \in JobFields \ {"todo"} : next[f] = job[j][f]
    BY <1>2 DEF JobFields
  <2>6. /\ DOMAIN put = JobFields /\ put.todo = Tail(job[j].todo) /\ put.parent = NextKey /\ put.notes = NotesIn(object)
        /\ put.files = object.files /\ put.made = Append(job[j].made, one)
        /\ put.told = job[j].told /\ put.at = "saving" /\ put.for = "save"
    BY <1>2, <2>4, <2>5 DEF JobFields
  <2>7. CASE Accepted(object)
    <3>1. /\ items' = Fresh(Paper(Draft(object))) /\ last' = Append(last, Empty) /\ Go(j, put)
          /\ UNCHANGED <<disk, content, wanted, doomed, writes, acts, stops>>
      BY <1>3, <2>7 DEF SaveItem
    <3>2. IsItem(Paper(Draft(object)), n + 1)
      BY <1>0, <2>2, PutsItems
    <3>3. /\ put.made \in Seq([key : Nat, notes : Nat]) /\ \A x \in DOMAIN put.made : put.made[x].key \in 1 .. n + 1
      <4>1. \A x \in DOMAIN job[j].made : job[j].made[x].key \in 1 .. n + 1
        BY <1>1, <1>2 DEF IsJob
      <4>2. one.key \in 1 .. n + 1
        BY <1>0, <2>3, <2>4
      <4>3. /\ Append(job[j].made, one) \in Seq([key : Nat, notes : Nat])
            /\ DOMAIN job[j].made = 1 .. Len(job[j].made) /\ DOMAIN Append(job[j].made, one) = 1 .. Len(job[j].made) + 1
            /\ \A x \in DOMAIN job[j].made : Append(job[j].made, one)[x] = job[j].made[x]
            /\ Append(job[j].made, one)[Len(job[j].made) + 1] = one /\ Len(job[j].made) \in Nat
        <5> DEFINE T == [key : Nat, notes : Nat]
        <5>1. one \in T /\ job[j].made \in Seq(T)
          BY <2>1, <2>4
        <5> HIDE DEF T
        <5>2. /\ Append(job[j].made, one) \in Seq(T)
              /\ DOMAIN job[j].made = 1 .. Len(job[j].made) /\ DOMAIN Append(job[j].made, one) = 1 .. Len(job[j].made) + 1
              /\ \A x \in DOMAIN job[j].made : Append(job[j].made, one)[x] = job[j].made[x]
              /\ Append(job[j].made, one)[Len(job[j].made) + 1] = one /\ Len(job[j].made) \in Nat
          BY <5>1, LastOf
        <5> QED BY <5>2 DEF T
      <4>4. \A x \in DOMAIN Append(job[j].made, one) : x = Len(job[j].made) + 1 \/ x \in DOMAIN job[j].made
        BY <4>3
      <4> QED BY <2>6, <4>1, <4>2, <4>3, <4>4
    <3> HIDE DEF put, next, object
    <3>4. IsJob(put, n + 1, c)
      <4>1. put.told \in Seq(Nat) /\ put.todo \in Seq(Objects) /\ put.files \in Seq(DOMAIN Web) /\ put.notes \in Nat
        BY <1>1, <1>2, <2>2, <2>3, <2>6 DEF IsJob
      <4>2. put.parent \in 0 .. n + 1 /\ put.parent # 0
        BY <1>0, <2>3, <2>6
      <4> QED BY <2>6, <3>3, <4>1, <4>2, SavingIsFine
    <3> QED BY <1>0, <3>1, <3>2, <3>4, OneMoreItem
  <2>8. CASE ~Accepted(object)
    <3>1. Go(j, next) /\ UNCHANGED <<items, last, disk, content, wanted, doomed, writes, acts, stops>>
      BY <1>3, <2>8 DEF SaveItem
    <3> HIDE DEF put, next, object
    <3>2. IsJob(next, n, c)
      BY <1>0, <1>2, <2>2, <2>5 DEF IsJob, JobFields
    <3> QED BY <1>0, <3>1, <3>2, OnlyARequest
  <2> QED BY <2>7, <2>8
<1>4. CASE SaveNote(j)
  <2> DEFINE next == [job[j] EXCEPT !.notes = @ - 1]
  <2>1. job[j].notes \in Nat /\ job[j].notes > 0 /\ job[j].parent \in 1 .. n
    BY <1>0, <1>2, <1>4 DEF SaveNote, IsJob
  <2>2. DOMAIN next = JobFields /\ next.notes = job[j].notes - 1 /\ \A f \in JobFields \ {"notes"} : next[f] = job[j][f]
    BY <1>2 DEF JobFields
  <2>3. Go(j, next) /\ UNCHANGED <<disk, content, wanted, doomed, writes, acts, stops>>
    BY <1>4 DEF SaveNote
  <2> HIDE DEF next
  <2>4. IsJob(next, n, c) /\ IsJob(next, n + 1, c)
    <3>1. job[j].notes - 1 \in Nat
      BY <2>1
    <3>2. /\ job[j].todo \in Seq(Objects) /\ job[j].files \in Seq(DOMAIN Web) /\ job[j].told \in Seq(Nat)
          /\ job[j].made \in Seq([key : Nat, notes : Nat]) /\ \A x \in DOMAIN job[j].made : job[j].made[x].key \in 1 .. n
      BY <1>0, <1>2 DEF IsJob
    <3>3. /\ next.todo = job[j].todo /\ next.files = job[j].files /\ next.told = job[j].told /\ next.made = job[j].made
          /\ next.at = "saving" /\ next.for = "save" /\ next.parent = job[j].parent
      BY <1>2, <2>2 DEF JobFields
    <3>4. next.parent \in 0 .. n /\ next.parent # 0
      BY <1>0, <2>1, <3>3
    <3> HIDE DEF n, c
    <3>5. IsJob(next, n, c)
      BY <2>2, <3>1, <3>2, <3>3, <3>4, SavingIsFine
    <3> QED BY <1>0, <3>5, MoreIsFine
  <2>5. IsItem(Child("note", job[j].parent, Nowhere, NoName), n + 1)
    <3>1. job[j].parent \in 0 .. n + 1
      BY <1>0, <2>1
    <3> QED BY <1>0, <3>1, PutsItems
  <2>6. CASE Live(job[j].parent)
    BY <1>0, <1>4, <2>3, <2>4, <2>5, <2>6, OneMoreItem DEF SaveNote
  <2>7. CASE ~Live(job[j].parent)
    BY <1>0, <1>4, <2>3, <2>4, <2>7, OnlyARequest DEF SaveNote
  <2> QED BY <2>6, <2>7
<1> QED BY <1>3, <1>4

\* Everything looks as it should after every step.
LEMMA ShapeStep ==
  ASSUME Shape, [Next]_vars
  PROVE  Shape'
<1>1. CASE UNCHANGED vars
  BY <1>1 DEF vars, Shape
<1>2. ASSUME NEW a \in DOMAIN Web, SaveSnapshot(a) PROVE Shape'
  <2>1. IsItem(Paper([fields |-> [url |-> a], creators |-> <<>>]), Len(items) + 1)
    BY Counts, PutsItems
  <2>2. writes' \in Nat /\ acts' \in Nat /\ stops' \in Nat
    BY <1>2 DEF SaveSnapshot, Acts, Shape
  <2> QED BY <1>2, <2>1, <2>2, OneMoreItem DEF SaveSnapshot
<1>3. ASSUME NEW k \in DOMAIN items, File(k) PROVE Shape'
  <2>1. PdfUrlFor(k) \in DOMAIN Web
    BY <1>3, AddressIsKnown DEF File, WorthFetching
  <2>2. wanted' = wanted \cup {[paper |-> k, url |-> PdfUrlFor(k)]}
    BY <1>3 DEF File
  <2> QED BY <1>3, <2>1, <2>2 DEF File, Shape
<1>4. ASSUME NEW k \in DOMAIN items, CleanUp(k) PROVE Shape'
  <2>1. doomed' = doomed \ {k} /\ disk' = Removed({path \in DOMAIN disk : path.of = k})
        /\ UNCHANGED <<items, content, wanted, job, writes, acts, stops, last>>
    BY <1>4 DEF CleanUp
  <2>2. \A q \in DOMAIN disk' : q \in DOMAIN disk /\ disk'[q] = disk[q]
    BY <2>1 DEF Removed
  <2> QED BY <2>1, <2>2 DEF Shape
<1>5. CASE Next
  BY <1>2, <1>3, <1>4, <1>5, FetchShape, IntoShape, WriteShape, RenameShape, ItemsShape, SavingShape, SavesShape DEF Next
<1> QED BY <1>1, <1>5

\* Everything looks as it should at first.
LEMMA ShapeInit == ASSUME Init PROVE Shape
<1>1. Shelved = [x \in 1 .. Len(Shelved) |-> Shelved[x]] /\ Len(Shelved) \in Nat
  BY AttachingAssumption
<1>2. items \in Seq(ToSet(items)) /\ Len(items) = Len(Shelved) /\ DOMAIN items = DOMAIN Shelved
  BY <1>1 DEF Init, ToSet
<1>3. last \in Seq(Nat) /\ Len(last) = Len(Shelved)
  BY <1>1 DEF Init, Empty
<1>4. \A k \in DOMAIN items : IsItem(items[k], Len(items))
  BY <1>1, <1>2, PutsItems DEF Init
<1> QED BY <1>2, <1>3, <1>4, <1>1, IdleIsFine DEF Init, Shape

-----------------------------------------------------------------------------
(***************************************************************************)
(* The files.                                                              *)
(***************************************************************************)

\* A step that leaves k, its files and what lies in them alone, and a request
\* that does not go on with it: what it does next is at most to open a file.
Undisturbed(k) ==
  /\ k \in DOMAIN items /\ k \in DOMAIN items' /\ items'[k] = items[k] /\ last'[k] = last[k]
  /\ \A q \in DOMAIN disk \cup DOMAIN disk' : q.of = k =>
       q \in DOMAIN disk /\ q \in DOMAIN disk' /\ disk'[q] = disk[q] /\ content'[disk[q]] = content[disk[q]]
  /\ k \in doomed => k \in doomed'
  /\ stops' = 0 => stops = 0

Steady(r, s, k) == s = r \/ (~InHand(r, k) /\ ~Renames(s, k) /\ (Writes(s, k) => s.at = "open"))

\* What a key that was not crossed is spared.
LEMMA NotCrossed ==
  ASSUME History, NEW k \in DOMAIN items', k \notin crossed'
  PROVE  /\ k \notin crossed /\ Alone(k)'
         /\ \A j \in Jobs : Writes(job'[j], k) =>
              items'[k] # Gone /\ (~IsPicture(job'[j].path) => items'[k].name = job'[j].path.name)
         /\ \A j \in Jobs : Renames(job[j], k) /\ stops' # stops => job'[j].at # "idle"
<1>1. ~Crosses(k) /\ k \notin crossed
  BY DEF History
<1> QED BY <1>1 DEF Crosses, Alone

\* The bytes of a key that is left alone.
LEMMA SameBytes ==
  ASSUME NEW k, Undisturbed(k), NEW q, q.of = k
  PROVE  Bytes(q)' = Bytes(q)
<1>1. CASE q \in DOMAIN disk
  BY <1>1 DEF Undisturbed, Bytes, Holds
<1>2. CASE q \notin DOMAIN disk
  BY <1>2 DEF Undisturbed, Bytes, Holds
<1> QED BY <1>1, <1>2

\* What is served for a key is under a path of it.
LEMMA PathOf == ASSUME NEW k, NEW name PROVE Path(k, name).of = k /\ Path(k, name).in = "storage" /\ Path(k, name).name = name
BY DEF Path

\* A key that is left alone is kept.
LEMMA StaysKept ==
  ASSUME Shape, History, NEW k, k \notin crossed', Kept(k), Undisturbed(k),
         \A i \in Jobs : Steady(job[i], job'[i], k)
  PROVE  Kept(k)'
<1>0. k \in DOMAIN items /\ k \in DOMAIN items' /\ items'[k] = items[k] /\ last'[k] = last[k]
  BY DEF Undisturbed
<1>1. /\ Alone(k)'
      /\ \A j \in Jobs : Writes(job'[j], k) =>
           items'[k] # Gone /\ (~IsPicture(job'[j].path) => items'[k].name = job'[j].path.name)
  BY <1>0, NotCrossed
<1>2. Written(k)'
  <2> SUFFICES ASSUME NEW i \in Jobs, Writes(job'[i], k), job'[i].at # "open"
               PROVE  /\ Temp(job'[i].path) \in DOMAIN disk' /\ disk'[Temp(job'[i].path)] = job'[i].file
                      /\ job'[i].at = "fill" => content'[job'[i].file] = Empty
                      /\ job'[i].at = "swap" => content'[job'[i].file] = job'[i].bytes
    <3>1. \A i \in Jobs : Writes(job'[i], k) /\ job'[i].at \in {"fill", "swap"} => job'[i].at # "open"
      OBVIOUS
    <3> QED BY <1>1, <3>1 DEF Written, Holds
  <2>1. job'[i] = job[i] /\ Writes(job[i], k)
    BY DEF Steady
  <2> DEFINE t == Temp(job[i].path)
  <2>2. Holds(t) /\ disk[t] = job[i].file /\ job[i].at \in {"fill", "swap"}
        /\ (job[i].at = "fill" => content[job[i].file] = Empty) /\ (job[i].at = "swap" => content[job[i].file] = job[i].bytes)
    BY <2>1 DEF Kept, Written, Writes
  <2>3. t.of = k
    <3>1. IsTarget(job[i].path, Len(items)) /\ job[i].path.of = k
      BY <2>1, <2>2 DEF Shape, IsJob, Writes
    <3>2. Len(items) \in Nat
      BY Counts
    <3> QED BY <3>1, <3>2, TempIsBeside
  <2>4. t \in DOMAIN disk' /\ disk'[t] = disk[t] /\ content'[disk[t]] = content[disk[t]]
    BY <2>2, <2>3 DEF Undisturbed, Holds
  <2> HIDE DEF t
  <2>5. Temp(job'[i].path) = t
    BY <2>1 DEF t
  <2> QED BY <2>1, <2>2, <2>4, <2>5
<1>3. Named(k)' = Named(k)
  BY <1>0 DEF Named, IsAttachment, Live
<1>4. \A i \in Jobs : Renames(job'[i], k) => job'[i] = job[i]
  BY DEF Steady, InHand
<1>5. \A i \in Jobs : Moved(job[i], k) => job'[i] = job[i]
  BY DEF Steady, InHand, Renames, Moved
<1>6. Moving(k)'
  <2> SUFFICES ASSUME NEW i \in Jobs, Named(k)', job'[i].for = "names"
               PROVE  /\ \A m \in ToSet(job'[i].todo) \cup job'[i].moved : m.key = k =>
                           m.from = Path(k, items'[k].name) /\ m.to.name[2] = items'[k].name[2]
                      /\ \A m \in job'[i].moved : m.key = k /\ Beside(k)' => Bytes(m.to)' = last'[k]
    BY DEF Moving
  <2>1. CASE Renames(job'[i], k)
    <3>1. job'[i] = job[i] /\ job[i].for = "names"
      BY <1>4, <2>1
    <3>2. /\ \A m \in ToSet(job[i].todo) \cup job[i].moved : m.key = k =>
                           m.from = Path(k, items[k].name) /\ m.to.name[2] = items[k].name[2]
          /\ \A m \in job[i].moved : m.key = k /\ Beside(k) => Bytes(m.to) = last[k]
      BY <1>3, <3>1 DEF Kept, Moving
    <3>3. \A m \in job[i].moved : IsMove(m, Len(items))
      BY <3>1 DEF Shape, IsJob, IsPlan
    <3>4. ASSUME NEW m \in job[i].moved, m.key = k, Beside(k)' PROVE Bytes(m.to)' = last'[k]
      <4>1. m.to.of = k
        BY <3>3, <3>4 DEF IsMove
      <4>2. Beside(k)
        BY <1>0, <3>4 DEF Beside
      <4> QED BY <1>0, <3>2, <3>4, <4>1, <4>2, SameBytes
    <3> QED BY <1>0, <3>1, <3>2, <3>4
  <2>2. CASE ~Renames(job'[i], k)
    BY <2>2 DEF Renames
  <2> QED BY <2>1, <2>2
<1>7. Serves(k)'
  <2> SUFFICES ASSUME Named(k)', Beside(k)', \A i \in Jobs : ~Moved(job'[i], k) PROVE Served(k)' = last'[k]
    BY DEF Serves
  <2>1. Named(k) /\ Beside(k) /\ \A i \in Jobs : ~Moved(job[i], k)
    BY <1>0, <1>3, <1>5 DEF Beside
  <2>2. Served(k) = last[k]
    BY <2>1 DEF Kept, Serves
  <2>3. PICK q : q = Path(k, items[k].name)
    OBVIOUS
  <2>4. Bytes(q)' = Bytes(q)
    BY <2>3, PathOf, SameBytes
  <2>5. Served(k)' = Bytes(q)'
    BY <1>0, <2>3 DEF Served
  <2> QED BY <1>0, <2>2, <2>3, <2>4, <2>5 DEF Served
<1>8. Waits(k)'
  <2> SUFFICES ASSUME Named(k)', last'[k] = Empty, stops' = 0 PROVE \E j \in Jobs : Writes(job'[j], k) /\ ~IsPicture(job'[j].path)
    BY DEF Waits
  <2>1. PICK j \in Jobs : Writes(job[j], k) /\ ~IsPicture(job[j].path)
    BY <1>0, <1>3 DEF Kept, Waits, Undisturbed
  <2>2. job'[j] = job[j]
    BY <2>1 DEF Steady, InHand
  <2> QED BY <2>1, <2>2
<1>9. Pictured(k)'
  <2> SUFFICES ASSUME NEW q \in DOMAIN disk', IsPicture(q), Len(q.name[2]) = 1, q.of = k
               PROVE  (Live(k)' \/ k \in doomed') /\ Bytes(q)' > 0
    BY DEF Pictured
  <2>1. q \in DOMAIN disk
    BY DEF Undisturbed
  <2>2. (Live(k) \/ k \in doomed) /\ Bytes(q) > 0
    BY <2>1 DEF Kept, Pictured
  <2>3. Bytes(q)' = Bytes(q)
    BY SameBytes
  <2>4. Live(k)' = Live(k)
    BY <1>0 DEF Live
  <2> QED BY <2>2, <2>3, <2>4 DEF Undisturbed
<1> QED BY <1>1, <1>2, <1>6, <1>7, <1>8, <1>9 DEF Kept

\* A request that does nothing with files, and one that is to begin with one.
OffHand(r) == r.at \notin {"open", "fill", "swap"} /\ r.for # "names"
Begins(r)  == r.at \notin {"fill", "swap"} /\ r.for # "names"

\* What is not at it has nothing in hand.
LEMMA OffHandHasNone ==
  ASSUME NEW r, NEW k
  PROVE  /\ OffHand(r) => ~InHand(r, k) /\ ~Moved(r, k)
         /\ Begins(r) => ~Renames(r, k) /\ ~Moved(r, k) /\ (Writes(r, k) => r.at = "open")
BY DEF OffHand, Begins, InHand, Writes, Renames, Moved

\* A step in which the files stay, and requests go on that had none in hand.
LEMMA QuietStep ==
  ASSUME Shape, FilesInv, History, UNCHANGED <<disk, content>>, doomed \subseteq doomed', stops' = 0 => stops = 0,
         \A k \in DOMAIN items : k \in DOMAIN items' /\ items'[k] = items[k] /\ last'[k] = last[k],
         \A i \in Jobs : job'[i] = job[i] \/ (OffHand(job[i]) /\ Begins(job'[i])),
         \A k \in DOMAIN items' \ DOMAIN items : k \notin crossed' => Kept(k)'
  PROVE  FilesInv'
<1>1. Apart'
  <2>1. \A q, r \in DOMAIN disk : disk[q] = disk[r] => q = r
    BY DEF FilesInv, Apart
  <2>2. ASSUME NEW j \in Jobs, job'[j].at = "fill", NEW q \in DOMAIN disk, disk[q] = job'[j].file
        PROVE  q.of = job'[j].path.of
    <3>1. job'[j] = job[j]
      BY <2>2 DEF Begins
    <3> QED BY <2>2, <3>1 DEF FilesInv, Apart
  <2> QED BY <2>1, <2>2 DEF Apart
<1>2. ASSUME NEW k \in DOMAIN items, k \notin crossed' PROVE Kept(k)'
  <2>1. k \notin crossed
    BY <1>2, NotCrossed
  <2>2. Kept(k)
    BY <2>1 DEF FilesInv
  <2>3. Undisturbed(k)
    BY DEF Undisturbed
  <2>4. \A i \in Jobs : Steady(job[i], job'[i], k)
    BY OffHandHasNone DEF Steady
  <2> QED BY <1>2, <2>2, <2>3, <2>4, StaysKept
<1> QED BY <1>1, <1>2 DEF FilesInv

\* The same, for a step of one request that puts no item.
LEMMA QuietRequest ==
  ASSUME Shape, FilesInv, History, NEW j \in Jobs, NEW next, Go(j, next), OffHand(job[j]), Begins(next),
         UNCHANGED <<items, disk, content, doomed, stops, last>>
  PROVE  FilesInv'
<1>1. DOMAIN job' = Jobs /\ job'[j] = next /\ \A i \in Jobs : i # j => job'[i] = job[i]
  BY OneGoes DEF Shape, Go
<1> QED BY <1>1, QuietStep

\* Where a request is tells what it has in hand.
LEMMA WhereItIs ==
  ASSUME Shape, NEW j \in Jobs
  PROVE  /\ job[j].at \in {"idle", "get", "follow", "look", "create", "saving"} => OffHand(job[j])
         /\ \A r : r.for \in {"fetch", "worker", "save", "upload", "picture", "nobody"} /\ r.at \notin {"fill", "swap"} => Begins(r)
         /\ job[j].for # "names" => Begins(Attached(j))
<1>1. job[j].for = "names" <=> job[j].at \in {"names", "move"}
  BY DEF Shape, IsJob
<1>2. DOMAIN job[j] = JobFields
  BY DEF Shape, IsJob
<1> QED BY <1>1, <1>2 DEF OffHand, Begins, Attached, Idle, JobFields

\* A key that was just given is kept: what has a file is about to be written.
LEMMA NewIsKept ==
  ASSUME Shape, History, NEW record, items' = Fresh(record), last' = Append(last, Empty), UNCHANGED <<disk, content>>,
         NEW k \in DOMAIN items' \ DOMAIN items, k \notin crossed',
         \A i \in Jobs : job'[i] = job[i] \/ Begins(job'[i]),
         record.type = "attachment" => \E i \in Jobs : Writes(job'[i], k) /\ ~IsPicture(job'[i].path)
  PROVE  Kept(k)'
<1>1. /\ DOMAIN items' = DOMAIN items \cup {Len(items) + 1} /\ items'[Len(items) + 1] = record
  BY AtTheEnd DEF Shape, Fresh
<1>2. k = Len(items) + 1 /\ Len(items) \in Nat /\ Len(last) = Len(items) /\ items'[k] = record
  BY <1>1, Counts DEF Shape
<1>3. last'[k] = Empty
  BY <1>2, LastOf DEF Shape, Empty
<1>4. k \notin 1 .. Len(items)
  BY <1>2
<1>6. ASSUME NEW i \in Jobs PROVE ~InHand(job[i], k)
  <2>1. IsJob(job[i], Len(items), Len(content))
    BY DEF Shape
  <2>2. ~Writes(job[i], k)
    BY <1>4, <2>1 DEF IsJob, IsTarget, IsPath, Writes
  <2>3. ~Renames(job[i], k)
    BY <1>4, <2>1 DEF IsJob, IsPlan, IsMove, Renames
  <2> QED BY <2>2, <2>3 DEF InHand
<1>7. \A i \in Jobs : ~Renames(job'[i], k) /\ (Writes(job'[i], k) => job'[i].at = "open")
  BY <1>6, OffHandHasNone DEF InHand
<1>8. /\ Alone(k)'
      /\ \A i \in Jobs : Writes(job'[i], k) =>
           items'[k] # Gone /\ (~IsPicture(job'[i].path) => items'[k].name = job'[i].path.name)
  BY NotCrossed
<1>9. Written(k)'
  BY <1>7, <1>8 DEF Written
<1>10. Moving(k)'
  BY <1>7 DEF Moving, Renames
<1>11. \A q \in DOMAIN disk : q.of # k
  BY <1>4 DEF Shape, IsPath
<1>12. Serves(k)'
  <2>1. PICK q : q = Path(k, items'[k].name)
    OBVIOUS
  <2>2. q \notin DOMAIN disk
    BY <1>11, <2>1, PathOf
  <2>3. Served(k)' = Empty
    BY <2>1, <2>2 DEF Served, Bytes, Holds
  <2> QED BY <1>3, <2>3 DEF Serves
<1>13. Waits(k)'
  <2>1. Named(k)' => record.type = "attachment"
    BY <1>2 DEF Named, IsAttachment
  <2> QED BY <2>1 DEF Waits
<1>14. Pictured(k)'
  BY <1>11 DEF Pictured
<1> QED BY <1>8, <1>9, <1>10, <1>12, <1>13, <1>14 DEF Kept

\* The steps that fetch, that begin to write, and of the extension's request.
LEMMA RequestFiles ==
  ASSUME Shape, FilesInv, History, NEW j \in Jobs,
         \/ \E k \in DOMAIN items :
              \/ \E a \in DOMAIN Web \cup {Nowhere} : Fetch(j, k, a)
              \/ Upload(j, k) \/ \E x \in DOMAIN Kinds : StorePicture(j, k, Kinds[x])
         \/ \E row \in wanted : TakeWanted(j, row)
         \/ Download(j) \/ DownloadFails(j) \/ LookForAttachment(j)
         \/ \E page \in Pages : SaveItems(j, page)
         \/ SaveFile(j) \/ Saved(j) \/ AnswerSaved(j)
  PROVE  FilesInv'
<1> DEFINE how == {"fetch", "worker", "save", "upload", "picture", "nobody"}
<1>0. /\ DOMAIN job[j] = JobFields /\ (job[j].for = "names" <=> job[j].at \in {"names", "move"}) /\ (job[j].at = "saving" => job[j].for = "save")
      /\ \A r : r.for # "names" /\ r.at \notin {"fill", "swap"} => Begins(r)
      /\ job[j].at \in {"idle", "get", "follow", "look", "create", "saving"} => OffHand(job[j])
      /\ job[j].for # "names" => Begins(Attached(j))
  BY WhereItIs DEF Shape, IsJob, Begins
<1>1. ASSUME NEW k \in DOMAIN items, NEW a \in DOMAIN Web \cup {Nowhere}, Fetch(j, k, a) PROVE FilesInv'
  <2>1. PICK b : Go(j, Attach(Idle, "fetch", k, b)) /\ UNCHANGED <<items, disk, content, doomed, stops, last>> /\ job[j].at = "idle"
    BY <1>1 DEF Fetch, Starts
  <2>2. Begins(Attach(Idle, "fetch", k, b))
    BY DEF Begins, Attach, Idle
  <2> QED BY <1>0, <2>1, <2>2, QuietRequest
<1>2. ASSUME NEW row \in wanted, TakeWanted(j, row) PROVE FilesInv'
  <2>1. Begins(Attach(Idle, "worker", row.paper, row.url))
    BY DEF Begins, Attach, Idle
  <2> QED BY <1>0, <1>2, <2>1, QuietRequest DEF TakeWanted, Starts
<1>3. ASSUME NEW k \in DOMAIN items, Upload(j, k) PROVE FilesInv'
  <2> DEFINE next == [Idle EXCEPT !.at = "open", !.for = "upload", !.key = k, !.path = Path(k, items[k].name), !.bytes = writes + 1]
  <2>1. Begins(next)
    BY DEF Begins, Idle
  <2>2. Go(j, next) /\ job[j].at = "idle" /\ UNCHANGED <<items, disk, content, doomed, stops, last>>
    BY <1>3 DEF Upload, Starts
  <2> HIDE DEF next
  <2> QED BY <1>0, <2>1, <2>2, QuietRequest
<1>4. ASSUME NEW k \in DOMAIN items, NEW kind, StorePicture(j, k, kind) PROVE FilesInv'
  <2> DEFINE next == [Idle EXCEPT !.at = "open", !.for = "picture", !.key = k, !.path = Picture(k, kind), !.bytes = Served(k)]
  <2>1. Begins(next)
    BY DEF Begins, Idle
  <2>2. Go(j, next) /\ job[j].at = "idle" /\ UNCHANGED <<items, disk, content, doomed, stops, last>>
    BY <1>4 DEF StorePicture, Starts
  <2> HIDE DEF next
  <2> QED BY <1>0, <2>1, <2>2, QuietRequest
<1>5. CASE Download(j)
  <2>1. job[j].at \in {"get", "follow"} /\ UNCHANGED <<items, disk, content, doomed, stops, last>>
    BY <1>5 DEF Download
  <2>2. /\ Begins([job[j] EXCEPT !.at = "look", !.bytes = writes + 1])
        /\ Begins([job[j] EXCEPT !.at = "follow", !.url = PdfLink(Web[job[j].url])])
        /\ Begins(Attached(j))
    BY <1>0, <2>1 DEF Begins, JobFields
  <2>3. \E next : Go(j, next) /\ Begins(next)
    BY <1>5, <2>2 DEF Download
  <2> QED BY <1>0, <2>1, <2>3, QuietRequest
<1>6. CASE DownloadFails(j)
  BY <1>0, <1>6, QuietRequest DEF DownloadFails
<1>7. CASE LookForAttachment(j)
  <2>1. job[j].at = "look" /\ UNCHANGED <<items, disk, content, doomed, stops, last>>
    BY <1>7 DEF LookForAttachment
  <2>2. Begins([job[j] EXCEPT !.at = "create"]) /\ \A k : Begins(Into(j, k))
    BY <1>0, <2>1 DEF Begins, JobFields, Into
  <2>3. \E next : Go(j, next) /\ Begins(next)
    BY <1>7, <2>2 DEF LookForAttachment
  <2> QED BY <1>0, <2>1, <2>3, QuietRequest
<1>8. ASSUME NEW page \in Pages, SaveItems(j, page) PROVE FilesInv'
  <2>1. Begins([Idle EXCEPT !.at = "saving", !.for = "save", !.todo = page])
    BY DEF Begins, Idle
  <2> QED BY <1>0, <1>8, <2>1, QuietRequest DEF SaveItems, Starts
<1>9. CASE SaveFile(j)
  <2>1. job[j].at = "saving" /\ job[j].for = "save" /\ UNCHANGED <<items, disk, content, doomed, stops, last>>
    BY <1>0, <1>9 DEF SaveFile, Saving
  <2>2. /\ Begins([job[j] EXCEPT !.files = Tail(@)])
        /\ \A a : Begins(Attach([job[j] EXCEPT !.files = Tail(@)], "save", job[j].parent, a))
    BY <1>0, <2>1 DEF Begins, JobFields, Attach
  <2>3. \E next : Go(j, next) /\ Begins(next)
    BY <1>9, <2>2 DEF SaveFile
  <2> QED BY <1>0, <2>1, <2>3, QuietRequest
<1>10. CASE Saved(j)
  <2>1. job[j].at = "saving" /\ job[j].for = "save" /\ UNCHANGED <<items, disk, content, doomed, stops, last>>
    BY <1>0, <1>10 DEF Saved, Between, Saving
  <2>2. Begins([job[j] EXCEPT !.told = Append(@, job[j].parent), !.parent = 0])
    BY <1>0, <2>1 DEF Begins, JobFields
  <2> QED BY <1>0, <1>10, <2>1, <2>2, QuietRequest DEF Saved
<1>11. CASE AnswerSaved(j)
  <2>1. Begins(Idle)
    BY DEF Begins, Idle
  <2> QED BY <1>0, <1>11, <2>1, QuietRequest DEF AnswerSaved, Between, Saving
<1> QED BY <1>1, <1>2, <1>3, <1>4, <1>5, <1>6, <1>7, <1>8, <1>9, <1>10, <1>11

\* A step that puts an item, of a request that had no file in hand, or of none.
LEMMA OneMoreFile ==
  ASSUME Shape, FilesInv, History, NEW record, items' = Fresh(record), last' = Append(last, Empty),
         UNCHANGED <<disk, content, doomed, stops>>,
         \A i \in Jobs : job'[i] = job[i] \/ (OffHand(job[i]) /\ Begins(job'[i])),
         record.type = "attachment" => \E i \in Jobs : Writes(job'[i], NextKey) /\ ~IsPicture(job'[i].path)
  PROVE  FilesInv'
<1>1. /\ DOMAIN items' = DOMAIN items \cup {NextKey}
      /\ \A k \in DOMAIN items : k \in DOMAIN items' /\ items'[k] = items[k]
  BY AtTheEnd DEF Shape, Fresh, NextKey
<1>2. \A k \in DOMAIN items : last'[k] = last[k]
  BY Counts, LastOf DEF Shape, Empty
<1>3. \A k \in DOMAIN items' \ DOMAIN items : k \notin crossed' => Kept(k)'
  <2>1. \A k \in DOMAIN items' \ DOMAIN items : k = NextKey
    BY <1>1
  <2>2. \A i \in Jobs : job'[i] = job[i] \/ Begins(job'[i])
    OBVIOUS
  <2>3. PICK n : n = NextKey
    OBVIOUS
  <2>4. n \in DOMAIN items' \ DOMAIN items /\ n \notin crossed' => Kept(n)'
    BY <2>2, <2>3, NewIsKept
  <2> QED BY <2>1, <2>3, <2>4
<1> QED BY <1>1, <1>2, <1>3, QuietStep

\* The steps of a request that put an item.
LEMMA NewFiles ==
  ASSUME Shape, FilesInv, History, NEW j \in Jobs,
         CreateAttachment(j) \/ SaveItem(j) \/ SaveNote(j)
  PROVE  FilesInv'
<1>0. /\ DOMAIN job[j] = JobFields /\ (job[j].for = "names" <=> job[j].at \in {"names", "move"}) /\ (job[j].at = "saving" => job[j].for = "save")
      /\ \A r : r.for # "names" /\ r.at \notin {"fill", "swap"} => Begins(r)
      /\ job[j].at \in {"idle", "get", "follow", "look", "create", "saving"} => OffHand(job[j])
      /\ job[j].for # "names" => Begins(Attached(j))
  BY WhereItIs DEF Shape, IsJob, Begins
<1>1. ASSUME NEW record, items' = Fresh(record), last' = Append(last, Empty), UNCHANGED <<disk, content, doomed, stops>>,
             NEW next, Go(j, next) /\ OffHand(job[j]) /\ Begins(next),
             record.type = "attachment" => Writes(next, NextKey) /\ ~IsPicture(next.path)
      PROVE  FilesInv'
  <2>1. DOMAIN job' = Jobs /\ job'[j] = next /\ \A i \in Jobs : i # j => job'[i] = job[i]
    BY <1>1, OneGoes DEF Shape, Go
  <2> QED BY <1>1, <2>1, OneMoreFile
<1>2. CASE CreateAttachment(j)
  <2>1. job[j].at = "create"
    BY <1>2 DEF CreateAttachment
  <2>2. CASE Live(job[j].parent)
    <3> DEFINE next == Into(j, NextKey)
               record == Child("attachment", job[j].parent, job[j].url, FilenameFromUrl(job[j].url))
    <3>1. items' = Fresh(record) /\ last' = Append(last, Empty) /\ UNCHANGED <<disk, content, doomed, stops>> /\ Go(j, next)
      BY <1>2, <2>2 DEF CreateAttachment
    <3>2. Begins(next) /\ next.at = "open" /\ next.path = Path(NextKey, FilenameFromUrl(job[j].url))
      BY <1>0, <2>1 DEF Begins, JobFields, Into
    <3>3. Writes(next, NextKey) /\ ~IsPicture(next.path)
      BY <3>2, PathOf DEF Writes, IsPicture
    <3> HIDE DEF next, record
    <3> QED BY <1>0, <1>1, <2>1, <3>1, <3>2, <3>3
  <2>3. CASE ~Live(job[j].parent)
    BY <1>0, <1>2, <2>1, <2>3, QuietRequest DEF CreateAttachment
  <2> QED BY <2>2, <2>3
<1>3. CASE SaveItem(j)
  <2> DEFINE object == Head(job[j].todo)
             next == [job[j] EXCEPT !.todo = Tail(@)]
             put == [next EXCEPT !.parent = NextKey, !.notes = NotesIn(object), !.files = object.files,
                                 !.made = Append(@, [key |-> NextKey, notes |-> NotesIn(object)])]
  <2>1. job[j].at = "saving" /\ job[j].for = "save"
    BY <1>0, <1>3 DEF SaveItem, Between, Saving
  <2>2. Begins(next) /\ Begins(put)
    BY <1>0, <2>1 DEF Begins, JobFields
  <2>3. CASE Accepted(object)
    <3>1. /\ items' = Fresh(Paper(Draft(object))) /\ last' = Append(last, Empty) /\ Go(j, put)
          /\ UNCHANGED <<disk, content, wanted, doomed, writes, acts, stops>>
      BY <1>3, <2>3 DEF SaveItem
    <3>2. Paper(Draft(object)).type # "attachment"
      BY DEF Paper
    <3> HIDE DEF put, next, object
    <3> QED BY <1>0, <1>1, <2>1, <2>2, <3>1, <3>2
  <2>4. CASE ~Accepted(object)
    <3>1. Go(j, next) /\ UNCHANGED <<items, last, disk, content, wanted, doomed, writes, acts, stops>>
      BY <1>3, <2>4 DEF SaveItem
    <3> HIDE DEF put, next, object
    <3> QED BY <1>0, <2>1, <2>2, <3>1, QuietRequest
  <2> QED BY <2>3, <2>4
<1>4. CASE SaveNote(j)
  <2> DEFINE next == [job[j] EXCEPT !.notes = @ - 1]
             record == Child("note", job[j].parent, Nowhere, NoName)
  <2>1. job[j].at = "saving" /\ job[j].for = "save"
    BY <1>0, <1>4 DEF SaveNote, Saving
  <2>2. Begins(next) /\ record.type # "attachment"
    BY <1>0, <2>1 DEF Begins, JobFields, Child
  <2>3. Go(j, next) /\ UNCHANGED <<disk, content, wanted, doomed, writes, acts, stops>>
    BY <1>4 DEF SaveNote
  <2>4. (items' = Fresh(record) /\ last' = Append(last, Empty)) \/ UNCHANGED <<items, last>>
    BY <1>4 DEF SaveNote
  <2> HIDE DEF next, record
  <2>5. CASE items' = Fresh(record) /\ last' = Append(last, Empty)
    BY <1>0, <1>1, <2>1, <2>2, <2>3, <2>5
  <2>6. CASE UNCHANGED <<items, last>>
    BY <1>0, <2>1, <2>2, <2>3, <2>6, QuietRequest
  <2> QED BY <2>4, <2>5, <2>6
<1> QED BY <1>2, <1>3, <1>4

\* A page that is saved by its address.
LEMMA SnapshotFiles ==
  ASSUME Shape, FilesInv, History, NEW a, SaveSnapshot(a)
  PROVE  FilesInv'
<1>1. PICK record : record = Paper([fields |-> [url |-> a], creators |-> <<>>])
  OBVIOUS
<1>2. items' = Fresh(record) /\ last' = Append(last, Empty) /\ UNCHANGED <<disk, content, doomed, stops, job>>
  BY <1>1 DEF SaveSnapshot
<1>3. record.type # "attachment"
  BY <1>1 DEF Paper
<1> QED BY <1>2, <1>3, OneMoreFile

\* A step of a request that writes: the files of other keys are left alone.
LEMMA OneWrites ==
  ASSUME Shape, FilesInv, History, NEW j \in Jobs, NEW k0, k0 = job[j].path.of, job[j].at \in {"open", "fill", "swap"},
         NEW next, Go(j, next), next.for # "names", \A k : Writes(next, k) => k = k0,
         UNCHANGED <<items, doomed, stops>>,
         \A k \in DOMAIN items : k # k0 => last'[k] = last[k],
         \A q \in DOMAIN disk \cup DOMAIN disk' : q.of # k0 =>
           q \in DOMAIN disk /\ q \in DOMAIN disk' /\ disk'[q] = disk[q] /\ content'[disk[q]] = content[disk[q]],
         Apart', k0 \notin crossed' => Kept(k0)'
  PROVE  FilesInv'
<1>1. DOMAIN job' = Jobs /\ job'[j] = next /\ \A i \in Jobs : i # j => job'[i] = job[i]
  BY OneGoes DEF Shape, Go
<1>2. ASSUME NEW k \in DOMAIN items, k \notin crossed', k # k0 PROVE Kept(k)'
  <2>1. k \notin crossed
    BY <1>2, NotCrossed
  <2>2. Kept(k)
    BY <2>1 DEF FilesInv
  <2>3. Undisturbed(k)
    BY <1>2 DEF Undisturbed
  <2>4. Steady(job[j], job'[j], k)
    <3>1. job[j].for # "names"
      BY DEF Shape, IsJob
    <3> QED BY <1>1, <1>2, <3>1 DEF Steady, InHand, Writes, Renames
  <2>5. \A i \in Jobs : Steady(job[i], job'[i], k)
    BY <1>1, <2>4 DEF Steady
  <2> QED BY <1>2, <2>2, <2>3, <2>5, StaysKept
<1> QED BY <1>2 DEF FilesInv

\* What holds of a request that writes for a key that was not crossed.
LEMMA WritesAlone ==
  ASSUME Shape, FilesInv, History, NEW j \in Jobs, job[j].at \in {"open", "fill", "swap"},
         job[j].path.of \notin crossed'
  PROVE  LET k == job[j].path.of
             temp == Temp(job[j].path) IN
         /\ k \in DOMAIN items /\ Kept(k) /\ Writes(job[j], k)
         /\ items[k] # Gone /\ (~IsPicture(job[j].path) => items[k].name = job[j].path.name)
         /\ \A i \in Jobs : i # j => ~InHand(job[i], k)
         /\ ~Renames(job[j], k)
         /\ IsTarget(job[j].path, Len(items)) /\ temp.of = k /\ temp.in = job[j].path.in
         /\ IsPicture(job[j].path) => Len(temp.name[2]) = 2
         /\ ~IsPicture(job[j].path) => temp.name[2] = <<"part">>
<1> DEFINE k == job[j].path.of
<1>1. IsTarget(job[j].path, Len(items)) /\ job[j].for # "names" /\ Len(items) \in Nat /\ k \in DOMAIN items
  BY Counts DEF Shape, IsJob, IsTarget, IsPath
<1>2. Kept(k)
  <2>1. k \notin crossed
    BY DEF History
  <2> QED BY <1>1, <2>1 DEF FilesInv
<1>3. Writes(job[j], k) /\ InHand(job[j], k) /\ ~Renames(job[j], k)
  BY <1>1 DEF Writes, InHand, Renames
<1>4. \A i \in Jobs : i # j => ~InHand(job[i], k)
  BY <1>2, <1>3 DEF Kept, Alone
<1>5. items[k] # Gone /\ (~IsPicture(job[j].path) => items[k].name = job[j].path.name)
  BY <1>2, <1>3 DEF Kept, Written
<1> QED BY <1>1, <1>2, <1>3, <1>4, <1>5, TempIsBeside

\* A file is opened beside the one that it will replace.
LEMMA OpenFiles ==
  ASSUME Shape, FilesInv, History, NEW j \in Jobs, OpenTemp(j)
  PROVE  FilesInv'
<1>a. PICK k : k = job[j].path.of
  OBVIOUS
<1>b. PICK temp : temp = Temp(job[j].path)
  OBVIOUS
<1>c. PICK f : f = IF Holds(temp) THEN disk[temp] ELSE Len(content) + 1
  OBVIOUS
<1>d. PICK next : next = [job[j] EXCEPT !.at = "fill", !.file = f]
  OBVIOUS
<1>0. /\ job[j].at = "open" /\ UNCHANGED <<items, wanted, doomed, writes, acts, stops, last>>
      /\ DOMAIN job[j] = JobFields /\ IsTarget(job[j].path, Len(items)) /\ Len(items) \in Nat /\ job[j].for # "names"
      /\ DOMAIN content = 1 .. Len(content) /\ Len(content) \in Nat /\ \A q \in DOMAIN disk : disk[q] \in DOMAIN content
  BY Counts DEF OpenTemp, Shape, IsJob
<1>1. temp.of = k
  BY <1>0, <1>a, <1>b, TempIsBeside
<1>2. Go(j, next)
  BY <1>b, <1>c, <1>d DEF OpenTemp
<1>3. /\ next.at = "fill" /\ next.file = f /\ next.path = job[j].path /\ next.for = job[j].for
  BY <1>0, <1>d DEF JobFields
<1>4. DOMAIN job' = Jobs /\ job'[j] = next /\ \A i \in Jobs : i # j => job'[i] = job[i]
  BY <1>2, OneGoes DEF Shape, Go
\* The disk after the step: the file beside is the one that is open, and empty.
<1>5. /\ DOMAIN disk' = DOMAIN disk \cup {temp} /\ disk'[temp] = f /\ \A q \in DOMAIN disk : disk'[q] = disk[q]
      /\ content'[f] = Empty
      /\ \A g \in DOMAIN content : g # f => content'[g] = content[g]
      /\ \A q \in DOMAIN disk : q # temp => disk[q] # f
      /\ \A i \in Jobs : job[i].at = "fill" /\ job[i].file = f => temp \in DOMAIN disk /\ disk[temp] = f
  <2>1. CASE Holds(temp)
    <3>1. f = disk[temp] /\ content' = [content EXCEPT ![f] = Empty] /\ disk' = disk /\ temp \in DOMAIN disk /\ f \in DOMAIN content
      BY <1>0, <1>b, <1>c, <2>1 DEF OpenTemp, Holds
    <3> QED BY <3>1 DEF FilesInv, Apart
  <2>2. CASE ~Holds(temp)
    <3>1. /\ f = Len(content) + 1 /\ content' = Append(content, Empty) /\ temp \notin DOMAIN disk
          /\ disk' = [path \in DOMAIN disk \cup {temp} |-> IF path = temp THEN f ELSE disk[path]]
      BY <1>b, <1>c, <2>2 DEF OpenTemp, Holds
    <3>2. content'[f] = Empty /\ \A g \in DOMAIN content : content'[g] = content[g]
      BY <3>1, LastOf DEF Shape, Empty
    <3>3. f \notin DOMAIN content
      BY <1>0, <3>1
    <3>4. \A i \in Jobs : job[i].at = "fill" => job[i].file \in DOMAIN content
      BY <1>0 DEF Shape, IsJob
    <3> QED BY <1>0, <3>1, <3>2, <3>3, <3>4
  <2> QED BY <2>1, <2>2
<1>6. \A q \in DOMAIN disk : q # temp => q \in DOMAIN disk' /\ disk'[q] = disk[q] /\ content'[disk[q]] = content[disk[q]]
  BY <1>0, <1>5
<1>7. Apart'
  <2>1. ASSUME NEW q \in DOMAIN disk', NEW r \in DOMAIN disk', disk'[q] = disk'[r] PROVE q = r
    BY <1>5, <2>1 DEF FilesInv, Apart
  <2>2. ASSUME NEW i \in Jobs, job'[i].at = "fill", NEW q \in DOMAIN disk', disk'[q] = job'[i].file PROVE q.of = job'[i].path.of
    <3>1. CASE i = j
      BY <1>1, <1>3, <1>4, <1>5, <1>a, <2>2, <3>1
    <3>2. CASE i # j
      <4>1. job'[i] = job[i]
        BY <1>4, <3>2
      <4>2. q \in DOMAIN disk /\ disk[q] = job[i].file
        BY <1>5, <2>2, <4>1
      <4> QED BY <2>2, <4>1, <4>2 DEF FilesInv, Apart
    <3> QED BY <3>1, <3>2
  <2> QED BY <2>1, <2>2 DEF Apart
<1>8. ASSUME k \notin crossed' PROVE Kept(k)'
  <2>1. /\ k \in DOMAIN items /\ Kept(k) /\ Writes(job[j], k) /\ items[k] # Gone
        /\ \A i \in Jobs : i # j => ~InHand(job[i], k)
        /\ IsPicture(job[j].path) => Len(temp.name[2]) = 2
        /\ ~IsPicture(job[j].path) => temp.name[2] = <<"part">>
        /\ temp.in = job[j].path.in
    BY <1>0, <1>8, <1>a, <1>b, WritesAlone
  <2>2. \A i \in Jobs : InHand(job'[i], k) => i = j
    BY <1>4, <2>1
  <2>3. ~Renames(job'[j], k) /\ ~Renames(job[j], k) /\ ~Moved(job[j], k)
    BY <1>0, <1>3, <1>4 DEF Renames, Moved
  <2>4. \A i \in Jobs : ~Renames(job'[i], k) /\ ~Moved(job[i], k)
    BY <2>1, <2>2, <2>3 DEF InHand, Renames, Moved
  <2>5. \A q \in DOMAIN disk : q # temp => Bytes(q)' = Bytes(q)
    BY <1>6 DEF Bytes, Holds
  <2>6. Alone(k)' /\ \A i \in Jobs : Writes(job'[i], k) =>
           items'[k] # Gone /\ (~IsPicture(job'[i].path) => items'[k].name = job'[i].path.name)
    BY <1>0, <1>8, <2>1, NotCrossed
  <2>7. Written(k)'
    <3>1. \A i \in Jobs : Writes(job'[i], k) => i = j
      BY <2>2 DEF InHand
    <3>2. Temp(job'[j].path) = temp /\ job'[j].file = f /\ job'[j].at = "fill"
      BY <1>3, <1>4, <1>b
    <3>3. temp \in DOMAIN disk' /\ disk'[temp] = f /\ content'[f] = Empty
      BY <1>5
    <3> QED BY <2>6, <3>1, <3>2, <3>3 DEF Written, Holds
  <2>8. Moving(k)'
    BY <2>4 DEF Moving, Renames
  <2>9. Serves(k)'
    <3> SUFFICES ASSUME Named(k)', Beside(k)' PROVE Served(k)' = last'[k]
      BY DEF Serves
    <3>1. Named(k) /\ Beside(k)
      BY <1>0 DEF Named, IsAttachment, Live, Beside
    <3>2. Served(k) = last[k]
      BY <2>1, <2>4, <3>1 DEF Kept, Serves
    <3>3. PICK q : q = Path(k, items[k].name)
      OBVIOUS
    <3>4. q # temp
      <4>1. q.in = "storage" /\ q.name = items[k].name
        BY <3>3, PathOf
      <4> QED BY <2>1, <3>1, <4>1 DEF Beside, IsPicture, IsTarget
    <3>5. Bytes(q)' = Bytes(q)
      <4>1. CASE q \in DOMAIN disk
        BY <2>5, <3>4, <4>1
      <4>2. CASE q \notin DOMAIN disk
        BY <1>5, <3>4, <4>2 DEF Bytes, Holds
      <4> QED BY <4>1, <4>2
    <3> QED BY <1>0, <3>2, <3>3, <3>5 DEF Served
  <2>10. Waits(k)'
    <3> SUFFICES ASSUME Named(k)', last'[k] = Empty, stops' = 0 PROVE \E i \in Jobs : Writes(job'[i], k) /\ ~IsPicture(job'[i].path)
      BY DEF Waits
    <3>1. PICK i \in Jobs : Writes(job[i], k) /\ ~IsPicture(job[i].path)
      BY <1>0, <2>1 DEF Kept, Waits, Named, IsAttachment, Live
    <3>2. i = j
      BY <2>1, <3>1 DEF InHand
    <3> QED BY <1>3, <1>4, <3>1, <3>2 DEF Writes
  <2>11. Pictured(k)'
    <3> SUFFICES ASSUME NEW q \in DOMAIN disk', IsPicture(q), Len(q.name[2]) = 1, q.of = k PROVE (Live(k)' \/ k \in doomed') /\ Bytes(q)' > 0
      BY DEF Pictured
    <3>1. q # temp
      BY <2>1 DEF IsPicture
    <3>2. q \in DOMAIN disk
      BY <1>5, <3>1
    <3>3. (Live(k) \/ k \in doomed) /\ Bytes(q) > 0
      BY <2>1, <3>2 DEF Kept, Pictured
    <3> QED BY <1>0, <2>5, <3>1, <3>2, <3>3 DEF Live
  <2> QED BY <2>6, <2>7, <2>8, <2>9, <2>10, <2>11 DEF Kept
<1>9. \A x : Writes(next, x) => x = k
  BY <1>3, <1>a DEF Writes
<1>10. \A q \in DOMAIN disk \cup DOMAIN disk' : q.of # k =>
         q \in DOMAIN disk /\ q \in DOMAIN disk' /\ disk'[q] = disk[q] /\ content'[disk[q]] = content[disk[q]]
  BY <1>1, <1>5, <1>6
<1> QED BY <1>0, <1>2, <1>3, <1>7, <1>8, <1>9, <1>10, <1>a, OneWrites

\* What it holds open is filled.
LEMMA FillFiles ==
  ASSUME Shape, FilesInv, History, NEW j \in Jobs, Fill(j)
  PROVE  FilesInv'
<1>a. PICK k : k = job[j].path.of
  OBVIOUS
<1>b. PICK temp : temp = Temp(job[j].path)
  OBVIOUS
<1>c. PICK f : f = job[j].file
  OBVIOUS
<1>d. PICK next : next = [job[j] EXCEPT !.at = "swap"]
  OBVIOUS
<1>0. /\ job[j].at = "fill" /\ UNCHANGED <<items, disk, wanted, doomed, writes, acts, stops, last>>
      /\ DOMAIN job[j] = JobFields /\ IsTarget(job[j].path, Len(items)) /\ Len(items) \in Nat /\ job[j].for # "names"
      /\ DOMAIN content = 1 .. Len(content) /\ f \in DOMAIN content /\ \A q \in DOMAIN disk : disk[q] \in DOMAIN content
      /\ job[j].bytes \in Nat \ {0}
  BY Counts, <1>c DEF Fill, Shape, IsJob
<1>1. temp.of = k
  BY <1>0, <1>a, <1>b, TempIsBeside
<1>2. Go(j, next)
  BY <1>d DEF Fill
<1>3. /\ next.at = "swap" /\ next.file = f /\ next.path = job[j].path /\ next.for = job[j].for /\ next.bytes = job[j].bytes
  BY <1>0, <1>c, <1>d DEF JobFields
<1>4. DOMAIN job' = Jobs /\ job'[j] = next /\ \A i \in Jobs : i # j => job'[i] = job[i]
  BY <1>2, OneGoes DEF Shape, Go
\* The bytes after the step: nothing but what it holds open is another, and that
\* lies under no other key.
<1>5. /\ content[f] = Empty => content'[f] = job[j].bytes
      /\ \A g \in DOMAIN content : g # f => content'[g] = content[g]
  <2>1. content' = [content EXCEPT ![f] = IF @ \in {Empty, job[j].bytes} THEN job[j].bytes ELSE Mixed]
    BY <1>c DEF Fill
  <2> QED BY <1>0, <2>1
<1>6. \A q \in DOMAIN disk : disk[q] = f => q.of = k
  BY <1>0, <1>a, <1>c DEF FilesInv, Apart
<1>7. Apart'
  <2>1. \A q, r \in DOMAIN disk : disk[q] = disk[r] => q = r
    BY DEF FilesInv, Apart
  <2>2. ASSUME NEW i \in Jobs, job'[i].at = "fill", NEW q \in DOMAIN disk, disk[q] = job'[i].file PROVE q.of = job'[i].path.of
    <3>1. i # j
      BY <1>3, <1>4, <2>2
    <3> QED BY <1>4, <2>2, <3>1 DEF FilesInv, Apart
  <2> QED BY <1>0, <2>1, <2>2 DEF Apart
<1>8. ASSUME k \notin crossed' PROVE Kept(k)'
  <2>1. /\ k \in DOMAIN items /\ Kept(k) /\ Writes(job[j], k) /\ items[k] # Gone
        /\ \A i \in Jobs : i # j => ~InHand(job[i], k)
        /\ IsPicture(job[j].path) => Len(temp.name[2]) = 2
        /\ ~IsPicture(job[j].path) => temp.name[2] = <<"part">>
        /\ temp.in = job[j].path.in
    BY <1>0, <1>8, <1>a, <1>b, WritesAlone
  <2>2. \A i \in Jobs : InHand(job'[i], k) => i = j
    BY <1>4, <2>1
  <2>3. ~Renames(job'[j], k) /\ ~Renames(job[j], k) /\ ~Moved(job[j], k)
    BY <1>0, <1>3, <1>4 DEF Renames, Moved
  <2>4. \A i \in Jobs : ~Renames(job'[i], k) /\ ~Moved(job[i], k)
    BY <2>1, <2>2, <2>3 DEF InHand, Renames, Moved
  <2>5. temp \in DOMAIN disk /\ disk[temp] = f /\ content[f] = Empty
    BY <1>0, <1>b, <1>c, <2>1 DEF Kept, Written, Holds
  <2>6. \A q : q # temp => Bytes(q)' = Bytes(q)
    <3>1. \A q \in DOMAIN disk : q # temp => disk[q] # f
      BY <2>5 DEF FilesInv, Apart
    <3> QED BY <1>0, <1>5, <3>1 DEF Bytes, Holds
  <2>7. Alone(k)' /\ \A i \in Jobs : Writes(job'[i], k) =>
           items'[k] # Gone /\ (~IsPicture(job'[i].path) => items'[k].name = job'[i].path.name)
    BY <1>0, <1>8, <2>1, NotCrossed
  <2>8. Written(k)'
    <3>1. \A i \in Jobs : Writes(job'[i], k) => i = j
      BY <2>2 DEF InHand
    <3>2. Temp(job'[j].path) = temp /\ job'[j].file = f /\ job'[j].at = "swap" /\ job'[j].bytes = job[j].bytes
      BY <1>3, <1>4, <1>b
    <3>3. temp \in DOMAIN disk' /\ disk'[temp] = f /\ content'[f] = job[j].bytes
      BY <1>0, <1>5, <2>5
    <3> QED BY <2>7, <3>1, <3>2, <3>3 DEF Written, Holds
  <2>9. Moving(k)'
    BY <2>4 DEF Moving, Renames
  <2>10. Serves(k)'
    <3> SUFFICES ASSUME Named(k)', Beside(k)' PROVE Served(k)' = last'[k]
      BY DEF Serves
    <3>1. Named(k) /\ Beside(k)
      BY <1>0 DEF Named, IsAttachment, Live, Beside
    <3>2. Served(k) = last[k]
      BY <2>1, <2>4, <3>1 DEF Kept, Serves
    <3>3. PICK q : q = Path(k, items[k].name)
      OBVIOUS
    <3>4. q # temp
      <4>1. q.in = "storage" /\ q.name = items[k].name
        BY <3>3, PathOf
      <4> QED BY <2>1, <3>1, <4>1 DEF Beside, IsPicture, IsTarget
    <3> QED BY <1>0, <2>6, <3>2, <3>3, <3>4 DEF Served
  <2>11. Waits(k)'
    <3> SUFFICES ASSUME Named(k)', last'[k] = Empty, stops' = 0 PROVE \E i \in Jobs : Writes(job'[i], k) /\ ~IsPicture(job'[i].path)
      BY DEF Waits
    <3>1. PICK i \in Jobs : Writes(job[i], k) /\ ~IsPicture(job[i].path)
      BY <1>0, <2>1 DEF Kept, Waits, Named, IsAttachment, Live
    <3>2. i = j
      BY <2>1, <3>1 DEF InHand
    <3> QED BY <1>3, <1>4, <3>1, <3>2 DEF Writes
  <2>12. Pictured(k)'
    <3> SUFFICES ASSUME NEW q \in DOMAIN disk', IsPicture(q), Len(q.name[2]) = 1, q.of = k PROVE (Live(k)' \/ k \in doomed') /\ Bytes(q)' > 0
      BY DEF Pictured
    <3>1. q # temp
      BY <2>1 DEF IsPicture
    <3>2. (Live(k) \/ k \in doomed) /\ Bytes(q) > 0
      BY <1>0, <2>1 DEF Kept, Pictured
    <3> QED BY <1>0, <2>6, <3>1, <3>2 DEF Live
  <2> QED BY <2>7, <2>8, <2>9, <2>10, <2>11, <2>12 DEF Kept
<1>9. \A x : Writes(next, x) => x = k
  BY <1>3, <1>a DEF Writes
<1>10. \A q \in DOMAIN disk \cup DOMAIN disk' : q.of # k =>
         q \in DOMAIN disk /\ q \in DOMAIN disk' /\ disk'[q] = disk[q] /\ content'[disk[q]] = content[disk[q]]
  BY <1>0, <1>5, <1>6
<1> QED BY <1>0, <1>2, <1>3, <1>7, <1>8, <1>9, <1>10, <1>a, OneWrites

\* A file under another name, over what is there: what else there is stays.
LEMMA OverTheOther ==
  ASSUME Apart, NEW from \in DOMAIN disk, NEW to, to.of = from.of,
         disk' = [q \in (DOMAIN disk \ {from}) \cup {to} |-> IF q = to THEN disk[from] ELSE disk[q]], content' = content,
         \A i \in Jobs : job'[i] = job[i] \/ job'[i].at # "fill"
  PROVE  /\ Apart'
         /\ Bytes(to)' = Bytes(from) /\ to \in DOMAIN disk'
         /\ \A q \in DOMAIN disk' : q # to => q \in DOMAIN disk
         /\ \A q : q \notin {from, to} => (q \in DOMAIN disk <=> q \in DOMAIN disk') /\ Bytes(q)' = Bytes(q)
         /\ \A q \in DOMAIN disk : q \notin {from, to} => disk'[q] = disk[q]
<1>1. Apart'
  <2>1. ASSUME NEW q \in DOMAIN disk', NEW r \in DOMAIN disk', disk'[q] = disk'[r] PROVE q = r
    BY <2>1 DEF Apart
  <2>2. ASSUME NEW i \in Jobs, job'[i].at = "fill", NEW q \in DOMAIN disk', disk'[q] = job'[i].file PROVE q.of = job'[i].path.of
    BY <2>2 DEF Apart
  <2> QED BY <2>1, <2>2 DEF Apart
<1> QED BY <1>1 DEF Bytes, Holds

\* What was written takes the place of what is served.
LEMMA SwapFiles ==
  ASSUME Shape, FilesInv, History, NEW j \in Jobs, Swap(j)
  PROVE  FilesInv'
<1>a. PICK path : path = job[j].path
  OBVIOUS
<1>b. PICK temp : temp = Temp(path)
  OBVIOUS
<1>c. PICK k : k = path.of
  OBVIOUS
<1>d. PICK next : next = Attached(j)
  OBVIOUS
<1>0. /\ job[j].at = "swap" /\ UNCHANGED <<items, content, wanted, doomed, writes, acts, stops>>
      /\ DOMAIN job[j] = JobFields /\ IsTarget(path, Len(items)) /\ Len(items) \in Nat /\ job[j].for # "names"
      /\ job[j].bytes \in Nat \ {0}
  BY Counts, <1>a DEF Swap, Shape, IsJob
<1>1. temp.of = k /\ k \in DOMAIN last
  BY <1>0, <1>b, <1>c, TempIsBeside, Counts DEF IsTarget, IsPath
<1>2. Go(j, next)
  BY <1>d DEF Swap
<1>3. OffHand(next) /\ Begins(next) /\ next.for # "names" /\ next.at \notin {"open", "fill", "swap"}
  BY <1>0, <1>d DEF OffHand, Begins, Attached, Idle, JobFields
<1>4. DOMAIN job' = Jobs /\ job'[j] = next /\ \A i \in Jobs : i # j => job'[i] = job[i]
  BY <1>2, OneGoes DEF Shape, Go
<1>5. CASE Holds(temp)
  <2>1. /\ disk' = [q \in (DOMAIN disk \ {temp}) \cup {path} |-> IF q = path THEN disk[temp] ELSE disk[q]]
        /\ last' = IF IsPicture(path) THEN last ELSE [last EXCEPT ![k] = job[j].bytes]
        /\ temp \in DOMAIN disk /\ path.of = temp.of
    BY <1>1, <1>5, <1>a, <1>b, <1>c DEF Swap, Holds
  <2>2. \A i \in Jobs : job'[i] = job[i] \/ job'[i].at # "fill"
    BY <1>3, <1>4 DEF Begins
  <2>3. /\ Apart' /\ Bytes(path)' = Bytes(temp) /\ path \in DOMAIN disk'
        /\ \A q \in DOMAIN disk' : q # path => q \in DOMAIN disk
        /\ \A q : q \notin {temp, path} => (q \in DOMAIN disk <=> q \in DOMAIN disk') /\ Bytes(q)' = Bytes(q)
        /\ \A q \in DOMAIN disk : q \notin {temp, path} => disk'[q] = disk[q]
    BY <1>0, <2>1, <2>2, OverTheOther DEF FilesInv
  <2>4. ASSUME k \notin crossed' PROVE Kept(k)'
    <3>1. /\ k \in DOMAIN items /\ Kept(k) /\ Writes(job[j], k) /\ items[k] # Gone
          /\ (~IsPicture(path) => items[k].name = path.name)
          /\ \A i \in Jobs : i # j => ~InHand(job[i], k)
          /\ IsPicture(path) => Len(temp.name[2]) = 2
          /\ ~IsPicture(path) => temp.name[2] = <<"part">>
          /\ temp.in = path.in
      BY <1>0, <2>4, <1>a, <1>b, <1>c, WritesAlone
    <3>2. \A i \in Jobs : ~InHand(job'[i], k)
      BY <1>3, <1>4, <3>1, OffHandHasNone
    <3>3. \A i \in Jobs : ~Writes(job'[i], k) /\ ~Renames(job'[i], k) /\ ~Moved(job[i], k)
      <4>1. ~Moved(job[j], k)
        BY <1>0 DEF Moved
      <4> QED BY <3>1, <3>2, <4>1 DEF InHand, Renames, Moved
    <3>4. Bytes(temp) = job[j].bytes
      BY <1>0, <1>5, <1>a, <1>b, <3>1 DEF Kept, Written, Bytes
    <3>5. Alone(k)' /\ Written(k)' /\ Moving(k)'
      BY <3>2, <3>3 DEF Alone, Written, Moving, Renames
    <3>6. Named(k)' = Named(k) /\ Beside(k)' = Beside(k) /\ Live(k)' = Live(k) /\ Live(k)
      <4>1. items[k].type # "gone"
        BY <3>1 DEF Shape, IsItem
      <4> QED BY <1>0, <3>1, <4>1 DEF Named, IsAttachment, Live, Beside
    <3>7. CASE IsPicture(path)
      <4>1. last' = last
        BY <2>1, <3>7
      <4>2. PICK served : served = Path(k, items[k].name)
        OBVIOUS
      <4>3. Bytes(served)' = Bytes(served)
        <5>1. served.in = "storage" /\ path.in = "cache" /\ temp.in = "cache"
          BY <3>1, <3>7, <4>2, PathOf DEF IsPicture
        <5>2. served \notin {temp, path}
          BY <5>1
        <5> QED BY <2>3, <5>2
      <4>4. Served(k)' = Served(k)
        BY <1>0, <4>2, <4>3 DEF Served
      <4>5. Serves(k)'
        BY <3>1, <3>3, <3>6, <4>1, <4>4 DEF Kept, Serves
      <4>6. Waits(k)'
        <5>1. \A i \in Jobs : Writes(job[i], k) => i = j
          BY <3>1 DEF InHand
        <5>2. ~(Named(k) /\ last[k] = Empty /\ stops = 0)
          BY <3>1, <3>7, <1>a, <5>1 DEF Kept, Waits
        <5> QED BY <1>0, <3>6, <4>1, <5>2 DEF Waits
      <4>7. Pictured(k)'
        <5> SUFFICES ASSUME NEW q \in DOMAIN disk', IsPicture(q), Len(q.name[2]) = 1, q.of = k PROVE (Live(k)' \/ k \in doomed') /\ Bytes(q)' > 0
          BY DEF Pictured
        <5>1. CASE q = path
          BY <1>0, <2>3, <3>4, <3>6, <5>1
        <5>2. CASE q # path
          <6>1. q # temp
            BY <3>1, <3>7
          <6>2. Bytes(q) > 0 /\ Bytes(q)' = Bytes(q)
            BY <2>3, <3>1, <5>2, <6>1 DEF Kept, Pictured
          <6> QED BY <3>6, <6>2
        <5> QED BY <5>1, <5>2
      <4> QED BY <3>5, <4>5, <4>6, <4>7 DEF Kept
    <3>8. CASE ~IsPicture(path)
      <4>1. last'[k] = job[j].bytes
        BY <1>1, <2>1, <3>8
      <4>2. path = Path(k, items[k].name)
        <5>1. path = [in |-> path.in, of |-> path.of, name |-> <<path.name[1], path.name[2]>>]
              /\ path.in = "storage" /\ path.name = <<path.name[1], path.name[2]>>
          BY <1>0, <3>8 DEF IsTarget, IsPath, IsPicture
        <5> QED BY <1>c, <3>1, <3>8, <5>1 DEF Path
      <4>3. Served(k)' = job[j].bytes
        BY <1>0, <2>3, <3>4, <4>2 DEF Served
      <4>4. Serves(k)' /\ Waits(k)'
        BY <1>0, <4>1, <4>3 DEF Serves, Waits, Empty
      <4>5. Pictured(k)'
        <5> SUFFICES ASSUME NEW q \in DOMAIN disk', IsPicture(q), Len(q.name[2]) = 1, q.of = k PROVE (Live(k)' \/ k \in doomed') /\ Bytes(q)' > 0
          BY DEF Pictured
        <5>1. q \notin {temp, path}
          BY <3>1, <3>8 DEF IsPicture
        <5>2. Bytes(q) > 0 /\ Bytes(q)' = Bytes(q)
          BY <2>3, <3>1, <5>1 DEF Kept, Pictured
        <5> QED BY <3>6, <5>2
      <4> QED BY <3>5, <4>4, <4>5 DEF Kept
    <3> QED BY <3>7, <3>8
  <2>5. \A q \in DOMAIN disk \cup DOMAIN disk' : q.of # k =>
         q \in DOMAIN disk /\ q \in DOMAIN disk' /\ disk'[q] = disk[q] /\ content'[disk[q]] = content[disk[q]]
    BY <1>0, <1>1, <1>c, <2>3
  <2>6. \A x \in DOMAIN items : x # k => last'[x] = last[x]
    BY <2>1
  <2>7. \A x : Writes(next, x) => x = k
    BY <1>3 DEF Writes
  <2> QED BY <1>0, <1>2, <1>3, <1>a, <1>c, <2>3, <2>4, <2>5, <2>6, <2>7, OneWrites
\* There is nothing beside any more, so two had it in hand.
<1>6. CASE ~Holds(temp)
  <2>1. disk' = disk /\ last' = last
    BY <1>6, <1>a, <1>b DEF Swap
  <2>2. k \in crossed'
    <3> SUFFICES ASSUME k \notin crossed' PROVE FALSE
      OBVIOUS
    <3>1. Kept(k) /\ Writes(job[j], k)
      BY <1>0, <1>a, <1>c, WritesAlone
    <3> QED BY <1>0, <1>6, <1>a, <1>b, <3>1 DEF Kept, Written
  <2>3. Apart'
    <3>1. ASSUME NEW i \in Jobs, job'[i].at = "fill" PROVE job'[i] = job[i]
      BY <1>3, <1>4, <3>1
    <3> QED BY <2>1, <3>1 DEF FilesInv, Apart
  <2>4. \A x : Writes(next, x) => x = k
    BY <1>3 DEF Writes
  <2> QED BY <1>0, <1>2, <1>3, <1>a, <1>c, <2>1, <2>2, <2>3, <2>4, OneWrites
<1> QED BY <1>5, <1>6

\* A rename that goes on leaves a key as it was kept, when what it still plans
\* and has moved is right about it.
LEMMA ReplannedKept ==
  ASSUME Shape, History, NEW k, k \notin crossed', Kept(k), Undisturbed(k),
         NEW j \in Jobs, NEW next, Go(j, next), ~Writes(job[j], k), ~Writes(next, k), Moved(job[j], k) <=> Moved(next, k),
         Named(k) /\ next.for = "names" => \A m \in ToSet(next.todo) \cup next.moved : m.key = k =>
           m.from = Path(k, items[k].name) /\ m.to.name[2] = items[k].name[2],
         Named(k) /\ Beside(k) /\ next.for = "names" => \A m \in next.moved : m.key = k => Bytes(m.to) = last[k] /\ m.to.of = k
  PROVE  Kept(k)'
<1>0. k \in DOMAIN items /\ k \in DOMAIN items' /\ items'[k] = items[k] /\ last'[k] = last[k]
  BY DEF Undisturbed
<1>1. DOMAIN job' = Jobs /\ job'[j] = next /\ \A i \in Jobs : i # j => job'[i] = job[i]
  BY OneGoes DEF Shape, Go
<1>2. /\ Alone(k)'
      /\ \A i \in Jobs : Writes(job'[i], k) =>
           items'[k] # Gone /\ (~IsPicture(job'[i].path) => items'[k].name = job'[i].path.name)
  BY <1>0, NotCrossed
<1>3. \A i \in Jobs : Writes(job[i], k) \/ Writes(job'[i], k) => job'[i] = job[i]
  BY <1>1
<1>4. \A i \in Jobs : Moved(job'[i], k) <=> Moved(job[i], k)
  BY <1>1
<1>5. Named(k)' = Named(k) /\ Beside(k)' = Beside(k) /\ Live(k)' = Live(k)
  BY <1>0 DEF Named, IsAttachment, Live, Beside
<1>6. Written(k)'
  <2> SUFFICES ASSUME NEW i \in Jobs, Writes(job'[i], k)
               PROVE  /\ job'[i].at \in {"fill", "swap"} => Temp(job'[i].path) \in DOMAIN disk' /\ disk'[Temp(job'[i].path)] = job'[i].file
                      /\ job'[i].at = "fill" => content'[job'[i].file] = Empty
                      /\ job'[i].at = "swap" => content'[job'[i].file] = job'[i].bytes
    BY <1>2 DEF Written, Holds
  <2>1. job'[i] = job[i] /\ Writes(job[i], k)
    BY <1>3
  <2>2. PICK t : t = Temp(job[i].path)
    OBVIOUS
  <2>3. /\ job[i].at \in {"fill", "swap"} => t \in DOMAIN disk /\ disk[t] = job[i].file
        /\ job[i].at = "fill" => content[job[i].file] = Empty
        /\ job[i].at = "swap" => content[job[i].file] = job[i].bytes
    BY <2>1, <2>2 DEF Kept, Written, Holds
  <2>4. t.of = k
    <3>1. IsTarget(job[i].path, Len(items)) /\ job[i].path.of = k
      BY <2>1 DEF Shape, IsJob, Writes
    <3>2. Len(items) \in Nat
      BY Counts
    <3> QED BY <2>2, <3>1, <3>2, TempIsBeside
  <2>5. job[i].at \in {"fill", "swap"} => t \in DOMAIN disk' /\ disk'[t] = disk[t] /\ content'[disk[t]] = content[disk[t]]
    BY <2>3, <2>4 DEF Undisturbed
  <2> QED BY <2>1, <2>2, <2>3, <2>5
<1>7. Moving(k)'
  <2> SUFFICES ASSUME NEW i \in Jobs, Named(k)', job'[i].for = "names"
               PROVE  /\ \A m \in ToSet(job'[i].todo) \cup job'[i].moved : m.key = k =>
                           m.from = Path(k, items'[k].name) /\ m.to.name[2] = items'[k].name[2]
                      /\ \A m \in job'[i].moved : m.key = k /\ Beside(k)' => Bytes(m.to)' = last'[k]
    BY DEF Moving
  <2>1. \A m \in ToSet(job'[i].todo) \cup job'[i].moved : m.key = k =>
          m.from = Path(k, items[k].name) /\ m.to.name[2] = items[k].name[2]
    BY <1>1, <1>5 DEF Kept, Moving
  <2>2. ASSUME NEW m \in job'[i].moved, m.key = k, Beside(k) PROVE Bytes(m.to) = last[k] /\ m.to.of = k
    <3>1. CASE i = j
      BY <1>1, <1>5, <2>2, <3>1
    <3>2. CASE i # j
      <4>1. job'[i] = job[i]
        BY <1>1, <3>2
      <4>2. IsMove(m, Len(items))
        BY <2>2, <4>1 DEF Shape, IsJob, IsPlan
      <4> QED BY <1>5, <2>2, <4>1, <4>2 DEF Kept, Moving, IsMove
    <3> QED BY <3>1, <3>2
  <2>3. \A m \in job'[i].moved : m.key = k /\ Beside(k) => Bytes(m.to)' = Bytes(m.to)
    BY <2>2, SameBytes
  <2> QED BY <1>0, <1>5, <2>1, <2>2, <2>3
<1>8. Serves(k)'
  <2> SUFFICES ASSUME Named(k)', Beside(k)', \A i \in Jobs : ~Moved(job'[i], k) PROVE Served(k)' = last'[k]
    BY DEF Serves
  <2>1. Served(k) = last[k]
    BY <1>4, <1>5 DEF Kept, Serves
  <2>2. PICK q : q = Path(k, items[k].name)
    OBVIOUS
  <2>3. Bytes(q)' = Bytes(q)
    BY <2>2, PathOf, SameBytes
  <2> QED BY <1>0, <2>1, <2>2, <2>3 DEF Served
<1>9. Waits(k)'
  <2> SUFFICES ASSUME Named(k)', last'[k] = Empty, stops' = 0 PROVE \E i \in Jobs : Writes(job'[i], k) /\ ~IsPicture(job'[i].path)
    BY DEF Waits
  <2>1. PICK i \in Jobs : Writes(job[i], k) /\ ~IsPicture(job[i].path)
    BY <1>0, <1>5 DEF Kept, Waits, Undisturbed
  <2> QED BY <1>3, <2>1
<1>10. Pictured(k)'
  <2> SUFFICES ASSUME NEW q \in DOMAIN disk', IsPicture(q), Len(q.name[2]) = 1, q.of = k
               PROVE  (Live(k)' \/ k \in doomed') /\ Bytes(q)' > 0
    BY DEF Pictured
  <2>1. q \in DOMAIN disk
    BY DEF Undisturbed
  <2>2. (Live(k) \/ k \in doomed) /\ Bytes(q) > 0
    BY <2>1 DEF Kept, Pictured
  <2> QED BY <1>5, <2>2, SameBytes DEF Undisturbed
<1> QED BY <1>2, <1>6, <1>7, <1>8, <1>9, <1>10 DEF Kept

\* The disk stays apart when nobody begins to fill a file.
LEMMA ApartStays ==
  ASSUME Apart, UNCHANGED disk, \A i \in Jobs : job'[i].at = "fill" => job'[i] = job[i]
  PROVE  Apart'
BY DEF Apart

\* What is planned and looked for.
LEMMA PlanFiles ==
  ASSUME Shape, FilesInv, History, NEW j \in Jobs, (\E template \in Templates : Rename(j, template)) \/ LookForTarget(j)
  PROVE  FilesInv'
<1>0. /\ DOMAIN job[j] = JobFields /\ UNCHANGED <<items, disk, content, doomed, stops, last>>
      /\ job[j].for = "names" <=> job[j].at \in {"names", "move"}
  BY DEF Shape, IsJob, Rename, LookForTarget
<1>1. ASSUME NEW next, Go(j, next), next.at \in {"names", "move"}, job[j].at \in {"idle", "names"},
             \A k : Moved(job[j], k) <=> Moved(next, k),
             \A k \in DOMAIN items : Kept(k) /\ Named(k) => \A m \in ToSet(next.todo) \cup next.moved : m.key = k =>
               m.from = Path(k, items[k].name) /\ m.to.name[2] = items[k].name[2],
             \A k \in DOMAIN items : Kept(k) /\ Named(k) /\ Beside(k) => \A m \in next.moved : m.key = k => Bytes(m.to) = last[k] /\ m.to.of = k
      PROVE  FilesInv'
  <2>1. DOMAIN job' = Jobs /\ job'[j] = next /\ \A i \in Jobs : i # j => job'[i] = job[i]
    BY <1>1, OneGoes DEF Shape, Go
  <2>2. Apart'
    BY <1>0, <1>1, <2>1, ApartStays DEF FilesInv
  <2>3. ASSUME NEW k \in DOMAIN items', k \notin crossed' PROVE Kept(k)'
    <3>1. k \in DOMAIN items /\ k \notin crossed
      BY <1>0, <2>3, NotCrossed
    <3>2. Kept(k)
      BY <3>1 DEF FilesInv
    <3>3. Undisturbed(k)
      BY <1>0, <3>1 DEF Undisturbed
    <3>4. ~Writes(job[j], k) /\ ~Writes(next, k)
      BY <1>1 DEF Writes
    <3> QED BY <1>1, <2>3, <3>1, <3>2, <3>3, <3>4, ReplannedKept
  <2> QED BY <2>2, <2>3 DEF FilesInv
<1>2. ASSUME NEW template \in Templates, Rename(j, template) PROVE FilesInv'
  <2>1. PICK chosen \in SetToAllKPermutations(Changes(template)) :
          Go(j, [Idle EXCEPT !.at = "names", !.for = "names",
              !.todo = [x \in DOMAIN chosen |->
                          [key |-> chosen[x], from |-> Path(chosen[x], items[chosen[x]].name),
                           to |-> Path(chosen[x], FilenameFor(template, items[chosen[x]].parent, items[chosen[x]].name))]]])
    BY <1>2 DEF Rename
  <2>2. PICK todo : todo = [x \in DOMAIN chosen |->
                          [key |-> chosen[x], from |-> Path(chosen[x], items[chosen[x]].name),
                           to |-> Path(chosen[x], FilenameFor(template, items[chosen[x]].parent, items[chosen[x]].name))]]
    OBVIOUS
  <2>3. PICK next : next = [Idle EXCEPT !.at = "names", !.for = "names", !.todo = todo]
    OBVIOUS
  <2>4. next.at = "names" /\ next.for = "names" /\ next.todo = todo /\ next.moved = {}
    BY <2>3 DEF Idle, JobFields
  <2>5. Go(j, next)
    BY <2>1, <2>2, <2>3
  <2>6. job[j].at = "idle"
    BY <1>2 DEF Rename, Starts
  <2>7. \A k : ~Moved(job[j], k) /\ ~Moved(next, k)
    BY <1>0, <2>4, <2>6 DEF Moved
  <2>8. ASSUME NEW m \in ToSet(todo) PROVE m.from = Path(m.key, items[m.key].name) /\ m.to.name[2] = items[m.key].name[2]
    <3>1. PICK x \in DOMAIN chosen : m = todo[x]
      BY <2>2 DEF ToSet
    <3>2. PICK to : to = FilenameFor(template, items[chosen[x]].parent, items[chosen[x]].name)
      OBVIOUS
    <3>3. m = [key |-> chosen[x], from |-> Path(chosen[x], items[chosen[x]].name), to |-> Path(chosen[x], to)]
      BY <2>2, <3>1, <3>2
    <3>4. to[2] = items[chosen[x]].name[2]
      BY <3>2 DEF FilenameFor
    <3> QED BY <3>3, <3>4, PathOf
  <2> QED BY <1>1, <2>4, <2>5, <2>6, <2>7, <2>8
<1>3. CASE LookForTarget(j)
  <2>1. job[j].at = "names" /\ job[j].todo # <<>> /\ job[j].for = "names" /\ IsPlan(job[j], Len(items))
    BY <1>0, <1>3 DEF LookForTarget, Shape, IsJob
  <2>2. ToSet(Tail(job[j].todo)) \subseteq ToSet(job[j].todo)
    BY <2>1, WithoutFirst DEF IsPlan
  <2>3. PICK next : /\ Go(j, next) /\ next.at \in {"names", "move"} /\ next.for = "names" /\ next.moved = job[j].moved
                    /\ ToSet(next.todo) \subseteq ToSet(job[j].todo)
    <3>1. \/ Go(j, [job[j] EXCEPT !.todo = Tail(@)])
          \/ Go(j, [job[j] EXCEPT !.at = "move"])
      BY <1>3 DEF LookForTarget
    <3>2. CASE Go(j, [job[j] EXCEPT !.todo = Tail(@)])
      <4>1. PICK next : next = [job[j] EXCEPT !.todo = Tail(@)]
        OBVIOUS
      <4>2. next.at = "names" /\ next.for = "names" /\ next.moved = job[j].moved /\ next.todo = Tail(job[j].todo)
        BY <1>0, <2>1, <4>1 DEF JobFields
      <4> QED BY <2>2, <3>2, <4>1, <4>2
    <3>3. CASE Go(j, [job[j] EXCEPT !.at = "move"])
      <4>1. PICK next : next = [job[j] EXCEPT !.at = "move"]
        OBVIOUS
      <4>2. next.at = "move" /\ next.for = "names" /\ next.moved = job[j].moved /\ next.todo = job[j].todo
        BY <1>0, <2>1, <4>1 DEF JobFields
      <4> QED BY <3>3, <4>1, <4>2
    <3> QED BY <3>1, <3>2, <3>3
  <2>4. \A k : Moved(job[j], k) <=> Moved(next, k)
    BY <2>1, <2>3 DEF Moved
  <2>5. ASSUME NEW k \in DOMAIN items, Kept(k), Named(k)
        PROVE  \A m \in ToSet(next.todo) \cup next.moved : m.key = k =>
                 m.from = Path(k, items[k].name) /\ m.to.name[2] = items[k].name[2]
    BY <2>1, <2>3, <2>5 DEF Kept, Moving
  <2>6. ASSUME NEW k \in DOMAIN items, Kept(k), Named(k), Beside(k), NEW m \in next.moved, m.key = k
        PROVE  Bytes(m.to) = last[k] /\ m.to.of = k
    <3>1. IsMove(m, Len(items))
      BY <2>1, <2>3, <2>6 DEF IsPlan
    <3> QED BY <2>1, <2>3, <2>6, <3>1 DEF Kept, Moving, IsMove
  <2> QED BY <1>1, <2>1, <2>3, <2>4, <2>5, <2>6
<1> QED BY <1>2, <1>3

\* A file gets its new name.
LEMMA MoveFiles ==
  ASSUME Shape, FilesInv, History, NEW j \in Jobs, MoveFile(j)
  PROVE  FilesInv'
<1>a. PICK move : move = Head(job[j].todo)
  OBVIOUS
<1>b. PICK km : km = move.key
  OBVIOUS
<1>0. /\ job[j].at = "move" /\ DOMAIN job[j] = JobFields /\ UNCHANGED <<items, content, doomed, stops, last>>
      /\ job[j].for = "names" /\ IsPlan(job[j], Len(items)) /\ job[j].todo # <<>>
  BY DEF MoveFile, Shape, IsJob, IsPlan
<1>1. /\ move \in ToSet(job[j].todo) /\ IsMove(move, Len(items)) /\ ToSet(Tail(job[j].todo)) \subseteq ToSet(job[j].todo)
      /\ \A m \in ToSet(Tail(job[j].todo)) \cup job[j].moved : m.key # km
      /\ \A m \in job[j].moved : IsMove(m, Len(items))
  <2>1. /\ move = job[j].todo[1] /\ 1 \in DOMAIN job[j].todo /\ ToSet(job[j].todo) = {move} \cup ToSet(Tail(job[j].todo))
        /\ DOMAIN Tail(job[j].todo) = 1 .. Len(job[j].todo) - 1 /\ Len(job[j].todo) \in Nat \ {0}
        /\ \A x \in 1 .. Len(job[j].todo) - 1 : Tail(job[j].todo)[x] = job[j].todo[x + 1]
    BY <1>0, <1>a, WithoutFirst DEF IsPlan
  <2>2. DOMAIN job[j].todo = 1 .. Len(job[j].todo)
    BY <1>0 DEF IsPlan
  <2>3. \A x \in 1 .. Len(job[j].todo) - 1 : x + 1 \in DOMAIN job[j].todo /\ x + 1 # 1
    BY <2>1, <2>2
  <2>4. \A x \in DOMAIN Tail(job[j].todo) : Tail(job[j].todo)[x].key # km
    BY <1>0, <1>b, <2>1, <2>3 DEF IsPlan
  <2> QED BY <1>0, <1>b, <2>1, <2>4 DEF IsPlan, ToSet
<1>2. PICK next : /\ Go(j, next) /\ next.at = "names" /\ next.for = "names" /\ next.todo = Tail(job[j].todo)
                  /\ next.moved = IF Holds(move.from) THEN job[j].moved \cup {move} ELSE job[j].moved
  <2>1. CASE Holds(move.from)
    <3>1. PICK next : next = [job[j] EXCEPT !.at = "names", !.todo = Tail(@), !.moved = @ \cup {move}]
      OBVIOUS
    <3>2. Go(j, next)
      BY <1>a, <2>1, <3>1 DEF MoveFile
    <3>3. next.at = "names" /\ next.for = "names" /\ next.todo = Tail(job[j].todo) /\ next.moved = job[j].moved \cup {move}
      BY <1>0, <3>1 DEF JobFields
    <3> QED BY <2>1, <3>2, <3>3
  <2>2. CASE ~Holds(move.from)
    <3>1. PICK next : next = [job[j] EXCEPT !.at = "names", !.todo = Tail(@)]
      OBVIOUS
    <3>2. Go(j, next)
      BY <1>a, <2>2, <3>1 DEF MoveFile
    <3>3. next.at = "names" /\ next.for = "names" /\ next.todo = Tail(job[j].todo) /\ next.moved = job[j].moved
      BY <1>0, <3>1 DEF JobFields
    <3> QED BY <2>2, <3>2, <3>3
  <2> QED BY <2>1, <2>2
<1>3. DOMAIN job' = Jobs /\ job'[j] = next /\ \A i \in Jobs : i # j => job'[i] = job[i]
  BY <1>2, OneGoes DEF Shape, Go
<1>4. \A k : ~Writes(job[j], k) /\ ~Writes(next, k)
  BY <1>0, <1>2 DEF Writes
<1>5. move.from.of = km /\ move.to.of = km /\ move.from.in = "storage" /\ move.to.in = "storage" /\ move.from # move.to
  BY <1>1, <1>b DEF IsMove
\* What it plans for a key that was kept, and has moved for all but this one.
<1>6. ASSUME NEW k \in DOMAIN items, Kept(k), Named(k)
      PROVE  /\ \A m \in ToSet(next.todo) \cup next.moved : m.key = k =>
                  m.from = Path(k, items[k].name) /\ m.to.name[2] = items[k].name[2]
             /\ \A m \in job[j].moved : m.key = k /\ Beside(k) => Bytes(m.to) = last[k] /\ m.to.of = k
    <2>1. \A m \in ToSet(job[j].todo) \cup job[j].moved : m.key = k =>
            m.from = Path(k, items[k].name) /\ m.to.name[2] = items[k].name[2]
      BY <1>0, <1>6 DEF Kept, Moving
    <2>2. \A m \in job[j].moved : m.key = k /\ Beside(k) => Bytes(m.to) = last[k]
      BY <1>0, <1>6 DEF Kept, Moving
    <2> QED BY <1>1, <1>2, <2>1, <2>2 DEF IsMove
<1>7. CASE ~Holds(move.from)
  <2>1. disk' = disk /\ next.moved = job[j].moved
    BY <1>2, <1>7, <1>a DEF MoveFile
  <2>2. Apart'
    BY <1>2, <1>3, <2>1, ApartStays DEF FilesInv
  <2>3. \A k : Moved(job[j], k) <=> Moved(next, k)
    BY <1>0, <1>2, <2>1 DEF Moved
  <2>4. ASSUME NEW k \in DOMAIN items', k \notin crossed' PROVE Kept(k)'
    <3>1. k \in DOMAIN items /\ k \notin crossed
      BY <1>0, <2>4, NotCrossed
    <3>2. Kept(k)
      BY <3>1 DEF FilesInv
    <3>3. Undisturbed(k)
      BY <1>0, <2>1, <3>1 DEF Undisturbed
    <3> QED BY <1>2, <1>4, <1>6, <2>1, <2>3, <2>4, <3>1, <3>2, <3>3, ReplannedKept
  <2> QED BY <2>2, <2>4 DEF FilesInv
<1>8. CASE Holds(move.from)
  <2>1. /\ disk' = [q \in (DOMAIN disk \ {move.from}) \cup {move.to} |-> IF q = move.to THEN disk[move.from] ELSE disk[q]]
        /\ move.from \in DOMAIN disk /\ next.moved = job[j].moved \cup {move}
    BY <1>2, <1>8, <1>a DEF MoveFile, Holds
  <2>2. \A i \in Jobs : job'[i] = job[i] \/ job'[i].at # "fill"
    BY <1>2, <1>3
  <2>3. /\ Apart' /\ Bytes(move.to)' = Bytes(move.from) /\ move.to \in DOMAIN disk'
        /\ \A q \in DOMAIN disk' : q # move.to => q \in DOMAIN disk
        /\ \A q : q \notin {move.from, move.to} => (q \in DOMAIN disk <=> q \in DOMAIN disk') /\ Bytes(q)' = Bytes(q)
        /\ \A q \in DOMAIN disk : q \notin {move.from, move.to} => disk'[q] = disk[q]
    BY <1>0, <1>5, <2>1, <2>2, OverTheOther DEF FilesInv
  <2>4. ASSUME NEW k \in DOMAIN items', k \notin crossed', k # km PROVE Kept(k)'
    <3>1. k \in DOMAIN items /\ k \notin crossed
      BY <1>0, <2>4, NotCrossed
    <3>2. Kept(k)
      BY <3>1 DEF FilesInv
    <3>3. Undisturbed(k)
      BY <1>0, <1>5, <2>3, <2>4, <3>1 DEF Undisturbed
    <3>4. Moved(job[j], k) <=> Moved(next, k)
      BY <1>0, <1>2, <1>b, <2>1, <2>4 DEF Moved
    <3>5. \A m \in next.moved : m.key = k => m \in job[j].moved
      BY <1>b, <2>1, <2>4
    <3> QED BY <1>2, <1>4, <1>6, <2>4, <3>1, <3>2, <3>3, <3>4, <3>5, ReplannedKept
  <2>5. ASSUME km \in DOMAIN items', km \notin crossed' PROVE Kept(km)'
    <3>1. km \in DOMAIN items /\ km \notin crossed /\ Alone(km)'
      BY <1>0, <2>5, NotCrossed
    <3>2. Kept(km)
      BY <3>1 DEF FilesInv
    <3>3. Renames(job[j], km) /\ Renames(job'[j], km) /\ Moved(job'[j], km)
      BY <1>0, <1>1, <1>2, <1>3, <1>b, <2>1 DEF Renames, Moved
    <3>4. \A i \in Jobs : i # j => ~InHand(job[i], km)
      BY <3>2, <3>3 DEF Kept, Alone, InHand
    <3>5. \A i \in Jobs : ~Writes(job'[i], km) /\ ~Writes(job[i], km) /\ (i # j => ~Renames(job'[i], km))
      BY <1>3, <1>4, <3>4 DEF InHand
    <3>6. Named(km)' = Named(km) /\ Beside(km)' = Beside(km) /\ Live(km)' = Live(km)
      BY <1>0 DEF Named, IsAttachment, Live, Beside
    <3>7. Written(km)' /\ Serves(km)'
      BY <3>3, <3>5 DEF Written, Serves
    <3>8. Moving(km)'
      <4> SUFFICES ASSUME NEW i \in Jobs, Named(km)', job'[i].for = "names"
                   PROVE  /\ \A m \in ToSet(job'[i].todo) \cup job'[i].moved : m.key = km =>
                               m.from = Path(km, items'[km].name) /\ m.to.name[2] = items'[km].name[2]
                          /\ \A m \in job'[i].moved : m.key = km /\ Beside(km)' => Bytes(m.to)' = last'[km]
        BY DEF Moving
      <4>1. CASE i # j
        BY <3>5, <4>1 DEF Renames
      <4>2. CASE i = j
        <5>1. \A m \in ToSet(next.todo) \cup next.moved : m.key = km => m.from = Path(km, items[km].name) /\ m.to.name[2] = items[km].name[2]
          BY <1>6, <3>1, <3>2, <3>6
        <5>2. ASSUME Beside(km), NEW m \in next.moved, m.key = km PROVE Bytes(m.to)' = last[km]
          <6>1. m = move
            BY <1>1, <2>1, <5>2
          <6>2. move.from = Path(km, items[km].name)
            BY <1>b, <2>1, <5>1
          <6>3. \A h \in Jobs : ~Moved(job[h], km)
            <7>1. ~Moved(job[j], km)
              BY <1>1 DEF Moved
            <7> QED BY <3>4, <7>1 DEF InHand, Renames, Moved
          <6>4. Bytes(move.from) = last[km]
            BY <3>2, <3>6, <5>2, <6>2, <6>3 DEF Kept, Serves, Served
          <6> QED BY <2>3, <6>1, <6>4
        <5> QED BY <1>0, <1>3, <3>6, <4>2, <5>1, <5>2
      <4> QED BY <4>1, <4>2
    <3>9. Waits(km)'
      BY <1>0, <3>2, <3>5, <3>6 DEF Kept, Waits
    <3>10. Pictured(km)'
      <4> SUFFICES ASSUME NEW q \in DOMAIN disk', IsPicture(q), Len(q.name[2]) = 1, q.of = km PROVE (Live(km)' \/ km \in doomed') /\ Bytes(q)' > 0
        BY DEF Pictured
      <4>1. q \notin {move.from, move.to}
        BY <1>5 DEF IsPicture
      <4>2. q \in DOMAIN disk /\ Bytes(q)' = Bytes(q)
        BY <2>3, <4>1
      <4> QED BY <1>0, <3>2, <3>6, <4>2 DEF Kept, Pictured
    <3> QED BY <3>1, <3>7, <3>8, <3>9, <3>10 DEF Kept
  <2> QED BY <2>3, <2>4, <2>5 DEF FilesInv
<1> QED BY <1>7, <1>8

\* The names are written down.
LEMMA RecordFiles ==
  ASSUME Shape, FilesInv, History, NEW j \in Jobs, RecordNames(j)
  PROVE  FilesInv'
<1>0. /\ job[j].at = "names" /\ job[j].todo = <<>> /\ job[j].for = "names" /\ Go(j, Idle)
      /\ UNCHANGED <<disk, content, doomed, stops, last>>
      /\ items' = [k \in DOMAIN items |-> Recorded(j, k)] /\ IsPlan(job[j], Len(items))
  BY DEF RecordNames, Shape, IsJob
<1>1. DOMAIN job' = Jobs /\ job'[j] = Idle /\ \A i \in Jobs : i # j => job'[i] = job[i]
  BY <1>0, OneGoes DEF Shape, Go
<1>2. \A k : ~Writes(job[j], k) /\ ~Writes(Idle, k) /\ ~Renames(Idle, k) /\ ~Moved(Idle, k) /\ ~InHand(Idle, k)
  BY <1>0 DEF Writes, Renames, Moved, Idle, InHand
<1>3. \A k : Renames(job[j], k) <=> \E m \in job[j].moved : m.key = k
  BY <1>0 DEF Renames, ToSet
<1>4. Apart'
  BY <1>0, <1>1, ApartStays DEF FilesInv, Idle
<1>5. ASSUME NEW k \in DOMAIN items', k \notin crossed' PROVE Kept(k)'
  <2>1. k \in DOMAIN items /\ k \notin crossed /\ Alone(k)' /\ items'[k] = Recorded(j, k)
    BY <1>0, <1>5, NotCrossed
  <2>2. Kept(k)
    BY <2>1 DEF FilesInv
  <2>3. CASE ~Renames(job[j], k)
    <3>1. items'[k] = items[k]
      BY <1>3, <2>1, <2>3 DEF Recorded
    <3>2. Undisturbed(k)
      BY <1>0, <2>1, <3>1 DEF Undisturbed
    <3>3. \A i \in Jobs : Steady(job[i], job'[i], k)
      BY <1>1, <1>2, <2>3 DEF Steady, InHand
    <3> QED BY <1>5, <2>2, <3>2, <3>3, StaysKept
  <2>4. CASE Renames(job[j], k)
    <3>1. \A i \in Jobs : i # j => ~InHand(job[i], k)
      BY <2>2, <2>4 DEF Kept, Alone, InHand
    <3>2. \A i \in Jobs : ~InHand(job'[i], k)
      BY <1>1, <1>2, <3>1
    <3>3. \A i \in Jobs : ~Writes(job'[i], k) /\ ~Renames(job'[i], k) /\ ~Writes(job[i], k)
      BY <1>2, <3>1, <3>2 DEF InHand
    <3>4. Written(k)' /\ Moving(k)'
      BY <3>3 DEF Written, Moving, Renames
    <3>5. \/ items'[k] = items[k] /\ ~Live(k)
          \/ \E m \in job[j].moved : m.key = k /\ Live(k) /\ IsMove(m, Len(items)) /\ items'[k] = [items[k] EXCEPT !.name = m.to.name]
      BY <1>0, <1>3, <2>1, <2>4, RecordedIsMoved
    <3>6. Live(k)' = Live(k) /\ IsAttachment(k)' = IsAttachment(k)
      <4>1. items'[k].type = items[k].type
        <5>1. Live(k) => DOMAIN items[k] = {"type", "parent", "url", "name", "fields", "creators"}
          BY <2>1 DEF Shape, IsItem, Live, Gone
        <5>2. ASSUME Live(k), NEW name, items'[k] = [items[k] EXCEPT !.name = name] PROVE items'[k].type = items[k].type
          BY <5>1, <5>2
        <5> QED BY <3>5, <5>2
      <4> QED BY <2>1, <4>1, <1>5 DEF Live, IsAttachment
    <3>7. Named(k)' => Named(k)
      BY <3>6, HasAName DEF Named
    <3>8. Serves(k)'
      <4> SUFFICES ASSUME Named(k)', Beside(k)' PROVE Served(k)' = last'[k]
        BY DEF Serves
      <4>1. Live(k)
        BY <3>7 DEF Named, IsAttachment
      <4>2. PICK m \in job[j].moved : m.key = k /\ IsMove(m, Len(items)) /\ items'[k] = [items[k] EXCEPT !.name = m.to.name]
        BY <3>5, <4>1
      <4>3. DOMAIN items[k] = {"type", "parent", "url", "name", "fields", "creators"}
        BY <2>1, <4>1 DEF Shape, IsItem, Live, Gone
      <4>4. items'[k].name = m.to.name
        BY <4>2, <4>3
      <4>5. m.to.name[2] = items[k].name[2]
        BY <1>0, <2>2, <3>7, <4>2 DEF Kept, Moving
      <4>6. Beside(k)
        BY <4>4, <4>5 DEF Beside
      <4>7. Bytes(m.to) = last[k]
        BY <1>0, <2>2, <3>7, <4>2, <4>6 DEF Kept, Moving
      <4>8. m.to = Path(k, m.to.name)
        <5>1. /\ m.to = [in |-> m.to.in, of |-> m.to.of, name |-> <<m.to.name[1], m.to.name[2]>>]
              /\ m.to.in = "storage" /\ m.to.of = k
          BY <4>2 DEF IsMove, IsPath
        <5> QED BY <5>1 DEF Path
      <4>9. PICK q : q = m.to
        OBVIOUS
      <4>10. Bytes(q)' = Bytes(q)
        BY <1>0 DEF Bytes, Holds
      <4> QED BY <1>0, <4>4, <4>7, <4>8, <4>9, <4>10 DEF Served
    <3>9. Waits(k)'
      BY <1>0, <2>2, <3>3, <3>7 DEF Kept, Waits
    <3>10. Pictured(k)'
      <4>1. \A q : Bytes(q)' = Bytes(q)
        BY <1>0 DEF Bytes, Holds
      <4> QED BY <1>0, <2>2, <3>6, <4>1 DEF Kept, Pictured
    <3> QED BY <2>1, <3>4, <3>8, <3>9, <3>10 DEF Kept
  <2> QED BY <2>3, <2>4
<1> QED BY <1>4, <1>5 DEF FilesInv

\* An item goes, with what hangs from it.
LEMMA DeleteFiles ==
  ASSUME Shape, FilesInv, History, NEW gone \in DOMAIN items, Delete(gone)
  PROVE  FilesInv'
<1>a. PICK S : S = {gone} \cup Under(gone)
  OBVIOUS
<1>0. /\ items' = [i \in DOMAIN items |-> IF i \in S THEN Gone ELSE items[i]] /\ doomed' = doomed \cup S
      /\ UNCHANGED <<disk, content, job, stops, last>>
  BY <1>a DEF Delete
<1>1. Apart'
  BY <1>0 DEF FilesInv, Apart
<1>2. ASSUME NEW k \in DOMAIN items', k \notin crossed' PROVE Kept(k)'
  <2>1. /\ k \in DOMAIN items /\ k \notin crossed /\ Alone(k)'
        /\ \A j \in Jobs : Writes(job'[j], k) => items'[k] # Gone
    BY <1>0, <1>2, NotCrossed
  <2>2. Kept(k)
    BY <2>1 DEF FilesInv
  <2>3. CASE k \notin S
    <3>1. Undisturbed(k)
      BY <1>0, <2>1, <2>3 DEF Undisturbed
    <3>2. \A i \in Jobs : Steady(job[i], job'[i], k)
      BY <1>0 DEF Steady
    <3> QED BY <1>2, <2>2, <3>1, <3>2, StaysKept
  <2>4. CASE k \in S
    <3>1. items'[k] = Gone /\ k \in doomed'
      BY <1>0, <2>1, <2>4
    <3>2. ~Named(k)'
      BY <3>1 DEF Named, IsAttachment, Live, Gone
    <3>3. Written(k)' /\ Moving(k)' /\ Serves(k)' /\ Waits(k)'
      BY <2>1, <3>1, <3>2 DEF Written, Moving, Serves, Waits
    <3>4. \A q : Bytes(q)' = Bytes(q)
      BY <1>0 DEF Bytes, Holds
    <3>5. Pictured(k)'
      BY <1>0, <2>2, <3>1, <3>4 DEF Kept, Pictured
    <3> QED BY <2>1, <3>3, <3>5 DEF Kept
  <2> QED BY <2>3, <2>4
<1> QED BY <1>1, <1>2 DEF FilesInv

\* Its files follow.
LEMMA CleanUpFiles ==
  ASSUME Shape, FilesInv, History, NEW gone \in DOMAIN items, CleanUp(gone)
  PROVE  FilesInv'
<1>0. /\ doomed' = doomed \ {gone} /\ gone \in doomed
      /\ disk' = [path \in DOMAIN disk \ {path \in DOMAIN disk : path.of = gone} |-> disk[path]]
      /\ UNCHANGED <<items, content, job, stops, last>>
  BY DEF CleanUp, Removed
<1>1. Apart'
  BY <1>0 DEF FilesInv, Apart
<1>2. items[gone] = Gone
  BY <1>0 DEF Shape
<1>3. ASSUME NEW k \in DOMAIN items', k \notin crossed' PROVE Kept(k)'
  <2>1. k \in DOMAIN items /\ k \notin crossed /\ Alone(k)'
    BY <1>0, <1>3, NotCrossed
  <2>2. Kept(k)
    BY <2>1 DEF FilesInv
  <2>3. CASE k # gone
    <3>1. Undisturbed(k)
      BY <1>0, <2>1, <2>3 DEF Undisturbed
    <3>2. \A i \in Jobs : Steady(job[i], job'[i], k)
      BY <1>0 DEF Steady
    <3> QED BY <1>3, <2>2, <3>1, <3>2, StaysKept
  <2>4. CASE k = gone
    <3>1. \A j \in Jobs : ~Writes(job'[j], k)
      BY <1>0, <1>2, <2>2, <2>4 DEF Kept, Written
    <3>2. ~Named(k)'
      BY <1>0, <1>2, <2>4 DEF Named, IsAttachment, Live, Gone
    <3>3. Written(k)' /\ Moving(k)' /\ Serves(k)' /\ Waits(k)'
      BY <3>1, <3>2 DEF Written, Moving, Serves, Waits
    <3>4. Pictured(k)'
      BY <1>0, <2>4 DEF Pictured
    <3> QED BY <2>1, <3>3, <3>4 DEF Kept
  <2> QED BY <2>3, <2>4
<1> QED BY <1>1, <1>3 DEF FilesInv

\* A request ends where it is.
LEMMA StopFiles ==
  ASSUME Shape, FilesInv, History, NEW j \in Jobs, Stop(j)
  PROVE  FilesInv'
<1>0. Go(j, Idle) /\ stops' = stops + 1 /\ stops \in Nat /\ UNCHANGED <<items, disk, content, doomed, last>>
  BY DEF Stop, Shape
<1>1. DOMAIN job' = Jobs /\ job'[j] = Idle /\ \A i \in Jobs : i # j => job'[i] = job[i]
  BY <1>0, OneGoes DEF Shape, Go
<1>2. \A k : ~Writes(Idle, k) /\ ~Renames(Idle, k) /\ ~Moved(Idle, k) /\ Idle.at = "idle" /\ Idle.for # "names"
  BY DEF Writes, Renames, Moved, Idle
<1>3. Apart'
  BY <1>0, <1>1, <1>2, ApartStays DEF FilesInv
<1>4. ASSUME NEW k \in DOMAIN items', k \notin crossed' PROVE Kept(k)'
  <2>1. /\ k \in DOMAIN items /\ k \notin crossed /\ Alone(k)'
        /\ \A i \in Jobs : Writes(job'[i], k) =>
             items'[k] # Gone /\ (~IsPicture(job'[i].path) => items'[k].name = job'[i].path.name)
    BY <1>0, <1>4, NotCrossed
  <2>2. Kept(k)
    BY <2>1 DEF FilesInv
  <2>3. ~Renames(job[j], k)
    BY <1>0, <1>1, <1>2, <1>4, NotCrossed
  <2>4. \A i \in Jobs : Moved(job'[i], k) <=> Moved(job[i], k)
    BY <1>1, <1>2, <2>3 DEF Moved, Renames
  <2>5. Named(k)' = Named(k) /\ Beside(k)' = Beside(k) /\ Live(k)' = Live(k) /\ Served(k)' = Served(k)
        /\ \A q : Bytes(q)' = Bytes(q)
    BY <1>0 DEF Named, IsAttachment, Live, Beside, Served, Bytes, Holds
  <2>6. Written(k)'
    BY <1>0, <1>1, <1>2, <2>1, <2>2 DEF Kept, Written, Holds
  <2>7. Moving(k)'
    BY <1>0, <1>1, <1>2, <2>2, <2>5 DEF Kept, Moving
  <2>8. Serves(k)'
    BY <1>0, <2>2, <2>4, <2>5 DEF Kept, Serves
  <2>9. Waits(k)'
    BY <1>0 DEF Waits
  <2>10. Pictured(k)'
    BY <1>0, <2>2, <2>5 DEF Kept, Pictured
  <2> QED BY <2>1, <2>6, <2>7, <2>8, <2>9, <2>10 DEF Kept
<1> QED BY <1>3, <1>4 DEF FilesInv

\* The files are as they should be after every step.
LEMMA FilesStep ==
  ASSUME Shape, FilesInv, [Next]_vars
  PROVE  FilesInv'
<1>1. CASE UNCHANGED vars
  BY <1>1 DEF vars, FilesInv, Apart, Kept, Alone, Written, Moving, Serves, Waits, Pictured, Served, Beside, Bytes, Holds,
              Named, IsAttachment, Live
<1>2. ASSUME History, NEW k \in DOMAIN items, File(k) PROVE FilesInv'
  <2>1. UNCHANGED <<items, disk, content, doomed, job, stops, last>>
    BY <1>2 DEF File
  <2> QED BY <1>2, <2>1, QuietStep
<1>4. CASE Next
  BY <1>2, <1>4, RequestFiles, NewFiles, SnapshotFiles, OpenFiles, FillFiles, SwapFiles, PlanFiles, MoveFiles, RecordFiles,
     DeleteFiles, CleanUpFiles, StopFiles DEF Next
<1> QED BY <1>1, <1>4

\* They are at first.
LEMMA FilesInit == ASSUME Init PROVE FilesInv
<1>1. \A k : ~Writes(Idle, k) /\ ~Renames(Idle, k) /\ ~InHand(Idle, k) /\ Idle.at = "idle" /\ Idle.for # "names"
  BY DEF Writes, Renames, InHand, Idle
<1>2. \A j \in Jobs : job[j] = Idle
  BY DEF Init
<1>3. DOMAIN disk = {}
  BY DEF Init
<1>4. Apart
  BY <1>1, <1>2, <1>3 DEF Apart
<1>5. ASSUME NEW k \in DOMAIN items PROVE Kept(k)
  <2>1. ~Named(k)
    BY DEF Init, Named, IsAttachment, Paper
  <2> QED BY <1>1, <1>2, <1>3, <2>1 DEF Kept, Alone, Written, Moving, Serves, Waits, Pictured
<1> QED BY <1>4, <1>5 DEF FilesInv

-----------------------------------------------------------------------------
(***************************************************************************)
(* The addresses.                                                          *)
(***************************************************************************)

\* A step that puts no attachment, after which nobody else is about to create
\* one but who found that there is none.
LEMMA NoNewAttachment ==
  ASSUME Races, OnePerAddress, History,
         \A k \in DOMAIN items' : IsAttachment(k)' =>
           IsAttachment(k) /\ items'[k].parent = items[k].parent /\ items'[k].url = items[k].url,
         \A j \in Jobs : job'[j].at = "create" =>
           job'[j] = job[j] \/ (Existing(j) = {} /\ job'[j].parent = job[j].parent /\ job'[j].url = job[j].url)
  PROVE  Races' /\ OnePerAddress'
<1>1. raced \subseteq raced'
  BY DEF History
<1>2. \A i, j \in Jobs : Missed(i, j) => <<job'[i].parent, job'[i].url>> \in raced'
  BY DEF History
<1>3. ASSUME NEW j \in Jobs, job'[j].at = "create" PROVE Existing(j)' = {} \/ <<job'[j].parent, job'[j].url>> \in raced'
  <2>1. job'[j].parent = job[j].parent /\ job'[j].url = job[j].url
    BY <1>3
  <2>2. Existing(j)' \subseteq Existing(j)
    BY <2>1 DEF Existing, Under, IsAttachment, Live
  <2> QED BY <1>1, <1>3, <2>1, <2>2 DEF Races
<1>4. Races'
  BY <1>2, <1>3 DEF Races, Missed
<1>5. OnePerAddress'
  BY <1>1 DEF OnePerAddress, IsAttachment, Live
<1> QED BY <1>4, <1>5

\* Who is about to create an attachment after a step of one request.
LEMMA NobodyElse ==
  ASSUME Shape, NEW j \in Jobs, NEW next, Go(j, next), next.at # "create"
  PROVE  \A i \in Jobs : job'[i].at = "create" => job'[i] = job[i]
BY OneGoes DEF Shape, Go

\* The steps of a request that put nothing.
LEMMA RequestRaces ==
  ASSUME Shape, Races, OnePerAddress, History, NEW j \in Jobs,
         \/ \E k \in DOMAIN items :
              \/ \E a \in DOMAIN Web \cup {Nowhere} : Fetch(j, k, a)
              \/ Upload(j, k) \/ \E x \in DOMAIN Kinds : StorePicture(j, k, Kinds[x])
         \/ \E row \in wanted : TakeWanted(j, row)
         \/ Download(j) \/ DownloadFails(j)
         \/ OpenTemp(j) \/ Fill(j) \/ Swap(j)
         \/ \E template \in Templates : Rename(j, template)
         \/ LookForTarget(j) \/ MoveFile(j)
         \/ \E page \in Pages : SaveItems(j, page)
         \/ SaveFile(j) \/ Saved(j) \/ AnswerSaved(j) \/ Stop(j)
  PROVE  Races' /\ OnePerAddress'
<1>0. DOMAIN job[j] = JobFields
  BY DEF Shape, IsJob
<1>1. UNCHANGED items
  BY DEF Fetch, Upload, StorePicture, TakeWanted, Download, DownloadFails, OpenTemp, Fill, Swap, Rename, LookForTarget, MoveFile,
         SaveItems, SaveFile, Saved, AnswerSaved, Stop
<1>2. \A p, a, for : Attach(Idle, for, p, a).at = "get"
  BY DEF Attach, Idle
<1>3. job[j].at # "create" => Attached(j).at # "create"
  BY <1>0 DEF Attached, Idle, JobFields
<1>4. Idle.at = "idle"
  BY DEF Idle
<1>5. ASSUME NEW next, Go(j, next), next.at # "create" PROVE Races' /\ OnePerAddress'
  <2>1. \A i \in Jobs : job'[i].at = "create" => job'[i] = job[i]
    BY <1>5, NobodyElse
  <2> QED BY <1>1, <2>1, NoNewAttachment DEF IsAttachment, Live
<1>6. ASSUME NEW k, NEW a, Fetch(j, k, a) PROVE Races' /\ OnePerAddress'
  <2>1. PICK b : Go(j, Attach(Idle, "fetch", k, b))
    BY <1>6 DEF Fetch
  <2> QED BY <1>2, <1>5, <2>1
<1>7. ASSUME NEW k, Upload(j, k) PROVE Races' /\ OnePerAddress'
  <2>1. PICK next : next = [Idle EXCEPT !.at = "open", !.for = "upload", !.key = k, !.path = Path(k, items[k].name), !.bytes = writes + 1]
    OBVIOUS
  <2>2. next.at = "open"
    BY <2>1 DEF Idle
  <2>3. Go(j, next)
    BY <1>7, <2>1 DEF Upload
  <2> QED BY <1>5, <2>2, <2>3
<1>8. ASSUME NEW k, NEW kind, StorePicture(j, k, kind) PROVE Races' /\ OnePerAddress'
  <2>1. PICK next : next = [Idle EXCEPT !.at = "open", !.for = "picture", !.key = k, !.path = Picture(k, kind), !.bytes = Served(k)]
    OBVIOUS
  <2>2. next.at = "open"
    BY <2>1 DEF Idle
  <2>3. Go(j, next)
    BY <1>8, <2>1 DEF StorePicture
  <2> QED BY <1>5, <2>2, <2>3
<1>9. ASSUME NEW row, TakeWanted(j, row) PROVE Races' /\ OnePerAddress'
  BY <1>2, <1>5, <1>9 DEF TakeWanted
<1>10. CASE Download(j) \/ DownloadFails(j)
  <2>1. job[j].at \in {"get", "follow"}
    BY <1>10 DEF Download, DownloadFails
  <2>2. \/ Go(j, [job[j] EXCEPT !.at = "look", !.bytes = writes + 1])
        \/ Go(j, [job[j] EXCEPT !.at = "follow", !.url = PdfLink(Web[job[j].url])])
        \/ Go(j, Attached(j))
    BY <1>10 DEF Download, DownloadFails
  <2>3. /\ [job[j] EXCEPT !.at = "look", !.bytes = writes + 1].at # "create"
        /\ [job[j] EXCEPT !.at = "follow", !.url = PdfLink(Web[job[j].url])].at # "create"
    BY <1>0 DEF JobFields
  <2> QED BY <1>3, <1>5, <2>1, <2>2, <2>3
<1>11. CASE OpenTemp(j)
  <2>1. \A f : [job[j] EXCEPT !.at = "fill", !.file = f].at # "create"
    BY <1>0 DEF JobFields
  <2>2. \E f : Go(j, [job[j] EXCEPT !.at = "fill", !.file = f])
    BY <1>11 DEF OpenTemp
  <2> QED BY <1>5, <2>1, <2>2
<1>12. CASE Fill(j)
  <2>1. [job[j] EXCEPT !.at = "swap"].at # "create"
    BY <1>0 DEF JobFields
  <2> QED BY <1>5, <1>12, <2>1 DEF Fill
<1>13. CASE Swap(j)
  BY <1>3, <1>5, <1>13 DEF Swap
<1>14. ASSUME NEW template, Rename(j, template) PROVE Races' /\ OnePerAddress'
  <2>1. \A todo : [Idle EXCEPT !.at = "names", !.for = "names", !.todo = todo].at # "create"
    BY DEF Idle
  <2>2. \E todo : Go(j, [Idle EXCEPT !.at = "names", !.for = "names", !.todo = todo])
    BY <1>14 DEF Rename
  <2> QED BY <1>5, <2>1, <2>2
<1>15. CASE LookForTarget(j)
  <2>1. job[j].at = "names" /\ (Go(j, [job[j] EXCEPT !.todo = Tail(@)]) \/ Go(j, [job[j] EXCEPT !.at = "move"]))
    BY <1>15 DEF LookForTarget
  <2>2. [job[j] EXCEPT !.todo = Tail(@)].at = job[j].at /\ [job[j] EXCEPT !.at = "move"].at = "move"
    BY <1>0 DEF JobFields
  <2> QED BY <1>5, <2>1, <2>2
<1>16. CASE MoveFile(j)
  <2>1. \A todo, moved : [job[j] EXCEPT !.at = "names", !.todo = todo, !.moved = moved].at = "names"
                         /\ [job[j] EXCEPT !.at = "names", !.todo = todo].at = "names"
    BY <1>0 DEF JobFields
  <2>2. \/ \E todo, moved : Go(j, [job[j] EXCEPT !.at = "names", !.todo = todo, !.moved = moved])
        \/ \E todo : Go(j, [job[j] EXCEPT !.at = "names", !.todo = todo])
    BY <1>16 DEF MoveFile
  <2> QED BY <1>5, <2>1, <2>2
<1>17. ASSUME NEW page, SaveItems(j, page) PROVE Races' /\ OnePerAddress'
  <2>1. [Idle EXCEPT !.at = "saving", !.for = "save", !.todo = page].at # "create"
    BY DEF Idle
  <2> QED BY <1>5, <1>17, <2>1 DEF SaveItems
<1>18. CASE SaveFile(j)
  <2>1. job[j].at = "saving"
    BY <1>18 DEF SaveFile, Saving
  <2>2. \A files : LET next == [job[j] EXCEPT !.files = files] IN
           next.at = "saving" /\ \A a : Attach(next, "save", job[j].parent, a).at = "get"
    BY <1>0, <2>1 DEF JobFields, Attach
  <2>3. \E files : LET next == [job[j] EXCEPT !.files = files] IN Go(j, next) \/ \E a : Go(j, Attach(next, "save", job[j].parent, a))
    BY <1>18 DEF SaveFile
  <2> QED BY <1>5, <2>2, <2>3
<1>19. CASE Saved(j)
  <2>1. job[j].at = "saving"
    BY <1>19 DEF Saved, Between, Saving
  <2>2. [job[j] EXCEPT !.told = Append(@, job[j].parent), !.parent = 0].at = job[j].at
    BY <1>0 DEF JobFields
  <2> QED BY <1>5, <1>19, <2>1, <2>2 DEF Saved
<1>20. CASE AnswerSaved(j) \/ Stop(j)
  BY <1>4, <1>5, <1>20 DEF AnswerSaved, Stop
<1> QED BY <1>6, <1>7, <1>8, <1>9, <1>10, <1>11, <1>12, <1>13, <1>14, <1>15, <1>16, <1>17, <1>18, <1>19, <1>20

\* The attachment is looked for, and found or not.
LEMMA LookRaces ==
  ASSUME Shape, Races, OnePerAddress, History, NEW j \in Jobs, LookForAttachment(j)
  PROVE  Races' /\ OnePerAddress'
<1>0. DOMAIN job[j] = JobFields /\ UNCHANGED items
  BY DEF Shape, IsJob, LookForAttachment
<1>1. CASE Existing(j) = {}
  <2>1. PICK next : next = [job[j] EXCEPT !.at = "create"]
    OBVIOUS
  <2>2. Go(j, next) /\ next.parent = job[j].parent /\ next.url = job[j].url
    BY <1>0, <1>1, <2>1 DEF LookForAttachment, JobFields
  <2>3. DOMAIN job' = Jobs /\ job'[j] = next /\ \A i \in Jobs : i # j => job'[i] = job[i]
    BY <2>2, OneGoes DEF Shape, Go
  <2>4. \A i \in Jobs : job'[i].at = "create" =>
          job'[i] = job[i] \/ (Existing(i) = {} /\ job'[i].parent = job[i].parent /\ job'[i].url = job[i].url)
    BY <1>1, <2>2, <2>3
  <2> QED BY <1>0, <2>4, NoNewAttachment DEF IsAttachment, Live
<1>2. CASE Existing(j) # {}
  <2>1. PICK k : Go(j, Into(j, k))
    BY <1>2 DEF LookForAttachment
  <2>2. Into(j, k).at = "open"
    BY <1>0 DEF Into, JobFields
  <2>3. \A i \in Jobs : job'[i].at = "create" => job'[i] = job[i]
    BY <2>1, <2>2, NobodyElse
  <2> QED BY <1>0, <2>3, NoNewAttachment DEF IsAttachment, Live
<1> QED BY <1>1, <1>2

\* A step that puts something else, and one after which there are fewer.
LEMMA OtherItems ==
  ASSUME Shape, Races, OnePerAddress, History,
         \/ \E record : items' = Fresh(record) /\ record.type # "attachment"
         \/ UNCHANGED items,
         \A j \in Jobs : job'[j].at = "create" => job'[j] = job[j]
  PROVE  Races' /\ OnePerAddress'
<1>1. ASSUME NEW record, items' = Fresh(record), record.type # "attachment", NEW k \in DOMAIN items', IsAttachment(k)'
      PROVE  IsAttachment(k) /\ items'[k].parent = items[k].parent /\ items'[k].url = items[k].url
  <2>1. /\ DOMAIN items' = DOMAIN items \cup {NextKey} /\ items'[NextKey] = record
        /\ \A i \in DOMAIN items : items'[i] = items[i]
    BY <1>1, AtTheEnd DEF Shape, Fresh, NextKey
  <2>2. k # NextKey
    BY <1>1, <2>1 DEF IsAttachment
  <2> QED BY <1>1, <2>1, <2>2 DEF IsAttachment, Live
<1>2. \A k \in DOMAIN items' : IsAttachment(k)' => IsAttachment(k) /\ items'[k].parent = items[k].parent /\ items'[k].url = items[k].url
  BY <1>1 DEF IsAttachment, Live
<1> QED BY <1>2, NoNewAttachment

LEMMA FewerItems ==
  ASSUME Shape, Races, OnePerAddress, History, (\E j \in Jobs : RecordNames(j)) \/ \E k \in DOMAIN items : Delete(k)
  PROVE  Races' /\ OnePerAddress'
<1>1. ASSUME NEW j \in Jobs, RecordNames(j) PROVE Races' /\ OnePerAddress'
  <2>1. Go(j, Idle) /\ Idle.at = "idle" /\ items' = [k \in DOMAIN items |-> Recorded(j, k)] /\ job[j].for = "names"
    BY <1>1 DEF RecordNames, Idle, Shape, IsJob
  <2>2. \A i \in Jobs : job'[i].at = "create" => job'[i] = job[i]
    BY <2>1, NobodyElse
  <2>3. ASSUME NEW k \in DOMAIN items, IsAttachment(k)' PROVE IsAttachment(k) /\ items'[k].parent = items[k].parent /\ items'[k].url = items[k].url
    <3>1. \/ items'[k] = items[k]
          \/ Live(k) /\ \E name : items'[k] = [items[k] EXCEPT !.name = name]
      BY <2>1, RecordedIsMoved
    <3>2. CASE items'[k] = items[k]
      BY <2>3, <3>2 DEF IsAttachment, Live
    <3>3. ASSUME Live(k), NEW name, items'[k] = [items[k] EXCEPT !.name = name]
          PROVE  IsAttachment(k) /\ items'[k].parent = items[k].parent /\ items'[k].url = items[k].url
      <4>1. DOMAIN items[k] = {"type", "parent", "url", "name", "fields", "creators"}
        BY <3>3 DEF Shape, IsItem, Live, Gone
      <4>2. items'[k].type = items[k].type /\ items'[k].parent = items[k].parent /\ items'[k].url = items[k].url
        BY <3>3, <4>1
      <4> QED BY <2>3, <3>3, <4>2 DEF IsAttachment
    <3> QED BY <3>1, <3>2, <3>3
  <2>4. \A k \in DOMAIN items' : IsAttachment(k)' => IsAttachment(k) /\ items'[k].parent = items[k].parent /\ items'[k].url = items[k].url
    BY <2>1, <2>3
  <2> QED BY <2>2, <2>4, NoNewAttachment
<1>2. ASSUME NEW gone \in DOMAIN items, Delete(gone) PROVE Races' /\ OnePerAddress'
  <2>1. PICK S : items' = [i \in DOMAIN items |-> IF i \in S THEN Gone ELSE items[i]]
    BY <1>2 DEF Delete
  <2>2. UNCHANGED job
    BY <1>2 DEF Delete
  <2>3. \A k \in DOMAIN items' : IsAttachment(k)' => IsAttachment(k) /\ items'[k].parent = items[k].parent /\ items'[k].url = items[k].url
    BY <2>1 DEF IsAttachment, Live, Gone
  <2> QED BY <2>2, <2>3, NoNewAttachment
<1> QED BY <1>1, <1>2

\* An attachment is created: it is the only one, or two found it missing.
LEMMA CreateRaces ==
  ASSUME Shape, Races, OnePerAddress, History, NEW j \in Jobs, CreateAttachment(j)
  PROVE  Races' /\ OnePerAddress'
<1>0. DOMAIN job[j] = JobFields /\ job[j].at = "create"
  BY DEF Shape, IsJob, CreateAttachment
<1>1. CASE ~Live(job[j].parent)
  <2>1. Go(j, Attached(j)) /\ UNCHANGED items
    BY <1>1 DEF CreateAttachment
  <2>2. Attached(j).at # "create"
    BY <1>0 DEF Attached, Idle, JobFields
  <2>3. \A i \in Jobs : job'[i].at = "create" => job'[i] = job[i]
    BY <2>1, <2>2, NobodyElse
  <2> QED BY <2>1, <2>3, OtherItems
<1>2. CASE Live(job[j].parent)
  <2>0. PICK p, a : p = job[j].parent /\ a = job[j].url
    OBVIOUS
  <2>1. PICK record : /\ items' = Fresh(record) /\ record.type = "attachment" /\ record.parent = p /\ record.url = a
                      /\ Go(j, Into(j, NextKey))
    BY <1>2, <2>0 DEF CreateAttachment, Child
  <2>2. Into(j, NextKey).at = "open"
    BY <1>0 DEF Into, JobFields
  <2>3. \A i \in Jobs : job'[i].at = "create" => job'[i] = job[i] /\ i # j
    <3>1. job'[j] = Into(j, NextKey)
      BY <2>1, OneGoes DEF Shape, Go
    <3> QED BY <2>1, <2>2, <3>1, NobodyElse
  <2>4. PICK n : n = NextKey
    OBVIOUS
  <2>5. /\ DOMAIN items' = DOMAIN items \cup {n} /\ items'[n] = record /\ n \notin DOMAIN items
        /\ \A i \in DOMAIN items : items'[i] = items[i]
    <3>1. n \notin DOMAIN items
      BY <2>4, Counts DEF NextKey
    <3> QED BY <2>1, <2>4, <3>1, AtTheEnd DEF Shape, Fresh, NextKey
  <2>6. raced \subseteq raced' /\ \A h, i \in Jobs : Missed(h, i) => <<job'[h].parent, job'[h].url>> \in raced'
    BY DEF History
  <2>7. ASSUME NEW i \in Jobs, job'[i].at = "create" PROVE Existing(i)' = {} \/ <<job'[i].parent, job'[i].url>> \in raced'
    <3>1. job'[i] = job[i] /\ i # j
      BY <2>3, <2>7
    <3>2. CASE job[i].parent = p /\ job[i].url = a
      BY <1>0, <2>0, <2>6, <2>7, <3>1, <3>2 DEF Races
    <3>3. CASE ~(job[i].parent = p /\ job[i].url = a)
      <4>1. Existing(i)' \subseteq Existing(i)
        BY <2>1, <2>5, <3>1, <3>3 DEF Existing, Under, Live
      <4> QED BY <2>6, <2>7, <3>1, <4>1 DEF Races
    <3> QED BY <3>2, <3>3
  <2>8. Races'
    BY <2>6, <2>7 DEF Races, Missed
  <2>9. ASSUME NEW k \in DOMAIN items, IsAttachment(k), items[k].parent = p, items[k].url = a PROVE <<p, a>> \in raced'
    <3>1. k \in Existing(j)
      BY <2>0, <2>9 DEF Existing, Under, IsAttachment
    <3> QED BY <1>0, <2>0, <2>6, <3>1 DEF Races
  <2>10. \A k \in DOMAIN items : IsAttachment(k)' = IsAttachment(k)
    BY <2>5 DEF IsAttachment, Live
  <2>11. ASSUME NEW k \in DOMAIN items', NEW m \in DOMAIN items', IsAttachment(k)', IsAttachment(m)', k # m,
                items'[k].parent = items'[m].parent, items'[k].url = items'[m].url
         PROVE  <<items'[k].parent, items'[k].url>> \in raced'
    <3>1. CASE k \in DOMAIN items /\ m \in DOMAIN items
      BY <2>5, <2>6, <2>10, <2>11, <3>1 DEF OnePerAddress
    <3>2. CASE k = n
      BY <2>1, <2>5, <2>9, <2>10, <2>11, <3>2
    <3>3. CASE m = n
      BY <2>1, <2>5, <2>9, <2>10, <2>11, <3>3
    <3> QED BY <2>5, <3>1, <3>2, <3>3
  <2>12. OnePerAddress'
    BY <2>11 DEF OnePerAddress
  <2> QED BY <2>8, <2>12
<1> QED BY <1>1, <1>2

\* An address has one attachment after every step.
LEMMA RacesStep ==
  ASSUME Shape, Races, OnePerAddress, [Next]_vars
  PROVE  Races' /\ OnePerAddress'
<1>1. CASE UNCHANGED vars
  BY <1>1 DEF vars, Races, OnePerAddress, Existing, Under, IsAttachment, Live
<1>2. ASSUME History, NEW j \in Jobs, SaveItem(j) \/ SaveNote(j) PROVE Races' /\ OnePerAddress'
  <2>1. DOMAIN job[j] = JobFields /\ job[j].at = "saving"
    BY <1>2 DEF Shape, IsJob, SaveItem, SaveNote, Between, Saving
  <2>2. CASE SaveItem(j)
    <3>1. \A todo, parent, notes, files, made : LET next == [job[j] EXCEPT !.todo = todo] IN
            next.at = "saving" /\ [next EXCEPT !.parent = parent, !.notes = notes, !.files = files, !.made = made].at = "saving"
      BY <2>1 DEF JobFields
    <3>2. \E todo, parent, notes, files, made : LET next == [job[j] EXCEPT !.todo = todo] IN
            Go(j, next) \/ Go(j, [next EXCEPT !.parent = parent, !.notes = notes, !.files = files, !.made = made])
      BY <2>2 DEF SaveItem
    <3>3. \A i \in Jobs : job'[i].at = "create" => job'[i] = job[i]
      BY <3>1, <3>2, NobodyElse
    <3>4. \A draft : Paper(draft).type # "attachment"
      BY DEF Paper
    <3>5. (\E draft : items' = Fresh(Paper(draft))) \/ UNCHANGED items
      BY <2>2 DEF SaveItem
    <3> QED BY <1>2, <3>3, <3>4, <3>5, OtherItems
  <2>3. CASE SaveNote(j)
    <3>1. [job[j] EXCEPT !.notes = @ - 1].at = "saving"
      BY <2>1 DEF JobFields
    <3>2. \A i \in Jobs : job'[i].at = "create" => job'[i] = job[i]
      BY <2>3, <3>1, NobodyElse DEF SaveNote
    <3>3. \A p : Child("note", p, Nowhere, NoName).type # "attachment"
      BY DEF Child
    <3>4. (\E p : items' = Fresh(Child("note", p, Nowhere, NoName))) \/ UNCHANGED items
      BY <2>3 DEF SaveNote
    <3> QED BY <1>2, <3>2, <3>3, <3>4, OtherItems
  <2> QED BY <1>2, <2>2, <2>3
<1>3. ASSUME History, NEW a, SaveSnapshot(a) PROVE Races' /\ OnePerAddress'
  <2>1. \A draft : Paper(draft).type # "attachment"
    BY DEF Paper
  <2>2. \E draft : items' = Fresh(Paper(draft))
    BY <1>3 DEF SaveSnapshot
  <2>3. UNCHANGED job
    BY <1>3 DEF SaveSnapshot
  <2> QED BY <1>3, <2>1, <2>2, <2>3, OtherItems
<1>4. ASSUME History, NEW k, File(k) \/ CleanUp(k) PROVE Races' /\ OnePerAddress'
  <2>1. UNCHANGED <<items, job>>
    BY <1>4 DEF File, CleanUp
  <2> QED BY <1>4, <2>1, OtherItems
<1>5. CASE Next
  BY <1>2, <1>3, <1>4, <1>5, RequestRaces, LookRaces, FewerItems, CreateRaces DEF Next
<1> QED BY <1>1, <1>5

\* It has at first.
LEMMA RacesInit == ASSUME Init PROVE Races /\ OnePerAddress
BY DEF Init, Races, OnePerAddress, IsAttachment, Live, Paper, Idle

-----------------------------------------------------------------------------
(***************************************************************************)
(* What the extension is told.                                             *)
(***************************************************************************)

\* What an extension's request says of itself.
LEMMA SaverTypes ==
  ASSUME Shape, NEW j \in Jobs, job[j].for = "save"
  PROVE  /\ DOMAIN job[j] = JobFields /\ job[j].notes \in Nat /\ job[j].parent \in 0 .. Len(items)
         /\ job[j].told \in Seq(Nat) /\ DOMAIN job[j].told = 1 .. Len(job[j].told) /\ Len(job[j].told) \in Nat
         /\ job[j].made \in Seq([key : Nat, notes : Nat]) /\ DOMAIN job[j].made = 1 .. Len(job[j].made) /\ Len(job[j].made) \in Nat
         /\ \A n \in DOMAIN job[j].made : job[j].made[n].key \in 1 .. Len(items) /\ job[j].made[n].notes \in Nat
<1>1. IsJob(job[j], Len(items), Len(content))
  BY DEF Shape
<1>2. /\ DOMAIN job[j] = JobFields /\ job[j].notes \in Nat /\ job[j].parent \in 0 .. Len(items) /\ job[j].told \in Seq(Nat)
      /\ job[j].made \in Seq([key : Nat, notes : Nat]) /\ \A n \in DOMAIN job[j].made : job[j].made[n].key \in 1 .. Len(items)
  BY <1>1 DEF IsJob
<1>3. DOMAIN job[j].told = 1 .. Len(job[j].told) /\ Len(job[j].told) \in Nat
  BY <1>2
<1>4. /\ DOMAIN job[j].made = 1 .. Len(job[j].made) /\ Len(job[j].made) \in Nat
      /\ \A n \in DOMAIN job[j].made : job[j].made[n].notes \in Nat
  <2> DEFINE T == [key : Nat, notes : Nat]
  <2>1. \A one \in T : one.notes \in Nat
    OBVIOUS
  <2>2. job[j].made \in Seq(T)
    BY <1>2
  <2> HIDE DEF T
  <2>3. /\ DOMAIN job[j].made = 1 .. Len(job[j].made) /\ Len(job[j].made) \in Nat
        /\ \A n \in DOMAIN job[j].made : job[j].made[n] \in T
    BY <2>2
  <2> QED BY <2>1, <2>3
<1> QED BY <1>2, <1>3, <1>4

\* The notes of a paper are finitely many.
LEMMA NotesAreFinite == ASSUME Shape, NEW p PROVE IsFiniteSet(NotesUnder(p)) /\ Cardinality(NotesUnder(p)) \in Nat
<1>1. NotesUnder(p) \subseteq 1 .. Len(items) /\ Len(items) \in Nat
  BY Counts DEF NotesUnder, Under
<1>2. IsFiniteSet(1 .. Len(items))
  BY <1>1, FS_Interval
<1> QED BY <1>1, <1>2, FS_Subset, FS_CardinalityType

\* So the extension is told of what was saved.
LEMMA SavesTell == ASSUME Shape, Saves PROVE SavedIsTold
<1> SUFFICES ASSUME NEW j \in Jobs, job[j].for = "save"
             PROVE  /\ job[j].parent = 0 => job[j].told = [n \in DOMAIN job[j].made |-> job[j].made[n].key]
                    /\ \A n \in DOMAIN job[j].told :
                         \/ Cardinality({c \in Under(job[j].told[n]) : items[c].type = "note"}) = job[j].made[n].notes
                         \/ \E i \in DOMAIN items : items[i] = Gone
  BY DEF SavedIsTold
<1>1. /\ job[j].told \in Seq(Nat) /\ DOMAIN job[j].told = 1 .. Len(job[j].told) /\ Len(job[j].told) \in Nat
      /\ DOMAIN job[j].made = 1 .. Len(job[j].made) /\ Len(job[j].made) \in Nat /\ job[j].notes \in Nat
      /\ \A n \in DOMAIN job[j].made : job[j].made[n].key \in 1 .. Len(items) /\ job[j].made[n].notes \in Nat
  BY SaverTypes
<1>2. Telling(job[j])
  BY DEF Saves
<1>3. job[j].parent = 0 => job[j].told = [n \in DOMAIN job[j].made |-> job[j].made[n].key]
  <2> HAVE job[j].parent = 0
  <2>1. Len(job[j].made) = Len(job[j].told)
    BY <1>1, <1>2 DEF Telling
  <2>2. job[j].told = [n \in 1 .. Len(job[j].told) |-> job[j].told[n]]
    BY <1>1
  <2>3. \A n \in 1 .. Len(job[j].told) : job[j].told[n] = job[j].made[n].key
    BY <1>1, <1>2 DEF Telling
  <2> QED BY <1>1, <2>1, <2>2, <2>3
<1>4. ASSUME NEW n \in DOMAIN job[j].told, \A i \in DOMAIN items : items[i] # Gone
      PROVE  Cardinality(NotesUnder(job[j].told[n])) = job[j].made[n].notes
  <2>1. n \in DOMAIN job[j].made /\ job[j].told[n] = job[j].made[n].key
    <3>1. job[j].told[n] = job[j].made[n].key
      BY <1>2 DEF Telling
    <3>2. Len(job[j].made) \in Nat /\ Len(job[j].told) \in Nat /\ DOMAIN job[j].made = 1 .. Len(job[j].made)
      BY <1>1
    <3>3. DOMAIN job[j].told = 1 .. Len(job[j].told)
      BY <1>1
    <3>4. Len(job[j].made) = Len(job[j].told) \/ Len(job[j].made) = Len(job[j].told) + 1
      BY <1>2 DEF Telling
    <3>5. n \in 1 .. Len(job[j].made)
      BY <3>2, <3>3, <3>4
    <3> QED BY <3>1, <3>2, <3>5
  <2>2. Left(job[j], n) = 0
    <3>1. CASE job[j].parent = 0
      BY <1>1, <2>1, <3>1 DEF Left
    <3>2. CASE job[j].parent # 0
      <4>1. Len(job[j].made) = Len(job[j].told) + 1 /\ job[j].parent = job[j].made[Len(job[j].made)].key
        BY <1>2, <3>2 DEF Telling
      <4>2. Len(job[j].made) \in DOMAIN job[j].made /\ n # Len(job[j].made)
        BY SMTT(30), <1>1, <4>1
      <4>3. job[j].made[n].key # job[j].made[Len(job[j].made)].key
        BY <2>1, <4>2 DEF Saves
      <4> QED BY <4>1, <4>3 DEF Left
    <3> QED BY <3>1, <3>2
  <2>3. Cardinality(NotesUnder(job[j].made[n].key)) + Left(job[j], n) = job[j].made[n].notes
    BY <1>4, <2>1 DEF Saves, Counted
  <2> QED BY <2>1, <2>2, <2>3, NotesAreFinite
<1> QED BY <1>3, <1>4 DEF NotesUnder

\* A request that tells what it told, and one that told nothing yet.
SameTale(r, s) == r.for = "save" /\ s.parent = r.parent /\ s.notes = r.notes /\ s.made = r.made /\ s.told = r.told
NoTale(s) == s.parent = 0 /\ s.made = <<>> /\ s.told = <<>>

\* They tell what is so when it was.
LEMMA TalesAreTold ==
  ASSUME NEW r, NEW s
  PROVE  /\ SameTale(r, s) => (Telling(r) => Telling(s)) /\ \A n : Left(s, n) = Left(r, n)
         /\ NoTale(s) => Telling(s)
<1>1. Len(<<>>) = 0 /\ DOMAIN <<>> = {}
  OBVIOUS
<1>2. SameTale(r, s) => (Telling(r) => Telling(s))
  BY DEF SameTale, Telling
<1>3. SameTale(r, s) => \A n : Left(s, n) = Left(r, n)
  BY DEF SameTale, Left
<1>4. NoTale(s) => Telling(s)
  BY <1>1 DEF NoTale, Telling
<1> QED BY <1>2, <1>3, <1>4

\* A step that tells nobody anything, after which the papers have the notes
\* that they had.
LEMMA SavesStay ==
  ASSUME Shape, Saves, \A i \in Jobs : job'[i].for = "save" => SameTale(job[i], job'[i]) \/ NoTale(job'[i]),
         \/ \E k \in DOMAIN items' : items'[k] = Gone
         \/ /\ \A k \in DOMAIN items : items[k] # Gone
            /\ \A p \in DOMAIN items : NotesUnder(p)' = NotesUnder(p)
  PROVE  Saves'
<1>1. ASSUME NEW i \in Jobs, job'[i].for = "save" PROVE Telling(job'[i])
  <2>1. CASE SameTale(job[i], job'[i])
    <3>1. Telling(job[i])
      BY <2>1 DEF SameTale, Saves
    <3> QED BY <2>1, <3>1, TalesAreTold
  <2>2. CASE NoTale(job'[i])
    BY <2>2, TalesAreTold
  <2> QED BY <1>1, <2>1, <2>2
<1>2. ASSUME NEW i \in Jobs, job'[i].for = "save", NEW n \in DOMAIN job'[i].made
      PROVE  SameTale(job[i], job'[i])
  BY <1>2 DEF NoTale
<1>3. ASSUME NEW i \in Jobs, NEW j \in Jobs, job'[i].for = "save", job'[j].for = "save",
             NEW m \in DOMAIN job'[i].made, NEW n \in DOMAIN job'[j].made, job'[i].made[m].key = job'[j].made[n].key
      PROVE  i = j /\ m = n
  BY <1>2, <1>3 DEF SameTale, Saves
<1>4. ASSUME \A k \in DOMAIN items : items[k] # Gone, \A p \in DOMAIN items : NotesUnder(p)' = NotesUnder(p),
             NEW i \in Jobs, job'[i].for = "save", NEW n \in DOMAIN job'[i].made
      PROVE  (Cardinality(NotesUnder(job[i].made[n].key)) + Left(job[i], n) = job[i].made[n].notes)'
  <2>1. job'[i].made = job[i].made /\ job'[i].parent = job[i].parent /\ job'[i].notes = job[i].notes /\ job[i].for = "save"
    BY <1>2, <1>4 DEF SameTale
  <2>2. PICK p : p = job'[i].made[n].key
    OBVIOUS
  <2>3. p \in DOMAIN items /\ p = job[i].made[n].key
    BY <1>4, <2>1, <2>2, SaverTypes, Counts
  <2>4. Cardinality(NotesUnder(p)) + Left(job[i], n) = job[i].made[n].notes
    BY <1>4, <2>1, <2>3 DEF Saves, Counted
  <2>5. NotesUnder(p)' = NotesUnder(p)
    BY <1>4, <2>3
  <2>6. Left(job'[i], n) = Left(job[i], n)
    BY <1>2, <1>4, TalesAreTold
  <2>7. NotesUnder(job[i].made[n].key)' = NotesUnder(p)
    BY <2>2, <2>5 DEF NotesUnder, Under, Live
  <2> QED BY <2>1, <2>2, <2>3, <2>4, <2>6, <2>7
<1> QED BY <1>1, <1>3, <1>4 DEF Saves, Counted

\* One that is of one request.
LEMMA OneTells ==
  ASSUME Shape, Saves, NEW j \in Jobs, NEW next, Go(j, next), next.for = "save" => SameTale(job[j], next) \/ NoTale(next),
         \A p \in DOMAIN items : NotesUnder(p)' = NotesUnder(p),
         (\E k \in DOMAIN items : items[k] = Gone) => \E k \in DOMAIN items' : items'[k] = Gone
  PROVE  Saves'
<1>1. DOMAIN job' = Jobs /\ job'[j] = next /\ \A i \in Jobs : i # j => job'[i] = job[i]
  BY OneGoes DEF Shape, Go
<1>2. \A i \in Jobs : job'[i].for = "save" => SameTale(job[i], job'[i]) \/ NoTale(job'[i])
  BY <1>1 DEF SameTale
<1> QED BY <1>2, SavesStay

\* The papers keep their notes when nothing is put, or something else.
LEMMA NotesStay ==
  ASSUME Shape, UNCHANGED items \/ \E record : items' = Fresh(record) /\ record.type # "note"
  PROVE  /\ \A p : NotesUnder(p)' = NotesUnder(p)
         /\ (\E k \in DOMAIN items : items[k] = Gone) => \E k \in DOMAIN items' : items'[k] = Gone
<1>1. CASE UNCHANGED items
  BY <1>1 DEF NotesUnder, Under, Live
<1>2. ASSUME NEW record, items' = Fresh(record), record.type # "note"
      PROVE  /\ \A p : NotesUnder(p)' = NotesUnder(p)
             /\ (\E k \in DOMAIN items : items[k] = Gone) => \E k \in DOMAIN items' : items'[k] = Gone
  <2>1. /\ DOMAIN items' = DOMAIN items \cup {Len(items) + 1} /\ \A k \in DOMAIN items : items'[k] = items[k]
        /\ items'[Len(items) + 1] = record
    BY <1>2, AtTheEnd DEF Shape, Fresh
  <2>2. ASSUME NEW p PROVE NotesUnder(p)' = NotesUnder(p)
    BY <1>2, <2>1 DEF NotesUnder, Under, Live
  <2> QED BY <2>1, <2>2
<1> QED BY <1>1, <1>2

\* The names are written down: every paper keeps its notes.
LEMMA NamesTell == ASSUME Shape, Saves, NEW j \in Jobs, RecordNames(j) PROVE Saves'
<1>1. Go(j, Idle) /\ Idle.for # "save" /\ items' = [k \in DOMAIN items |-> Recorded(j, k)] /\ job[j].for = "names"
  BY DEF RecordNames, Idle, Shape, IsJob
<1>2. ASSUME NEW k \in DOMAIN items
      PROVE  /\ items'[k].type = items[k].type /\ items'[k].parent = items[k].parent
             /\ items[k] = Gone => items'[k] = Gone
  <2>1. \/ items'[k] = items[k]
        \/ Live(k) /\ \E name : items'[k] = [items[k] EXCEPT !.name = name]
    BY <1>1, RecordedIsMoved
  <2>2. ASSUME Live(k), NEW name, items'[k] = [items[k] EXCEPT !.name = name]
        PROVE  /\ items'[k].type = items[k].type /\ items'[k].parent = items[k].parent /\ items[k] # Gone
    <3>1. DOMAIN items[k] = {"type", "parent", "url", "name", "fields", "creators"} /\ items[k] # Gone
      BY <2>2 DEF Shape, IsItem, Live, Gone
    <3> QED BY <2>2, <3>1
  <2> QED BY <2>1, <2>2
<1>3. \A p : NotesUnder(p)' = NotesUnder(p)
  BY <1>1, <1>2 DEF NotesUnder, Under, Live
<1>4. (\E k \in DOMAIN items : items[k] = Gone) => \E k \in DOMAIN items' : items'[k] = Gone
  BY <1>1, <1>2
<1> QED BY <1>1, <1>3, <1>4, OneTells

\* The steps of a request that tell nobody anything.
LEMMA RequestTells ==
  ASSUME Shape, Saves, NEW j \in Jobs,
         \/ \E k \in DOMAIN items :
              \/ \E a \in DOMAIN Web \cup {Nowhere} : Fetch(j, k, a)
              \/ Upload(j, k) \/ \E x \in DOMAIN Kinds : StorePicture(j, k, Kinds[x])
         \/ \E row \in wanted : TakeWanted(j, row)
         \/ Download(j) \/ DownloadFails(j) \/ LookForAttachment(j) \/ CreateAttachment(j)
         \/ OpenTemp(j) \/ Fill(j) \/ Swap(j)
         \/ \E template \in Templates : Rename(j, template)
         \/ LookForTarget(j) \/ MoveFile(j)
         \/ \E page \in Pages : SaveItems(j, page)
         \/ SaveFile(j) \/ AnswerSaved(j) \/ Stop(j)
  PROVE  Saves'
<1>0. IsJob(job[j], Len(items), Len(content)) /\ DOMAIN job[j] = JobFields
  BY DEF Shape, IsJob
<1>1. UNCHANGED items \/ \E record : items' = Fresh(record) /\ record.type # "note"
  <2>1. \A p, a, name : Child("attachment", p, a, name).type # "note"
    BY DEF Child
  <2>2. CreateAttachment(j) => UNCHANGED items \/ \E record : items' = Fresh(record) /\ record.type # "note"
    BY <2>1 DEF CreateAttachment
  <2> QED BY <2>2 DEF Fetch, Upload, StorePicture, TakeWanted, Download, DownloadFails, LookForAttachment, OpenTemp, Fill, Swap,
                      Rename, LookForTarget, MoveFile, SaveItems, SaveFile, AnswerSaved, Stop
<1>2. ASSUME NEW next, Go(j, next), next.for = "save" => SameTale(job[j], next) \/ NoTale(next) PROVE Saves'
  BY <1>1, <1>2, NotesStay, OneTells
<1>3. Idle.for = "nobody" /\ Idle.at = "idle"
  BY DEF Idle
<1>4. Attached(j).for = "save" => SameTale(job[j], Attached(j))
  BY <1>0, <1>3 DEF Attached, SameTale, JobFields
<1>5. \A p, a, for : Attach(Idle, for, p, a).for = for
  BY DEF Attach, Idle
<1>6. ASSUME NEW k, NEW a, Fetch(j, k, a) PROVE Saves'
  <2>1. PICK b : Go(j, Attach(Idle, "fetch", k, b))
    BY <1>6 DEF Fetch
  <2> QED BY <1>2, <1>5, <2>1
<1>7. ASSUME NEW k, Upload(j, k) PROVE Saves'
  <2>1. PICK next : next = [Idle EXCEPT !.at = "open", !.for = "upload", !.key = k, !.path = Path(k, items[k].name), !.bytes = writes + 1]
    OBVIOUS
  <2>2. next.for = "upload" /\ Go(j, next)
    BY <1>7, <2>1 DEF Idle, Upload
  <2> QED BY <1>2, <2>2
<1>8. ASSUME NEW k, NEW kind, StorePicture(j, k, kind) PROVE Saves'
  <2>1. PICK next : next = [Idle EXCEPT !.at = "open", !.for = "picture", !.key = k, !.path = Picture(k, kind), !.bytes = Served(k)]
    OBVIOUS
  <2>2. next.for = "picture" /\ Go(j, next)
    BY <1>8, <2>1 DEF Idle, StorePicture
  <2> QED BY <1>2, <2>2
<1>9. ASSUME NEW row, TakeWanted(j, row) PROVE Saves'
  <2>1. Go(j, Attach(Idle, "worker", row.paper, row.url))
    BY <1>9 DEF TakeWanted
  <2> QED BY <1>2, <1>5, <2>1
<1>10. ASSUME NEW next, Go(j, next), job[j].for = "save" /\ next.for = "save" => SameTale(job[j], next), next.for = job[j].for
       PROVE  Saves'
  BY <1>2, <1>10
<1>12. CASE Download(j) \/ DownloadFails(j) \/ Swap(j)
  <2>1. \A b : LET next == [job[j] EXCEPT !.at = "look", !.bytes = b] IN
          next.for = job[j].for /\ (job[j].for = "save" => SameTale(job[j], next))
    BY <1>0 DEF JobFields, SameTale
  <2>2. \A c : LET next == [job[j] EXCEPT !.at = "follow", !.url = c] IN
          next.for = job[j].for /\ (job[j].for = "save" => SameTale(job[j], next))
    BY <1>0 DEF JobFields, SameTale
  <2>3. \/ \E b : Go(j, [job[j] EXCEPT !.at = "look", !.bytes = b])
        \/ \E c : Go(j, [job[j] EXCEPT !.at = "follow", !.url = c])
        \/ Go(j, Attached(j))
    BY <1>12 DEF Download, DownloadFails, Swap
  <2> QED BY <1>2, <1>4, <1>10, <2>1, <2>2, <2>3
<1>13. CASE LookForAttachment(j) \/ CreateAttachment(j)
  <2>1. LET next == [job[j] EXCEPT !.at = "create"] IN next.for = job[j].for /\ (job[j].for = "save" => SameTale(job[j], next))
    BY <1>0 DEF JobFields, SameTale
  <2>2. \A k : Into(j, k).for = job[j].for /\ (job[j].for = "save" => SameTale(job[j], Into(j, k)))
    BY <1>0 DEF JobFields, SameTale, Into
  <2>3. Go(j, [job[j] EXCEPT !.at = "create"]) \/ (\E k : Go(j, Into(j, k))) \/ Go(j, Attached(j))
    BY <1>13 DEF LookForAttachment, CreateAttachment
  <2> QED BY <1>2, <1>4, <1>10, <2>1, <2>2, <2>3
<1>14. CASE OpenTemp(j) \/ Fill(j)
  <2>1. \A f : LET next == [job[j] EXCEPT !.at = "fill", !.file = f] IN
          next.for = job[j].for /\ (job[j].for = "save" => SameTale(job[j], next))
    BY <1>0 DEF JobFields, SameTale
  <2>2. LET next == [job[j] EXCEPT !.at = "swap"] IN next.for = job[j].for /\ (job[j].for = "save" => SameTale(job[j], next))
    BY <1>0 DEF JobFields, SameTale
  <2>3. (\E f : Go(j, [job[j] EXCEPT !.at = "fill", !.file = f])) \/ Go(j, [job[j] EXCEPT !.at = "swap"])
    BY <1>14 DEF OpenTemp, Fill
  <2> QED BY <1>10, <2>1, <2>2, <2>3
<1>15. ASSUME NEW template, Rename(j, template) PROVE Saves'
  <2>1. \A todo : [Idle EXCEPT !.at = "names", !.for = "names", !.todo = todo].for = "names"
    BY DEF Idle
  <2>2. \E todo : Go(j, [Idle EXCEPT !.at = "names", !.for = "names", !.todo = todo])
    BY <1>15 DEF Rename
  <2> QED BY <1>2, <2>1, <2>2
<1>16. CASE LookForTarget(j) \/ MoveFile(j)
  <2>1. job[j].for = "names"
    BY <1>0, <1>16 DEF LookForTarget, MoveFile, IsJob
  <2>2. \A a, todo, moved :
          /\ [job[j] EXCEPT !.todo = todo].for = "names" /\ [job[j] EXCEPT !.at = a].for = "names"
          /\ [job[j] EXCEPT !.at = a, !.todo = todo, !.moved = moved].for = "names"
          /\ [job[j] EXCEPT !.at = a, !.todo = todo].for = "names"
    BY <1>0, <2>1 DEF JobFields
  <2>3. \E a, todo, moved :
          \/ Go(j, [job[j] EXCEPT !.todo = todo]) \/ Go(j, [job[j] EXCEPT !.at = a])
          \/ Go(j, [job[j] EXCEPT !.at = a, !.todo = todo, !.moved = moved])
          \/ Go(j, [job[j] EXCEPT !.at = a, !.todo = todo])
    <3>1. \E a, todo : LookForTarget(j) => Go(j, [job[j] EXCEPT !.todo = todo]) \/ Go(j, [job[j] EXCEPT !.at = a])
      BY DEF LookForTarget
    <3>2. \E a, todo, moved : MoveFile(j) => \/ Go(j, [job[j] EXCEPT !.at = a, !.todo = todo, !.moved = moved])
                                             \/ Go(j, [job[j] EXCEPT !.at = a, !.todo = todo])
      BY DEF MoveFile
    <3> QED BY <1>16, <3>1, <3>2
  <2> QED BY <1>2, <2>2, <2>3
<1>17. ASSUME NEW page, SaveItems(j, page) PROVE Saves'
  <2>1. PICK next : next = [Idle EXCEPT !.at = "saving", !.for = "save", !.todo = page]
    OBVIOUS
  <2>2. Go(j, next)
    BY <1>17, <2>1 DEF SaveItems
  <2>3. NoTale(next)
    BY <2>1 DEF Idle, NoTale
  <2> QED BY <1>2, <2>2, <2>3
<1>18. CASE SaveFile(j)
  <2>1. job[j].for = "save"
    BY <1>0, <1>18 DEF SaveFile, Saving, IsJob
  <2>2. \A files, a : LET next == [job[j] EXCEPT !.files = files] IN
          SameTale(job[j], next) /\ SameTale(job[j], Attach(next, "save", job[j].parent, a))
    BY <1>0, <2>1 DEF JobFields, Attach, SameTale
  <2>3. \E files : LET next == [job[j] EXCEPT !.files = files] IN Go(j, next) \/ \E a : Go(j, Attach(next, "save", job[j].parent, a))
    BY <1>18 DEF SaveFile
  <2> QED BY <1>2, <2>2, <2>3
<1>19. CASE AnswerSaved(j) \/ Stop(j)
  BY <1>2, <1>3, <1>19 DEF AnswerSaved, Stop
<1> QED BY <1>6, <1>7, <1>8, <1>9, <1>12, <1>13, <1>14, <1>15, <1>16, <1>17, <1>18, <1>19

\* A step of an extension's request that tells more, or that made more.
LEMMA OneSaver ==
  ASSUME Shape, Saves, NEW j \in Jobs, NEW next, Go(j, next), job[j].for = "save", Telling(next),
         \A m, n \in DOMAIN next.made : next.made[m].key = next.made[n].key => m = n,
         \A m \in DOMAIN next.made : \/ next.made[m].key \notin DOMAIN items
                                     \/ \E n \in DOMAIN job[j].made : next.made[m].key = job[j].made[n].key,
         \/ \E k \in DOMAIN items' : items'[k] = Gone
         \/ /\ \A k \in DOMAIN items : items[k] # Gone
            /\ \A n \in DOMAIN next.made : Cardinality(NotesUnder(next.made[n].key)') + Left(next, n) = next.made[n].notes
            /\ \A p \in DOMAIN items : (\A n \in DOMAIN job[j].made : job[j].made[n].key # p) => NotesUnder(p)' = NotesUnder(p)
  PROVE  Saves'
<1>1. DOMAIN job' = Jobs /\ job'[j] = next /\ \A i \in Jobs : i # j => job'[i] = job[i]
  BY OneGoes DEF Shape, Go
<1>2. \A i \in Jobs : job'[i].for = "save" => Telling(job'[i])
  BY <1>1 DEF Saves
<1>3. ASSUME NEW i \in Jobs, i # j, job[i].for = "save", NEW m \in DOMAIN job[i].made, NEW n \in DOMAIN next.made
      PROVE  job[i].made[m].key # next.made[n].key
  <2>1. job[i].made[m].key \in DOMAIN items
    BY <1>3, SaverTypes, Counts
  <2>2. \A o \in DOMAIN job[j].made : job[i].made[m].key # job[j].made[o].key
    BY <1>3 DEF Saves
  <2> QED BY <1>3, <2>1, <2>2
<1>4. ASSUME NEW i \in Jobs, NEW h \in Jobs, job'[i].for = "save", job'[h].for = "save",
             NEW m \in DOMAIN job'[i].made, NEW n \in DOMAIN job'[h].made, job'[i].made[m].key = job'[h].made[n].key
      PROVE  i = h /\ m = n
  <2>1. CASE i = j /\ h = j
    BY <1>1, <1>4, <2>1
  <2>2. CASE i # j /\ h = j
    BY <1>1, <1>3, <1>4, <2>2
  <2>3. CASE i = j /\ h # j
    BY <1>1, <1>3, <1>4, <2>3
  <2>4. CASE i # j /\ h # j
    BY <1>1, <1>4, <2>4 DEF Saves
  <2> QED BY <2>1, <2>2, <2>3, <2>4
<1>5. ASSUME \A k \in DOMAIN items : items[k] # Gone,
             \A n \in DOMAIN next.made : Cardinality(NotesUnder(next.made[n].key)') + Left(next, n) = next.made[n].notes,
             \A p \in DOMAIN items : (\A n \in DOMAIN job[j].made : job[j].made[n].key # p) => NotesUnder(p)' = NotesUnder(p),
             NEW i \in Jobs, job'[i].for = "save", NEW n \in DOMAIN job'[i].made
      PROVE  (Cardinality(NotesUnder(job[i].made[n].key)) + Left(job[i], n) = job[i].made[n].notes)'
  <2>1. CASE i = j
    <3>1. Cardinality(NotesUnder(next.made[n].key)') + Left(next, n) = next.made[n].notes
      BY <1>1, <1>5, <2>1
    <3>2. NotesUnder(job[i].made[n].key)' = NotesUnder(next.made[n].key)'
      BY <1>1, <2>1 DEF NotesUnder, Under, Live
    <3>3. Left(job[i], n)' = Left(next, n)
      BY <1>1, <2>1 DEF Left
    <3> QED BY <1>1, <2>1, <3>1, <3>2, <3>3
  <2>2. CASE i # j
    <3>1. job'[i] = job[i]
      BY <1>1, <2>2
    <3>2. PICK p : p = job[i].made[n].key
      OBVIOUS
    <3>3. p \in DOMAIN items
      BY <1>5, <3>1, <3>2, SaverTypes, Counts
    <3>4. \A o \in DOMAIN job[j].made : job[j].made[o].key # p
      BY <1>5, <2>2, <3>1, <3>2 DEF Saves
    <3>5. NotesUnder(p)' = NotesUnder(p)
      BY <1>5, <3>3, <3>4
    <3>6. NotesUnder(job[i].made[n].key)' = NotesUnder(p)
      BY <3>1, <3>2, <3>5 DEF NotesUnder, Under, Live
    <3>7. Cardinality(NotesUnder(p)) + Left(job[i], n) = job[i].made[n].notes
      BY <1>5, <3>1, <3>2 DEF Saves, Counted
    <3>8. Left(job[i], n)' = Left(job[i], n)
      BY <3>1 DEF Left
    <3> QED BY <3>1, <3>6, <3>7, <3>8
  <2> QED BY <2>1, <2>2
<1> QED BY <1>2, <1>4, <1>5 DEF Saves, Counted

\* A paper is done: it will be told of.
LEMMA SavedTells == ASSUME Shape, Saves, NEW j \in Jobs, Saved(j) PROVE Saves'
<1>0. job[j].for = "save" /\ job[j].notes = 0 /\ job[j].parent # 0
  BY DEF Shape, IsJob, Saved, Between, Saving
<1>1. /\ DOMAIN job[j] = JobFields /\ job[j].told \in Seq(Nat) /\ Len(job[j].told) \in Nat
      /\ DOMAIN job[j].told = 1 .. Len(job[j].told)
      /\ DOMAIN job[j].made = 1 .. Len(job[j].made) /\ job[j].parent \in Nat
  BY <1>0, SaverTypes, Counts
<1>2. PICK next : next = [job[j] EXCEPT !.told = Append(@, job[j].parent), !.parent = 0]
  OBVIOUS
<1>3. /\ next.parent = 0 /\ next.told = Append(job[j].told, job[j].parent) /\ next.made = job[j].made
      /\ next.notes = 0
  BY <1>0, <1>1, <1>2 DEF JobFields
<1>4. Telling(job[j])
  BY <1>0 DEF Saves
<1>5. /\ Len(next.told) = Len(job[j].told) + 1 /\ DOMAIN next.told = 1 .. Len(job[j].told) + 1
      /\ \A n \in DOMAIN job[j].told : next.told[n] = job[j].told[n]
      /\ next.told[Len(job[j].told) + 1] = job[j].parent
  BY <1>1, <1>3, LastOf
<1>6. Len(job[j].made) = Len(job[j].told) + 1 /\ job[j].parent = job[j].made[Len(job[j].made)].key
  BY <1>0, <1>4 DEF Telling
<1>7. Telling(next)
  <2>1. ASSUME NEW n \in DOMAIN next.told PROVE next.told[n] = next.made[n].key
    <3>1. CASE n \in DOMAIN job[j].told
      BY <1>3, <1>4, <1>5, <3>1 DEF Telling
    <3>2. CASE n = Len(job[j].told) + 1
      BY <1>3, <1>5, <1>6, <3>2
    <3> QED BY SMTT(30), <1>1, <1>5, <2>1, <3>1, <3>2
  <2> QED BY <1>3, <1>5, <1>6, <2>1 DEF Telling
<1>8. Go(j, next) /\ UNCHANGED items
  BY <1>2 DEF Saved
<1>9. \A p : NotesUnder(p)' = NotesUnder(p)
  BY <1>8, NotesStay
<1>10. \A n : Left(next, n) = 0 /\ Left(job[j], n) = 0
  BY <1>0, <1>3 DEF Left
<1>11. ASSUME \A k \in DOMAIN items : items[k] # Gone, NEW n \in DOMAIN next.made
       PROVE  Cardinality(NotesUnder(next.made[n].key)') + Left(next, n) = next.made[n].notes
  <2>1. Cardinality(NotesUnder(job[j].made[n].key)) + Left(job[j], n) = job[j].made[n].notes
    BY <1>0, <1>3, <1>11 DEF Saves, Counted
  <2> QED BY <1>3, <1>9, <1>10, <2>1
<1>12. \A m, n \in DOMAIN next.made : next.made[m].key = next.made[n].key => m = n
  BY <1>0, <1>3 DEF Saves
<1> QED BY <1>0, <1>3, <1>7, <1>8, <1>9, <1>11, <1>12, OneSaver

\* A note is put under the paper that is being saved.
LEMMA NoteTells == ASSUME Shape, Saves, NEW j \in Jobs, SaveNote(j) PROVE Saves'
<1>0. job[j].for = "save" /\ job[j].notes > 0
  BY DEF Shape, IsJob, SaveNote, Saving
<1>1. /\ DOMAIN job[j] = JobFields /\ job[j].notes \in Nat /\ job[j].parent \in 0 .. Len(items)
      /\ DOMAIN job[j].made = 1 .. Len(job[j].made) /\ Len(job[j].made) \in Nat
      /\ \A n \in DOMAIN job[j].made : job[j].made[n].notes \in Nat /\ job[j].made[n].key \in 1 .. Len(items)
  BY <1>0, SaverTypes
<1>2. job[j].parent # 0
  <2>1. IsJob(job[j], Len(items), Len(content))
    BY DEF Shape
  <2> QED BY <1>0, <2>1 DEF IsJob
<1>3. PICK next : next = [job[j] EXCEPT !.notes = @ - 1]
  OBVIOUS
<1>4. next.parent = job[j].parent /\ next.notes = job[j].notes - 1 /\ next.made = job[j].made /\ next.told = job[j].told
  BY <1>1, <1>3 DEF JobFields
<1>5. Go(j, next)
  BY <1>3 DEF SaveNote
<1>6. Telling(job[j])
  BY <1>0 DEF Saves
<1>7. Telling(next)
  BY <1>4, <1>6 DEF Telling
<1>8. \A m, n \in DOMAIN next.made : next.made[m].key = next.made[n].key => m = n
  BY <1>0, <1>4 DEF Saves
<1>9. PICK p : p = job[j].parent
  OBVIOUS
<1>10. p \in DOMAIN items /\ \E n \in DOMAIN job[j].made : job[j].made[n].key = p
  <2>1. Len(job[j].made) = Len(job[j].told) + 1 /\ p = job[j].made[Len(job[j].made)].key
    BY <1>2, <1>6, <1>9 DEF Telling
  <2>2. Len(job[j].told) \in Nat
    BY <1>0, SaverTypes
  <2>3. Len(job[j].made) \in DOMAIN job[j].made
    BY <1>1, <2>1, <2>2
  <2> QED BY <1>1, <2>1, <2>3, Counts
<1>11. CASE ~Live(p)
  <2>1. items[p] = Gone /\ UNCHANGED items
    BY <1>9, <1>10, <1>11 DEF Live, Shape, IsItem, Gone, SaveNote
  <2> QED BY <1>0, <1>4, <1>5, <1>7, <1>8, <1>10, <2>1, OneSaver
<1>12. CASE Live(p)
  <2>1. PICK record : items' = Fresh(record) /\ record.type = "note" /\ record.parent = p
    <3>1. items' = Fresh(Child("note", p, Nowhere, NoName))
      BY <1>9, <1>12 DEF SaveNote
    <3>2. Child("note", p, Nowhere, NoName).type = "note" /\ Child("note", p, Nowhere, NoName).parent = p
      BY DEF Child
    <3> QED BY <3>1, <3>2
  <2>2. /\ DOMAIN items' = DOMAIN items \cup {Len(items) + 1} /\ \A k \in DOMAIN items : items'[k] = items[k]
        /\ items'[Len(items) + 1] = record
    BY <2>1, AtTheEnd DEF Shape, Fresh
  <2>3. NotesUnder(p)' = NotesUnder(p) \cup {Len(items) + 1}
    BY <2>1, <2>2 DEF NotesUnder, Under, Live
  <2>4. \A q : q # p => NotesUnder(q)' = NotesUnder(q)
    BY <2>1, <2>2 DEF NotesUnder, Under, Live
  <2>5. Cardinality(NotesUnder(p)') = Cardinality(NotesUnder(p)) + 1 /\ Cardinality(NotesUnder(p)) \in Nat
    <3>1. IsFiniteSet(NotesUnder(p)) /\ Cardinality(NotesUnder(p)) \in Nat
      BY NotesAreFinite
    <3>2. Len(items) + 1 \notin NotesUnder(p)
      BY Counts DEF NotesUnder, Under
    <3> QED BY <2>3, <3>1, <3>2, FS_AddElement
  <2>6. ASSUME \A k \in DOMAIN items : items[k] # Gone, NEW n \in DOMAIN next.made
        PROVE  Cardinality(NotesUnder(next.made[n].key)') + Left(next, n) = next.made[n].notes
    <3>1. Cardinality(NotesUnder(job[j].made[n].key)) + Left(job[j], n) = job[j].made[n].notes
      BY <1>0, <1>4, <2>6 DEF Saves, Counted
    <3>2. PICK q : q = next.made[n].key
      OBVIOUS
    <3>3. Cardinality(NotesUnder(q)) \in Nat
      BY NotesAreFinite
    <3>4. CASE q = p
      <4>1. Left(job[j], n) = job[j].notes /\ Left(next, n) = job[j].notes - 1
        BY <1>4, <1>9, <3>2, <3>4 DEF Left
      <4>2. Cardinality(NotesUnder(p)) + job[j].notes = next.made[n].notes
        BY <1>4, <3>1, <3>2, <3>4, <4>1
      <4>3. Cardinality(NotesUnder(p)') + (job[j].notes - 1) = next.made[n].notes
        <5>1. \A a, b \in Nat : (a + 1) + (b - 1) = a + b
          OBVIOUS
        <5>2. PICK a \in Nat, b \in Nat : a = Cardinality(NotesUnder(p)) /\ b = job[j].notes
          BY <1>1, <2>5
        <5> QED BY <2>5, <4>2, <5>1, <5>2
      <4> QED BY <3>2, <3>4, <4>1, <4>3
    <3>5. CASE q # p
      <4>1. Left(job[j], n) = 0 /\ Left(next, n) = 0
        BY <1>4, <1>9, <3>2, <3>5 DEF Left
      <4> QED BY <1>4, <2>4, <3>1, <3>2, <3>5, <4>1
    <3> QED BY <3>4, <3>5
  <2>7. \A q \in DOMAIN items : (\A n \in DOMAIN job[j].made : job[j].made[n].key # q) => NotesUnder(q)' = NotesUnder(q)
    BY <1>10, <2>4
  <2>8. (\E k \in DOMAIN items : items[k] = Gone) => \E k \in DOMAIN items' : items'[k] = Gone
    BY <2>2
  <2> QED BY <1>0, <1>4, <1>5, <1>7, <1>8, <2>6, <2>7, <2>8, OneSaver
<1> QED BY <1>11, <1>12

\* A paper is put, or what was sent of it is refused.
LEMMA ItemTells == ASSUME Shape, Saves, NEW j \in Jobs, SaveItem(j) PROVE Saves'
<1>0. job[j].for = "save" /\ job[j].parent = 0 /\ job[j].todo # <<>> /\ job[j].notes = 0
  BY DEF Shape, IsJob, SaveItem, Between, Saving
<1>1. /\ DOMAIN job[j] = JobFields
      /\ DOMAIN job[j].made = 1 .. Len(job[j].made) /\ Len(job[j].made) \in Nat
      /\ \A n \in DOMAIN job[j].made : job[j].made[n].key \in 1 .. Len(items)
      /\ Len(items) \in Nat /\ DOMAIN items = 1 .. Len(items)
  BY <1>0, SaverTypes, Counts
<1>2. Telling(job[j])
  BY <1>0 DEF Saves
<1>3. PICK object : object = Head(job[j].todo)
  OBVIOUS
<1>4. CASE ~Accepted(object)
  <2>1. \A todo : SameTale(job[j], [job[j] EXCEPT !.todo = todo])
    BY <1>0, <1>1 DEF JobFields, SameTale
  <2>2. UNCHANGED items /\ \E todo : Go(j, [job[j] EXCEPT !.todo = todo])
    BY <1>3, <1>4 DEF SaveItem
  <2> QED BY <2>1, <2>2, NotesStay, OneTells
<1>5. CASE Accepted(object)
  <2>1. PICK n : n = NotesIn(object)
    OBVIOUS
  <2>2. PICK one : one = [key |-> NextKey, notes |-> n]
    OBVIOUS
  <2>3. n \in Nat /\ one.key = Len(items) + 1 /\ one.notes = n
    <3>1. object \in Objects
      <4>1. job[j].todo \in Seq(Objects)
        BY <1>0 DEF Shape, IsJob
      <4> QED BY <1>0, <1>3, <4>1, FirstOf
    <3> QED BY <2>1, <2>2, <3>1, NotesAreCounted DEF NextKey
  <2>4. PICK next : next = [[job[j] EXCEPT !.todo = Tail(@)] EXCEPT !.parent = NextKey, !.notes = n, !.files = object.files,
                                                                     !.made = Append(@, one)]
    OBVIOUS
  <2>5. /\ next.parent = Len(items) + 1 /\ next.notes = n /\ next.told = job[j].told /\ next.made = Append(job[j].made, one)
    BY <1>1, <2>4 DEF JobFields, NextKey
  <2>6. /\ Len(next.made) = Len(job[j].made) + 1 /\ DOMAIN next.made = 1 .. Len(job[j].made) + 1
        /\ \A x \in DOMAIN job[j].made : next.made[x] = job[j].made[x]
        /\ next.made[Len(job[j].made) + 1] = one
    <3>1. PICK S : job[j].made \in Seq(S) /\ one \in S
      <4>1. one \in [key : Nat, notes : Nat]
        BY <1>1, <2>2, <2>3
      <4> QED BY <1>0, <4>1, SaverTypes
    <3> QED BY <2>5, <3>1, LastOf
  <2>7. Go(j, next) /\ items' = Fresh(Paper(Draft(object)))
    BY <1>3, <1>5, <2>1, <2>2, <2>4 DEF SaveItem
  <2>8. Telling(next)
    <3>1. Len(job[j].made) = Len(job[j].told) /\ \A x \in DOMAIN job[j].told : job[j].told[x] = job[j].made[x].key
      BY <1>0, <1>2 DEF Telling
    <3>2. DOMAIN job[j].told = 1 .. Len(job[j].told)
      BY <1>0, SaverTypes
    <3> QED BY <1>1, <2>3, <2>5, <2>6, <3>1, <3>2 DEF Telling
  <2>9. \A x \in DOMAIN next.made : x \in DOMAIN job[j].made \/ x = Len(job[j].made) + 1
    BY <1>1, <2>6
  <2>10. ASSUME NEW x \in DOMAIN next.made, NEW y \in DOMAIN next.made, next.made[x].key = next.made[y].key PROVE x = y
    <3>1. \A z \in DOMAIN job[j].made : job[j].made[z].key # one.key
      BY <1>1, <2>3
    <3>2. x \in DOMAIN job[j].made /\ y \in DOMAIN job[j].made => x = y
      BY SMTT(30), <1>0, <2>6, <2>10 DEF Saves
    <3> QED BY <2>6, <2>9, <2>10, <3>1, <3>2
  <2>11. \A x \in DOMAIN next.made : \/ next.made[x].key \notin DOMAIN items
                                     \/ \E y \in DOMAIN job[j].made : next.made[x].key = job[j].made[y].key
    BY SMTT(30), <1>1, <2>3, <2>6, <2>9
  <2>12. Paper(Draft(object)).type # "note"
    BY DEF Paper
  <2>13. /\ \A p : NotesUnder(p)' = NotesUnder(p)
         /\ (\E k \in DOMAIN items : items[k] = Gone) => \E k \in DOMAIN items' : items'[k] = Gone
    BY <2>7, <2>12, NotesStay
  <2>14. ASSUME \A k \in DOMAIN items : items[k] # Gone, NEW x \in DOMAIN next.made
         PROVE  Cardinality(NotesUnder(next.made[x].key)') + Left(next, x) = next.made[x].notes
    <3>1. CASE x \in DOMAIN job[j].made
      <4>1. Cardinality(NotesUnder(job[j].made[x].key)) + Left(job[j], x) = job[j].made[x].notes
        BY <1>0, <2>14, <3>1 DEF Saves, Counted
      <4>2. Left(job[j], x) = 0 /\ Left(next, x) = 0
        BY <1>0, <1>1, <2>5, <2>6, <3>1 DEF Left
      <4> QED BY <2>6, <2>13, <3>1, <4>1, <4>2
    <3>2. CASE x = Len(job[j].made) + 1
      <4>1. NotesUnder(Len(items) + 1) = {}
        <5>1. \A k \in DOMAIN items : items[k] # Gone => items[k].parent \in 0 .. Len(items)
          BY DEF Shape, IsItem
        <5>2. \A k \in DOMAIN items : items[k].parent # Len(items) + 1
          BY <1>1, <2>14, <5>1
        <5> QED BY <5>2 DEF NotesUnder, Under
      <4>2. Cardinality(NotesUnder(next.made[x].key)') = 0
        <5>1. NotesUnder(next.made[x].key)' = {}
          BY <2>3, <2>6, <2>13, <3>2, <4>1
        <5> QED BY <5>1, FS_EmptySet
      <4>3. Left(next, x) = n
        BY <2>3, <2>5, <2>6, <3>2 DEF Left
      <4> QED BY <2>3, <2>6, <3>2, <4>2, <4>3
    <3> QED BY <2>9, <2>14, <3>1, <3>2
  <2> QED BY <1>0, <2>7, <2>8, <2>10, <2>11, <2>13, <2>14, OneSaver
<1> QED BY <1>4, <1>5

\* What the extension is told is right after every step.
LEMMA SavesStep ==
  ASSUME Shape, Saves, [Next]_vars
  PROVE  Saves'
<1>1. CASE UNCHANGED vars
  <2>1. UNCHANGED job /\ UNCHANGED items
    BY <1>1 DEF vars
  <2>2. (\A n : Left(job[n], n)' = Left(job[n], n)) /\ \A p : NotesUnder(p)' = NotesUnder(p)
    BY <2>1 DEF NotesUnder, Under, Live, Left
  <2> QED BY <2>1, <2>2 DEF Saves, Telling, Counted, NotesUnder, Under, Live, Left
<1>2. ASSUME NEW k \in DOMAIN items, Delete(k) PROVE Saves'
  <2>1. UNCHANGED job /\ k \in DOMAIN items' /\ items'[k] = Gone
    BY <1>2 DEF Delete
  <2>2. \A i \in Jobs : job'[i].for = "save" => SameTale(job[i], job'[i])
    BY <2>1 DEF SameTale
  <2> QED BY <2>1, <2>2, SavesStay
<1>3. ASSUME UNCHANGED job, UNCHANGED items \/ \E record : items' = Fresh(record) /\ record.type # "note" PROVE Saves'
  <2>1. \A i \in Jobs : job'[i].for = "save" => SameTale(job[i], job'[i])
    BY <1>3 DEF SameTale
  <2>2. /\ \A p : NotesUnder(p)' = NotesUnder(p)
        /\ (\E k \in DOMAIN items : items[k] = Gone) => \E k \in DOMAIN items' : items'[k] = Gone
    BY <1>3, NotesStay
  <2> QED BY <2>1, <2>2, SavesStay
<1>4. ASSUME NEW a, SaveSnapshot(a) PROVE Saves'
  <2>1. \A draft : Paper(draft).type # "note"
    BY DEF Paper
  <2>2. UNCHANGED job /\ \E draft : items' = Fresh(Paper(draft))
    BY <1>4 DEF SaveSnapshot
  <2> QED BY <1>3, <2>1, <2>2
<1>5. ASSUME NEW k, File(k) \/ CleanUp(k) PROVE Saves'
  <2>1. UNCHANGED <<items, job>>
    BY <1>5 DEF File, CleanUp
  <2> QED BY <1>3, <2>1
<1>6. CASE Next
  BY <1>2, <1>4, <1>5, <1>6, RequestTells, NamesTell, SavedTells, NoteTells, ItemTells DEF Next
<1> QED BY <1>1, <1>6

\* It is at first.
LEMMA SavesInit == ASSUME Init PROVE Saves
<1>1. Idle.for = "nobody"
  BY DEF Idle
<1> QED BY <1>1 DEF Init, Saves

-----------------------------------------------------------------------------
(***************************************************************************)
(* What is proved, for any requests, any addresses, any pages and any      *)
(* number of keys, downloads, requests and stops.                          *)
(***************************************************************************)

\* No file has two paths, and nothing is forgotten of what is being written.
LEMMA FilesSay == ASSUME Shape, FilesInv PROVE ServesTheLast /\ PicturesBelong
<1>1. ASSUME NEW k \in DOMAIN items, Named(k), Beside(k), k \notin crossed, ~(\E j \in Jobs : Renames(job[j], k))
      PROVE  /\ Served(k) = last[k]
             /\ last[k] = Empty /\ stops = 0 => \E j \in Jobs : Writes(job[j], k)
  <2>1. Serves(k) /\ Waits(k)
    BY <1>1 DEF FilesInv, Kept
  <2>2. \A j \in Jobs : ~Moved(job[j], k)
    BY <1>1 DEF Moved, Renames
  <2> QED BY <1>1, <2>1, <2>2 DEF Serves, Waits
<1>2. ASSUME NEW q \in DOMAIN disk, IsPicture(q), Len(q.name[2]) = 1, q.of \notin crossed
      PROVE  (Live(q.of) \/ q.of \in doomed) /\ Bytes(q) > 0
  <2>1. q.of \in DOMAIN items
    BY Counts DEF Shape, IsPath
  <2>2. Pictured(q.of)
    BY <1>2, <2>1 DEF FilesInv, Kept
  <2> QED BY <1>2, <2>2 DEF Pictured
<1> QED BY <1>1, <1>2 DEF ServesTheLast, PicturesBelong

\* Everything looks as it should: the items, the paths, and what each request
\* knows.
THEOREM AttachingIsTyped == Spec => []Shape
<1>1. Init => Shape
  BY ShapeInit
<1>2. Shape /\ [Next]_vars => Shape'
  BY ShapeStep
<1> QED BY <1>1, <1>2, PTL DEF Spec

\* Every attachment that no two requests had in hand serves what was put last
\* for it, through renames, stops and deletions (Storage::put, Storage::rename,
\* apply_rename).
THEOREM ServesTheLastAlways == Spec => []ServesTheLast
<1>1. Init => Shape /\ FilesInv
  BY ShapeInit, FilesInit
<1>2. Shape /\ FilesInv /\ [Next]_vars => (Shape /\ FilesInv)'
  BY ShapeStep, FilesStep
<1>3. Shape /\ FilesInv => ServesTheLast
  BY FilesSay
<1> QED BY <1>1, <1>2, <1>3, PTL DEF Spec

\* A picture is whole and belongs to something (store, forget).
THEOREM PicturesBelongAlways == Spec => []PicturesBelong
<1>1. Init => Shape /\ FilesInv
  BY ShapeInit, FilesInit
<1>2. Shape /\ FilesInv /\ [Next]_vars => (Shape /\ FilesInv)'
  BY ShapeStep, FilesStep
<1>3. Shape /\ FilesInv => PicturesBelong
  BY FilesSay
<1> QED BY <1>1, <1>2, <1>3, PTL DEF Spec

\* An address has one attachment under a paper, but for requests that found it
\* missing at the same time (attach_url).
THEOREM OnePerAddressAlways == Spec => []OnePerAddress
<1>1. Init => Shape /\ Races /\ OnePerAddress
  BY ShapeInit, RacesInit
<1>2. Shape /\ Races /\ OnePerAddress /\ [Next]_vars => (Shape /\ Races /\ OnePerAddress)'
  BY ShapeStep, RacesStep
<1> QED BY <1>1, <1>2, PTL DEF Spec

\* The extension is told of every paper that was accepted, each with all its
\* notes (save_items).
THEOREM SavedIsToldAlways == Spec => []SavedIsTold
<1>1. Init => Shape /\ Saves
  BY ShapeInit, SavesInit
<1>2. Shape /\ Saves /\ [Next]_vars => (Shape /\ Saves)'
  BY ShapeStep, SavesStep
<1>3. Shape /\ Saves => SavedIsTold
  BY SavesTell
<1> QED BY <1>1, <1>2, <1>3, PTL DEF Spec

\* Whatever requests overlap and wherever they end, files are served, found,
\* told and shown as they should be, but for the races that are named
\* (attach_url, Storage::put, save_items, store).
THEOREM AttachingIsRight == Spec => []AttachedRight
<1>1. ServesTheLast /\ OnePerAddress /\ SavedIsTold /\ PicturesBelong => AttachedRight
  BY DEF AttachedRight
<1> QED BY <1>1, ServesTheLastAlways, OnePerAddressAlways, SavedIsToldAlways, PicturesBelongAlways, PTL
=============================================================================
