------------------------------- MODULE Ingest -------------------------------
(***************************************************************************)
(* File ingestion: the upload and the inbox scan of                        *)
(* core/api/routes/ingest.py, the pipeline of core/ingest/pipeline.py and  *)
(* the table ingested_files of core/ingest/registry.py.  An upload puts    *)
(* its document into the inbox; both run the pipeline on a file of the     *)
(* inbox: register the content, extract, write a note, archive the file.   *)
(*                                                                         *)
(* A document stands for a content; its hash is the document itself.       *)
(* Extraction, the note and the moves of files do not await, so that each  *)
(* happens at one stroke; every statement of the registry awaits.          *)
(***************************************************************************)
EXTENDS Sequences, Faults

CONSTANTS
  Document,      \* contents
  Path,          \* files of the inbox
  Name, Tried,   \* names that are uploaded; the files tried for each, in order
  Upload, Scan,  \* requests
  Hand,          \* files the operator drops into the inbox
  NameOf,        \* Upload -> Name
  DocumentOf,    \* Upload -> Document
  Spooled,       \* uploads so large that reading them leaves the event loop
  Unreadable,    \* documents of an unsupported or damaged format
  Nothing        \* no file, no document

Request == Upload \cup Scan

\* The endpoint tries a.txt, a-1.txt, a-2.txt and so on, and a-1.txt is a name as well:
\* two names may be tried at one file.  Bound: how far the numbers go.
ASSUME IngestAssumptions ==
  /\ Tried \in [Name -> Seq(Path)] /\ Nothing \notin Path
  /\ NameOf \in [Upload -> Name] /\ DocumentOf \in [Upload -> Document]
  /\ Spooled \subseteq Upload /\ Unreadable \subseteq Document
  /\ Nothing \notin Document /\ Upload \cap Scan = {}

Working == {"lookup", "insert", "mark", "extract", "failing", "broken", "written", "index",
            "finish"}

VARIABLES
  inbox,     \* Path -> the document in that file
  archive,   \* documents in inbox/archive
  rejected,  \* documents in inbox/failed
  row,       \* Document -> the status of its row, "none" when there is none
  notes,     \* notes in the vault: who wrote it, of which file, the hash it states, its text
  at,        \* Request -> where it is
  file,      \* Request -> the path it works on
  digest,    \* Request -> the content the pipeline read first
  todo,      \* Scan -> the paths it has still to visit
  dropped,   \* the files the operator has dropped
  offered,   \* history: what has been put into the inbox
  replaced   \* history: the file and the document an upload wrote over that had read its
             \* body while somebody else took the file

disk == <<inbox, archive, rejected>>
seen == <<dropped, offered, replaced>>
ingestVars == <<disk, row, notes, at, file, digest, todo, seen>>

Status == {"none", "pending", "extracting", "indexing", "done", "failed"}

IngestTypeOK ==
  /\ inbox \in [Path -> Document \cup {Nothing}]
  /\ archive \subseteq Document /\ rejected \subseteq Document
  /\ row \in [Document -> Status]
  /\ notes \subseteq [by : Request, from : Path, hash : Document, text : Document]
  /\ at \in [Request -> {"new", "reading", "scanning", "over"} \cup Working]
  /\ file \in [Request -> Path \cup {Nothing}]
  /\ digest \in [Request -> Document \cup {Nothing}]
  /\ todo \in [Scan -> SUBSET Path]
  /\ dropped \subseteq Hand /\ offered \subseteq Document
  /\ replaced \subseteq Path \X Document

IngestInit ==
  /\ inbox = [p \in Path |-> Nothing] /\ archive = {} /\ rejected = {}
  /\ row = [d \in Document |-> "none"] /\ notes = {}
  /\ at = [r \in Request |-> "new"] /\ file = [r \in Request |-> Nothing]
  /\ digest = [r \in Request |-> Nothing] /\ todo = [s \in Scan |-> {}]
  /\ dropped = {} /\ offered = {} /\ replaced = {}

-----------------------------------------------------------------------------
Go(r, from, to) == at[r] = from /\ at' = [at EXCEPT ![r] = to]

\* A scan goes on with its next file, an upload answers.
AfterFile(r) == IF r \in Scan THEN "scanning" ELSE "over"

\* The pipeline reads the file when it starts: its bytes are hashed.
Enter(r, p) ==
  /\ file' = [file EXCEPT ![r] = p] /\ digest' = [digest EXCEPT ![r] = inbox'[p]]

\* Faulty variant: a name in use is used again.
FreePathAny(u, p) == p = Tried[NameOf[u]][1]

\* The first file tried that is not there.
FreePath(u, p) ==
  \E i \in DOMAIN Tried[NameOf[u]] :
    /\ p = Tried[NameOf[u]][i] /\ inbox[p] = Nothing
    /\ \A j \in 1 .. i - 1 : inbox[Tried[NameOf[u]][j]] # Nothing

Put(p, d) ==
  /\ inbox' = [inbox EXCEPT ![p] = d] /\ offered' = offered \cup {d}
  /\ UNCHANGED <<archive, rejected, row, notes, todo>>

\* Reading a small upload does not leave the event loop.
UploadSmall(u) ==
  /\ u \notin Spooled /\ Go(u, "new", "lookup")
  /\ \E p \in Path : FreePath(u, p) /\ Put(p, DocumentOf[u]) /\ Enter(u, p)
  /\ UNCHANGED <<dropped, replaced>>

UploadBegins(u) ==
  /\ u \in Spooled /\ Go(u, "new", "reading")
  /\ \E p \in Path : FreePath(u, p) /\ file' = [file EXCEPT ![u] = p]
  /\ UNCHANGED <<disk, row, notes, digest, todo, seen>>

\* The file was free when it was chosen; nobody looks again.
UploadStored(u) ==
  /\ Go(u, "reading", "lookup") /\ Put(file[u], DocumentOf[u]) /\ Enter(u, file[u])
  /\ replaced' = replaced \cup ({file[u]} \X ({inbox[file[u]]} \ {Nothing}))
  /\ UNCHANGED dropped

\* What scan-inbox is for; the operator does not write over a file.
DropByHand(h) ==
  /\ h \notin dropped /\ dropped' = dropped \cup {h}
  /\ \E p \in Path, d \in Document : inbox[p] = Nothing /\ Put(p, d)
  /\ UNCHANGED <<at, file, digest, replaced>>

ScanInbox(s) ==
  /\ Go(s, "new", "scanning")
  /\ todo' = [todo EXCEPT ![s] = {p \in Path : inbox[p] # Nothing}]
  /\ UNCHANGED <<disk, row, notes, file, digest, seen>>

\* A file that is gone by now raises FileNotFoundError, which the scan notes.
ScanFile(s) ==
  /\ at[s] = "scanning"
  /\ \E p \in todo[s] :
       /\ todo' = [todo EXCEPT ![s] = @ \ {p}]
       /\ inbox' = inbox
       /\ IF inbox[p] = Nothing THEN UNCHANGED <<at, file, digest>>
                                ELSE Go(s, "scanning", "lookup") /\ Enter(s, p)
  /\ UNCHANGED <<archive, rejected, row, notes, seen>>

ScanOver(s) ==
  /\ todo[s] = {} /\ Go(s, "scanning", "over")
  /\ UNCHANGED <<disk, row, notes, file, digest, todo, seen>>

-----------------------------------------------------------------------------
Known(d) == row[d] # "none"

LookUp(r) ==
  /\ at[r] = "lookup"
  /\ Go(r, "lookup", IF Known(digest[r]) THEN AfterFile(r) ELSE "insert")
  /\ UNCHANGED <<disk, row, notes, file, digest, todo, seen>>

\* Faulty variant: the table has no unique index on the hash.
InsertAnyway(r) ==
  /\ Go(r, "insert", "mark") /\ row' = [row EXCEPT ![digest[r]] = "pending"]
  /\ UNCHANGED <<disk, notes, file, digest, todo, seen>>

\* The unique index lets one of two inserts raise.
Insert(r) ==
  /\ at[r] = "insert"
  /\ IF row[digest[r]] = "none"
     THEN Go(r, "insert", "mark") /\ row' = [row EXCEPT ![digest[r]] = "pending"]
     ELSE Go(r, "insert", AfterFile(r)) /\ UNCHANGED row
  /\ UNCHANGED <<disk, notes, file, digest, todo, seen>>

Mark(r) ==
  /\ Go(r, "mark", "extract") /\ row' = [row EXCEPT ![digest[r]] = "extracting"]
  /\ UNCHANGED <<disk, notes, file, digest, todo, seen>>

\* Extracts the text of what the file holds now and writes the note.
Extract(r) ==
  LET text == inbox[file[r]] IN
  /\ Go(r, "extract", "written") /\ text \notin Unreadable \cup {Nothing}
  /\ notes' = notes \cup
       {[by |-> r, from |-> file[r], hash |-> digest[r], text |-> text]}
  /\ UNCHANGED <<disk, row, file, digest, todo, seen>>

\* ExtractionError; the vault may refuse the note as well.
ExtractFails(r) ==
  /\ Go(r, "extract", "failing") /\ inbox[file[r]] \in Unreadable
  /\ UNCHANGED <<disk, row, notes, file, digest, todo, seen>>

\* Somebody else has moved the file.
ExtractBreaks(r) ==
  /\ Go(r, "extract", "broken") /\ inbox[file[r]] = Nothing
  /\ UNCHANGED <<disk, row, notes, file, digest, todo, seen>>

\* What lies at the path goes to a directory, under a name that is free there.
MovedFrom(r) == {inbox[file[r]]} \ {Nothing}

\* The row fails; then, without an await, the file is moved to failed/.
Fail(r) ==
  /\ Go(r, "failing", AfterFile(r))
  /\ row' = [row EXCEPT ![digest[r]] = "failed"]
  /\ rejected' = rejected \cup MovedFrom(r)
  /\ inbox' = [inbox EXCEPT ![file[r]] = Nothing]
  /\ UNCHANGED <<archive, notes, file, digest, todo, seen>>

\* After any other exception the file stays where it is.
Break(r) ==
  /\ Go(r, "broken", AfterFile(r)) /\ row' = [row EXCEPT ![digest[r]] = "failed"]
  /\ UNCHANGED <<disk, notes, file, digest, todo, seen>>

MarkIndexing(r) ==
  /\ Go(r, "written", "index") /\ row' = [row EXCEPT ![digest[r]] = "indexing"]
  /\ UNCHANGED <<disk, notes, file, digest, todo, seen>>

\* The index has been rebuilt or has failed.
Archive(r) ==
  /\ Go(r, "index", "finish")
  /\ archive' = archive \cup MovedFrom(r)
  /\ inbox' = [inbox EXCEPT ![file[r]] = Nothing]
  /\ UNCHANGED <<rejected, row, notes, file, digest, todo, seen>>

\* A move that raises is only logged: the file stays and the row still gets its "done".
ArchiveFails(r) ==
  /\ Fault /\ Go(r, "index", "finish")
  /\ UNCHANGED <<disk, row, notes, file, digest, todo, seen>>

Finish(r) ==
  /\ Go(r, "finish", AfterFile(r)) /\ row' = [row EXCEPT ![digest[r]] = "done"]
  /\ UNCHANGED <<disk, notes, file, digest, todo, seen>>

\* What the statement of each step writes into the row.
Writes == [lookup |-> "none", insert |-> "pending", mark |-> "extracting",
           written |-> "indexing", failing |-> "failed", broken |-> "failed",
           finish |-> "done"]

(* A statement raises, or the read of the row behind its commit.  The      *)
(* pipeline handles what happens in its two try blocks; everything else    *)
(* ends the file with an error.                                            *)
StatementRaises(r) ==
  /\ Fault /\ at[r] \in DOMAIN Writes
  /\ at' = [at EXCEPT ![r] = CASE @ = "mark" -> "broken" [] @ = "written" -> "failing"
                               [] OTHER -> AfterFile(r)]
  /\ \/ UNCHANGED row
     \/ /\ at[r] # "lookup" /\ (at[r] = "insert" => row[digest[r]] = "none")
        /\ row' = [row EXCEPT ![digest[r]] = Writes[at[r]]]
  /\ UNCHANGED <<disk, notes, file, digest, todo, seen>>

VaultRefuses(r) ==
  /\ Fault /\ Go(r, "extract", "failing") /\ inbox[file[r]] # Nothing
  /\ UNCHANGED <<disk, row, notes, file, digest, todo, seen>>

\* Nothing looks at the rows or at the inbox when the daemon starts.
IngestRestart ==
  /\ Fault /\ at' = [r \in Request |-> IF at[r] = "new" THEN "new" ELSE "over"]
  /\ UNCHANGED <<disk, row, notes, file, digest, todo, seen>>

-----------------------------------------------------------------------------
Pipeline(r) ==
  \/ LookUp(r) \/ Insert(r) \/ Mark(r) \/ Extract(r) \/ ExtractFails(r) \/ ExtractBreaks(r)
  \/ Fail(r) \/ Break(r) \/ MarkIndexing(r) \/ Archive(r) \/ Finish(r)

Uploading(u) == UploadSmall(u) \/ UploadBegins(u) \/ UploadStored(u)
Scanning(s) == ScanInbox(s) \/ ScanFile(s) \/ ScanOver(s)

IngestNext ==
  \/ \E u \in Upload : Uploading(u) /\ UNCHANGED faults
  \/ \E s \in Scan : Scanning(s) /\ UNCHANGED faults
  \/ \E r \in Request : \/ Pipeline(r) /\ UNCHANGED faults
                        \/ StatementRaises(r) \/ VaultRefuses(r) \/ ArchiveFails(r)
  \/ \E h \in Hand : DropByHand(h) /\ UNCHANGED faults
  \/ IngestRestart

-----------------------------------------------------------------------------
(* What came into the inbox is somewhere: in a file of the inbox, in the   *)
(* archive or among the failed ones, whichever of the requests that work   *)
(* on a file moved it, whatever raised; unless a large upload wrote over   *)
(* it that had chosen the file before it was there.                        *)
NothingLost ==
  offered \subseteq archive \cup rejected \cup {inbox[p] : p \in Path} \cup {o[2] : o \in replaced}

(* A content has one note at most, however often and however concurrently  *)
(* it is offered; a row says "done" of contents only that are noted; and   *)
(* the note holds the text whose hash it states, though the file is read   *)
(* again after several awaits, unless an upload wrote over that file.      *)
NotesTrue ==
  /\ \A n \in notes : n.text = n.hash \/ n.from \in {o[1] : o \in replaced}
  /\ \A n, m \in notes : n.hash = m.hash => n = m
  /\ \A d \in Document : row[d] = "done" => \E n \in notes : n.hash = d

(* "Suffix the target if a same-named file is already there"               *)
(* (core/api/routes/ingest.py:112): no upload writes over a file.          *)
NeverReplaces ==
  [][\A p \in Path : inbox[p] # Nothing => inbox'[p] \in {inbox[p], Nothing}]_ingestVars
=============================================================================
