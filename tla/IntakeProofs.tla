---------------------------- MODULE IntakeProofs ----------------------------
(***************************************************************************)
(* The safety of the ingestion and of the voice pipeline: for any number   *)
(* of documents, uploads, scans, utterances and faults.                    *)
(***************************************************************************)
EXTENDS Intake, TLAPS

-----------------------------------------------------------------------------
FilesOK ==
  /\ \A r \in Request : at[r] \in Working => file[r] \in Path /\ digest[r] \in Document
  /\ \A u \in Upload : at[u] # "scanning" /\ (at[u] = "reading" => file[u] \in Path)
  /\ \A s \in Scan : at[s] # "reading"

\* Who has inserted the row of a content and is not done with it.
Owning == Working \ {"lookup", "insert"}

\* One request at a time works on a content, and only once.
OwnerOK ==
  /\ \A r \in Request : at[r] \in Owning => row[digest[r]] # "none"
  /\ \A r, s \in Request :
       at[r] \in Owning /\ at[s] \in Owning /\ digest[r] = digest[s] => r = s
  /\ \A n \in notes : row[n.hash] # "none"
  /\ \A r \in Request : at[r] \in {"mark", "extract"} => \A n \in notes : n.hash # digest[r]

\* A content has one note at most, and one if its row says "done" or a request is behind
\* the writing of it.
NotedOnce ==
  /\ \A n, m \in notes : n.hash = m.hash => n = m
  /\ \A r \in Request : at[r] \in {"written", "index", "finish"} => \E n \in notes : n.hash = digest[r]
  /\ \A d \in Document : row[d] = "done" => \E n \in notes : n.hash = d

Base == IngestTypeOK /\ FilesOK /\ OwnerOK /\ NotedOnce

\* Files that a large upload has written over.
Spoiled == {o[1] : o \in replaced}

\* Any other file stays what it was hashed as, for those who may yet read or move it.
Relies(r) ==
  \/ at[r] \in {"mark", "extract", "failing", "written", "index"}
  \/ at[r] \in {"lookup", "insert"} /\ row[digest[r]] = "none"

ContentOK == \A r \in Request : Relies(r) => inbox[file[r]] = digest[r] \/ file[r] \in Spoiled

TextOK == \A n \in notes : n.text = n.hash \/ n.from \in Spoiled

FilesInv == Base /\ ContentOK /\ TextOK /\ NothingLost

-----------------------------------------------------------------------------
AtWork == {"starts", "stt", "empty", "costs", "speaks", "tts", "billed"} \cup Tapped

\* Nobody is twice in line; who is at work is the first, and the others wait.
LineOK ==
  /\ \A i, j \in 1 .. Len(queue) : queue[i] = queue[j] => i = j
  /\ \A i \in 1 .. Len(queue) :
       stage[queue[i]] = "waits" \/ (i = 1 /\ stage[queue[i]] \in AtWork)
  /\ \A u \in Utterance : stage[u] \in AtWork => Holds(u)

SpeechInv == VoiceTypeOK /\ LineOK /\ TapPutBack /\ SpeaksInTurn

IInv == part \in {"files", "speech"} /\ FaultsTypeOK /\ FilesInv /\ SpeechInv

-----------------------------------------------------------------------------
LEMMA FilesStart == IngestInit => FilesInv
BY DEF IngestInit, FilesInv, Base, IngestTypeOK, Status, FilesOK, OwnerOK, NotedOnce, Working,
       Owning, Request, ContentOK, Relies, TextOK, NothingLost

LEMMA AtType ==
  ASSUME IngestTypeOK, NEW r \in Request,
         NEW to \in {"new", "reading", "scanning", "over"} \cup Working
  PROVE  [at EXCEPT ![r] = to] \in
           [Request -> {"new", "reading", "scanning", "over"} \cup Working]
BY DEF IngestTypeOK

\* A document comes into a file: what the file held is recorded, or there was nothing.
LEMMA PutEffect ==
  ASSUME FilesInv, NEW p \in Path, NEW d \in Document, Put(p, d),
         replaced' = replaced \cup ({p} \X ({inbox[p]} \ {Nothing}))
  PROVE  /\ inbox' = [inbox EXCEPT ![p] = d] /\ inbox' \in [Path -> Document \cup {Nothing}]
         /\ UNCHANGED <<archive, rejected, row, notes, todo>>
         /\ offered' \subseteq Document /\ replaced' \subseteq Path \X Document
         /\ Spoiled \subseteq Spoiled'
         /\ \A q \in Path : inbox[q] \in Document => inbox'[q] = inbox[q] \/ q \in Spoiled'
         /\ NothingLost'
<1>1. /\ inbox \in [Path -> Document \cup {Nothing}] /\ replaced \subseteq Path \X Document
      /\ offered \subseteq Document /\ Nothing \notin Document
  BY IngestAssumptions DEF FilesInv, Base, IngestTypeOK
<1>2. /\ inbox' = [inbox EXCEPT ![p] = d] /\ offered' = offered \cup {d}
      /\ UNCHANGED <<archive, rejected, row, notes, todo>>
  BY DEF Put
<1>3. replaced \subseteq replaced' /\ replaced' \subseteq Path \X Document
  BY <1>1
<1>4. inbox[p] \in Document => <<p, inbox[p]>> \in replaced'
  BY <1>1
<1>5. Spoiled \subseteq Spoiled' /\ (inbox[p] \in Document => p \in Spoiled')
  <2>1. <<p, inbox[p]>>[1] = p
    OBVIOUS
  <2> QED
    BY <1>3, <1>4, <2>1 DEF Spoiled
<1>6. NothingLost'
  <2> SUFFICES ASSUME NEW e \in offered'
               PROVE  \/ e \in archive \cup rejected \/ \E q \in Path : inbox'[q] = e
                      \/ \E o \in replaced' : o[2] = e
    BY <1>2 DEF NothingLost
  <2>1. CASE e = d
    BY <1>1, <1>2, <2>1
  <2>2. CASE e # d
    <3>1. \/ e \in archive \cup rejected \/ \E q \in Path : inbox[q] = e
          \/ \E o \in replaced : o[2] = e
      BY <1>2, <2>2 DEF FilesInv, NothingLost
    <3>2. CASE inbox[p] = e
      <4>1. <<p, e>> \in replaced' /\ <<p, e>>[2] = e
        BY <1>1, <1>2, <1>4, <2>2, <3>2
      <4> QED
        BY <4>1
    <3>3. CASE inbox[p] # e
      BY <1>1, <1>2, <1>3, <3>1, <3>3
    <3> QED
      BY <3>2, <3>3
  <2> QED
    BY <2>1, <2>2
<1> QED
  BY <1>1, <1>2, <1>3, <1>5, <1>6

\* Who relies on a file that stays, or is known to be spoiled, may go on.
LEMMA ContentStays ==
  ASSUME FilesInv, NEW r \in Request, Relies(r), file'[r] = file[r], digest'[r] = digest[r],
         Spoiled \subseteq Spoiled',
         \A q \in Path : inbox[q] \in Document => inbox'[q] = inbox[q] \/ q \in Spoiled'
  PROVE  (inbox[file[r]] = digest[r] \/ file[r] \in Spoiled)'
<1>1. file[r] \in Path /\ digest[r] \in Document
  BY DEF Relies, FilesInv, Base, FilesOK, Working
<1> QED
  BY <1>1 DEF FilesInv, ContentOK

\* An upload writes its document to a file.
LEMMA StoreKeeps ==
  ASSUME FilesInv, NEW u \in Upload, NEW p \in Path,
         at[u] \in {"new", "reading"}, at' = [at EXCEPT ![u] = "lookup"],
         Put(p, DocumentOf[u]), Enter(u, p), UNCHANGED dropped,
         replaced' = replaced \cup ({p} \X ({inbox[p]} \ {Nothing}))
  PROVE  FilesInv'
<1>1. /\ inbox \in [Path -> Document \cup {Nothing}] /\ u \in Request
      /\ at \in [Request -> {"new", "reading", "scanning", "over"} \cup Working]
      /\ file \in [Request -> Path \cup {Nothing}]
      /\ digest \in [Request -> Document \cup {Nothing}]
      /\ DocumentOf[u] \in Document /\ Nothing \notin Document /\ u \notin Scan
  BY IngestAssumptions DEF FilesInv, Base, IngestTypeOK, Request
<1>2. /\ inbox' = [inbox EXCEPT ![p] = DocumentOf[u]]
      /\ inbox' \in [Path -> Document \cup {Nothing}]
      /\ UNCHANGED <<archive, rejected, row, notes, todo>>
      /\ offered' \subseteq Document /\ replaced' \subseteq Path \X Document
      /\ Spoiled \subseteq Spoiled'
      /\ \A q \in Path : inbox[q] \in Document => inbox'[q] = inbox[q] \/ q \in Spoiled'
      /\ NothingLost'
  BY <1>1, PutEffect
<1>3. file' = [file EXCEPT ![u] = p] /\ digest' = [digest EXCEPT ![u] = DocumentOf[u]]
  BY <1>1, <1>2 DEF Enter
<1>4. IngestTypeOK'
  <2>1. at' \in [Request -> {"new", "reading", "scanning", "over"} \cup Working]
    BY <1>1, AtType DEF Working, FilesInv, Base
  <2> QED
    BY <1>1, <1>2, <1>3, <2>1 DEF FilesInv, Base, IngestTypeOK
<1>5. FilesOK'
  BY <1>1, <1>2, <1>3 DEF FilesInv, Base, FilesOK, Working, Request
<1>6. OwnerOK' /\ NotedOnce'
  BY <1>1, <1>2, <1>3 DEF FilesInv, Base, OwnerOK, NotedOnce, Owning, Working
<1>7. ContentOK'
  <2> SUFFICES ASSUME NEW r \in Request, Relies(r)'
               PROVE  (inbox[file[r]] = digest[r] \/ file[r] \in Spoiled)'
    BY DEF ContentOK
  <2>1. CASE r = u
    BY <1>1, <1>2, <1>3, <2>1
  <2>2. CASE r # u
    <3>1. Relies(r) /\ file'[r] = file[r] /\ digest'[r] = digest[r]
      BY <1>1, <1>2, <1>3, <2>2 DEF Relies
    <3> QED
      BY <1>2, <3>1, ContentStays
  <2> QED
    BY <2>1, <2>2
<1>8. TextOK'
  BY <1>2 DEF FilesInv, TextOK
<1> QED
  BY <1>2, <1>4, <1>5, <1>6, <1>7, <1>8 DEF FilesInv, Base

LEMMA DropKeeps ==
  ASSUME FilesInv, NEW h \in Hand, DropByHand(h)
  PROVE  FilesInv'
<1>1. PICK p \in Path, d \in Document : inbox[p] = Nothing /\ Put(p, d)
  BY DEF DropByHand
<1>2. UNCHANGED <<at, file, digest>> /\ dropped' \subseteq Hand
  BY DEF DropByHand, FilesInv, Base, IngestTypeOK
<1>3. replaced' = replaced \cup ({p} \X ({inbox[p]} \ {Nothing}))
  BY <1>1 DEF DropByHand
<1>4. /\ inbox' \in [Path -> Document \cup {Nothing}]
      /\ UNCHANGED <<archive, rejected, row, notes, todo>>
      /\ offered' \subseteq Document /\ replaced' \subseteq Path \X Document
      /\ Spoiled \subseteq Spoiled'
      /\ \A q \in Path : inbox[q] \in Document => inbox'[q] = inbox[q] \/ q \in Spoiled'
      /\ NothingLost'
  BY <1>1, <1>3, PutEffect
<1>5. IngestTypeOK' /\ FilesOK' /\ OwnerOK' /\ NotedOnce'
  BY <1>2, <1>4 DEF FilesInv, Base, IngestTypeOK, FilesOK, OwnerOK, NotedOnce
<1>6. ContentOK'
  <2>1. \A r \in Request : Relies(r)' <=> Relies(r)
    BY <1>2, <1>4 DEF Relies
  <2> QED
    BY <1>2, <1>4, <2>1, ContentStays DEF ContentOK
<1>7. TextOK'
  BY <1>4 DEF FilesInv, TextOK
<1> QED
  BY <1>4, <1>5, <1>6, <1>7 DEF FilesInv, Base

\* An upload that is about to read its body has only chosen its file.
LEMMA BeginsKeeps ==
  ASSUME FilesInv, NEW u \in Upload, UploadBegins(u)
  PROVE  FilesInv'
<1>1. /\ at \in [Request -> {"new", "reading", "scanning", "over"} \cup Working]
      /\ file \in [Request -> Path \cup {Nothing}] /\ u \in Request /\ u \notin Scan
  BY IngestAssumptions DEF FilesInv, Base, IngestTypeOK, Request
<1>2. PICK p \in Path : file' = [file EXCEPT ![u] = p]
  BY DEF UploadBegins
<1>3. /\ at[u] = "new" /\ at' = [at EXCEPT ![u] = "reading"]
      /\ UNCHANGED <<inbox, archive, rejected, row, notes, digest, todo, dropped, offered, replaced>>
  BY DEF UploadBegins, Go, disk, seen
<1>4. IngestTypeOK'
  <2>1. at' \in [Request -> {"new", "reading", "scanning", "over"} \cup Working]
    BY <1>1, <1>3, AtType DEF FilesInv, Base
  <2>2. file' \in [Request -> Path \cup {Nothing}]
    BY <1>1, <1>2
  <2> QED
    BY <1>3, <2>1, <2>2 DEF FilesInv, Base, IngestTypeOK
<1>5. FilesOK'
  BY <1>1, <1>2, <1>3 DEF FilesInv, Base, FilesOK, Working, Request
<1>6. \A r \in Request : at'[r] # "reading" => at'[r] = at[r] /\ file'[r] = file[r]
  BY <1>1, <1>2, <1>3
<1>7. OwnerOK' /\ NotedOnce'
  BY <1>1, <1>3, <1>6 DEF FilesInv, Base, OwnerOK, NotedOnce, Owning, Working
<1>8. ContentOK' /\ TextOK' /\ NothingLost'
  BY <1>3, <1>6 DEF FilesInv, ContentOK, Relies, TextOK, NothingLost, Spoiled
<1> QED
  BY <1>4, <1>5, <1>7, <1>8 DEF FilesInv, Base

LEMMA UploadKeeps ==
  ASSUME FilesInv, NEW u \in Upload, Uploading(u)
  PROVE  FilesInv'
<1>1. CASE UploadSmall(u)
  <2>1. PICK p \in Path : FreePath(u, p) /\ Put(p, DocumentOf[u]) /\ Enter(u, p)
    BY <1>1 DEF UploadSmall
  <2>2. inbox[p] = Nothing
    BY <2>1 DEF FreePath
  <2>3. replaced' = replaced \cup ({p} \X ({inbox[p]} \ {Nothing})) /\ UNCHANGED dropped
    BY <1>1, <2>2 DEF UploadSmall
  <2> QED
    BY <1>1, <2>1, <2>3, StoreKeeps DEF UploadSmall, Go
<1>2. CASE UploadStored(u)
  <2>1. file[u] \in Path
    BY <1>2 DEF UploadStored, Go, FilesInv, Base, FilesOK
  <2> QED
    BY <1>2, <2>1, StoreKeeps DEF UploadStored, Go
<1> QED
  BY <1>1, <1>2, BeginsKeeps DEF Uploading

LEMMA ScanBase ==
  ASSUME Base, NEW s \in Scan, Scanning(s)
  PROVE  /\ Base' /\ UNCHANGED <<inbox, archive, rejected, row, notes, seen>>
         /\ \A r \in Request :
              /\ r # s => at'[r] = at[r] /\ file'[r] = file[r] /\ digest'[r] = digest[r]
              /\ r = s => \/ at'[r] \in {at[r], "scanning", "over"} /\ at[r] \notin Working
                          \/ at'[r] = "lookup" /\ inbox[file'[r]] = digest'[r]
<1>1. /\ at \in [Request -> {"new", "reading", "scanning", "over"} \cup Working]
      /\ file \in [Request -> Path \cup {Nothing}]
      /\ digest \in [Request -> Document \cup {Nothing}]
      /\ inbox \in [Path -> Document \cup {Nothing}]
      /\ todo \in [Scan -> SUBSET Path]
      /\ s \in Request /\ s \notin Upload
  BY IngestAssumptions DEF Base, IngestTypeOK, Request
<1>2. UNCHANGED <<inbox, archive, rejected, row, notes, seen>>
  BY DEF Scanning, ScanInbox, ScanFile, ScanOver, disk, seen
<1>3. todo' \in [Scan -> SUBSET Path]
  BY <1>1 DEF Scanning, ScanInbox, ScanFile, ScanOver
<1>4. CASE UNCHANGED <<file, digest>> /\ at' \in {at, [at EXCEPT ![s] = "scanning"],
                                                  [at EXCEPT ![s] = "over"]}
            /\ at[s] \in {"new", "scanning"}
  <2>1. at' \in [Request -> {"new", "reading", "scanning", "over"} \cup Working]
    BY <1>1, <1>4, AtType DEF Base
  <2>2. IngestTypeOK'
    BY <1>2, <1>3, <1>4, <2>1 DEF Base, IngestTypeOK, seen
  <2>3. \A r \in Request : at'[r] = at[r] \/ (r = s /\ at'[r] \in {"scanning", "over"})
    BY <1>1, <1>4
  <2>4. FilesOK'
    BY <1>1, <1>2, <1>4, <2>3 DEF Base, FilesOK, Working, Request
  <2>5. OwnerOK' /\ NotedOnce'
    BY <1>2, <1>4, <2>3 DEF Base, OwnerOK, NotedOnce, Owning, Working
  <2> QED
    BY <1>1, <1>2, <1>4, <2>2, <2>3, <2>4, <2>5 DEF Base, Working
<1>5. ASSUME NEW p \in todo[s], inbox[p] # Nothing, Go(s, "scanning", "lookup"), Enter(s, p)
      PROVE  /\ Base'
             /\ \A r \in Request : r # s =>
                  at'[r] = at[r] /\ file'[r] = file[r] /\ digest'[r] = digest[r]
             /\ at'[s] = "lookup" /\ inbox[file'[s]] = digest'[s]
  <2>1. p \in Path /\ inbox[p] \in Document
    BY <1>1, <1>5
  <2>2. /\ at[s] = "scanning" /\ at' = [at EXCEPT ![s] = "lookup"]
        /\ file' = [file EXCEPT ![s] = p] /\ digest' = [digest EXCEPT ![s] = inbox[p]]
    BY <1>2, <1>5 DEF Go, Enter
  <2>3. IngestTypeOK'
    <3>1. at' \in [Request -> {"new", "reading", "scanning", "over"} \cup Working]
      BY <1>1, <2>2, AtType DEF Base, Working
    <3> QED
      BY <1>1, <1>2, <1>3, <2>1, <2>2, <3>1 DEF Base, IngestTypeOK, seen
  <2>4. \A r \in Request : r # s => /\ at'[r] = at[r] /\ file'[r] = file[r]
                                   /\ digest'[r] = digest[r]
    BY <1>1, <2>2
  <2>5. at'[s] = "lookup" /\ file'[s] = p /\ digest'[s] = inbox[p]
    BY <1>1, <2>2
  <2>6. FilesOK'
    BY <1>1, <1>2, <2>1, <2>4, <2>5 DEF Base, FilesOK, Request
  <2>7. OwnerOK' /\ NotedOnce'
    BY <1>2, <2>4, <2>5 DEF Base, OwnerOK, NotedOnce, Owning
  <2> QED
    BY <2>3, <2>4, <2>5, <2>6, <2>7 DEF Base
<1> QED
  BY <1>2, <1>4, <1>5 DEF Scanning, ScanInbox, ScanFile, ScanOver, Go

LEMMA ScanKeeps ==
  ASSUME FilesInv, NEW s \in Scan, Scanning(s)
  PROVE  FilesInv'
<1>1. /\ Base' /\ UNCHANGED <<inbox, archive, rejected, row, notes, seen>>
      /\ \A r \in Request :
           /\ r # s => at'[r] = at[r] /\ file'[r] = file[r] /\ digest'[r] = digest[r]
           /\ r = s => \/ at'[r] \in {at[r], "scanning", "over"} /\ at[r] \notin Working
                       \/ at'[r] = "lookup" /\ inbox[file'[r]] = digest'[r]
  BY ScanBase DEF FilesInv
<1>2. ContentOK'
  BY <1>1 DEF FilesInv, ContentOK, Relies, Working, Spoiled, seen
<1>3. TextOK' /\ NothingLost'
  BY <1>1 DEF FilesInv, TextOK, NothingLost, Spoiled, seen
<1> QED
  BY <1>1, <1>2, <1>3 DEF FilesInv

\* The steps of the pipeline that touch no file: where a request may go from where it
\* is, and what it may write into the row of its content.
Goes(r, to) ==
  \/ to = AfterFile(r)
  \/ at[r] = "lookup" /\ to = "insert"
  \/ at[r] = "insert" /\ to = "mark" /\ row[digest[r]] = "none" /\ row'[digest[r]] # "none"
  \/ at[r] = "mark" /\ to \in {"extract", "broken"}
  \/ at[r] = "extract" /\ to \in {"failing", "broken"}
  \/ at[r] = "written" /\ to \in {"failing", "index"}
  \/ at[r] = "index" /\ to = "finish"

Notes(r) ==
  \/ row' = row
  \/ \E v \in Status \ {"none"} :
       /\ row' = [row EXCEPT ![digest[r]] = v] /\ (v = "done" => at[r] = "finish")
       /\ at[r] # "lookup"

LEMMA RowStepBase ==
  ASSUME Base, NEW r \in Request, at[r] \in Working,
         NEW to \in Working \cup {"scanning", "over"}, at' = [at EXCEPT ![r] = to],
         Goes(r, to), Notes(r), UNCHANGED <<disk, notes, file, digest, todo, seen>>
  PROVE  Base'
<1>1. /\ at \in [Request -> {"new", "reading", "scanning", "over"} \cup Working]
      /\ row \in [Document -> Status]
      /\ digest[r] \in Document /\ Upload \cap Scan = {}
  BY IngestAssumptions DEF Base, IngestTypeOK, FilesOK
<1>2. /\ row' \in [Document -> Status]
      /\ \A d \in Document :
           /\ row[d] # "none" => row'[d] # "none"
           /\ row'[d] = "done" => row[d] = "done" \/ (d = digest[r] /\ at[r] = "finish")
  BY <1>1 DEF Notes
<1>3. IngestTypeOK'
  <2>1. at' \in [Request -> {"new", "reading", "scanning", "over"} \cup Working]
    BY <1>1, AtType DEF Base
  <2> QED
    BY <1>2, <2>1 DEF Base, IngestTypeOK, disk, seen
<1>4. FilesOK'
  BY <1>1 DEF Base, FilesOK, Working, disk, Goes, AfterFile, Request
<1>5. OwnerOK'
  <2>1. \A i \in Request : at[i] \in Working => digest[i] \in Document
    BY DEF Base, FilesOK
  <2>2. \A i \in Request : at'[i] \in Owning => at[i] \in Owning \/ (i = r /\ at[r] = "insert" /\ to = "mark")
    BY <1>1 DEF Goes, Owning, Working, AfterFile
  <2>3. at[r] = "insert" /\ to = "mark" => row[digest[r]] = "none" /\ row'[digest[r]] # "none"
    BY DEF Goes, AfterFile
  <2>4. \A i \in Request : at'[i] \in {"mark", "extract"} =>
          at[i] \in {"mark", "extract"} \/ (i = r /\ at[r] = "insert" /\ to = "mark")
    BY <1>1 DEF Goes, AfterFile
  <2>5. \A n \in notes : n.hash \in Document
    BY DEF Base, IngestTypeOK
  <2>6. Owning \subseteq Working
    BY DEF Owning
  <2> QED
    BY <1>2, <2>1, <2>2, <2>3, <2>4, <2>5, <2>6 DEF Base, OwnerOK
<1>6. NotedOnce'
  BY <1>1, <1>2 DEF Base, NotedOnce, Goes, AfterFile
<1> QED
  BY <1>3, <1>4, <1>5, <1>6 DEF Base

LEMMA RowStepKeeps ==
  ASSUME FilesInv, NEW r \in Request, at[r] \in Working,
         NEW to \in Working \cup {"scanning", "over"}, at' = [at EXCEPT ![r] = to],
         Goes(r, to), Notes(r), UNCHANGED <<disk, notes, file, digest, todo, seen>>
  PROVE  FilesInv'
<1>1. /\ at \in [Request -> {"new", "reading", "scanning", "over"} \cup Working]
      /\ row \in [Document -> Status]
      /\ digest[r] \in Document /\ Upload \cap Scan = {}
  BY IngestAssumptions DEF FilesInv, Base, IngestTypeOK, FilesOK
<1>2. \A d \in Document : row[d] # "none" => row'[d] # "none"
  BY <1>1 DEF Notes
<1>3. Base'
  BY RowStepBase DEF FilesInv
<1>4. Spoiled' = Spoiled /\ UNCHANGED <<inbox, archive, rejected, offered, replaced>>
  BY DEF Spoiled, seen, disk
<1>5. ContentOK'
  <2> SUFFICES ASSUME NEW i \in Request, Relies(i)'
               PROVE  (inbox[file[i]] = digest[i] \/ file[i] \in Spoiled)'
    BY DEF ContentOK
  <2>1. Relies(i)
    <3>1. at[i] \in Working => digest[i] \in Document
      BY DEF FilesInv, Base, FilesOK
    <3> QED
      BY <1>1, <1>2, <3>1 DEF Relies, Goes, Working, AfterFile
  <2> QED
    BY <1>4, <2>1 DEF FilesInv, ContentOK
<1>6. TextOK' /\ NothingLost'
  BY <1>4 DEF FilesInv, TextOK, NothingLost
<1> QED
  BY <1>3, <1>5, <1>6 DEF FilesInv

LEMMA ExtractBase ==
  ASSUME Base, NEW r \in Request, Extract(r)
  PROVE  Base'
<1>1. /\ at \in [Request -> {"new", "reading", "scanning", "over"} \cup Working]
      /\ notes \subseteq [by : Request, from : Path, hash : Document, text : Document]
      /\ digest[r] \in Document /\ file[r] \in Path /\ inbox[file[r]] \in Document /\ at[r] = "extract"
  BY DEF Extract, Go, Base, IngestTypeOK, FilesOK, Working
<1> DEFINE note == [by |-> r, from |-> file[r], hash |-> digest[r], text |-> inbox[file[r]]]
<1>2. /\ at' = [at EXCEPT ![r] = "written"] /\ notes' = notes \cup {note}
      /\ UNCHANGED <<inbox, archive, rejected, row, file, digest, todo, dropped, offered, replaced>>
  BY <1>1 DEF Extract, Go, disk, seen
<1>3. note.hash = digest[r] /\ note \in [by : Request, from : Path, hash : Document, text : Document]
  BY <1>1
<1> HIDE DEF note
<1>4. IngestTypeOK'
  <2>1. at' \in [Request -> {"new", "reading", "scanning", "over"} \cup Working]
    BY <1>2, AtType DEF Base, Working
  <2> QED
    BY <1>2, <1>3, <2>1 DEF Base, IngestTypeOK
<1>5. FilesOK'
  BY <1>1, <1>2 DEF Base, FilesOK, Working, Request
<1>6. OwnerOK'
  <2>1. \A i \in Request : at'[i] \in Owning => at[i] \in Owning
    BY <1>1, <1>2 DEF Owning, Working
  <2>2. at[r] \in Owning
    BY <1>1 DEF Owning, Working
  <2>3. \A i \in Request : at'[i] \in {"mark", "extract"} =>
          at[i] \in {"mark", "extract"} /\ at[i] \in Owning /\ i # r
    BY <1>1, <1>2 DEF Owning, Working
  <2>4. \A i \in Request : at'[i] \in {"mark", "extract"} => digest[i] # digest[r]
    BY <2>2, <2>3 DEF Base, OwnerOK
  <2> QED
    BY <1>2, <1>3, <2>1, <2>2, <2>3, <2>4 DEF Base, OwnerOK
<1>7. NotedOnce'
  <2>1. \A n \in notes : n.hash # digest[r]
    BY <1>1 DEF Base, OwnerOK
  <2> QED
    BY <1>1, <1>2, <1>3, <2>1 DEF Base, NotedOnce
<1> QED
  BY <1>4, <1>5, <1>6, <1>7 DEF Base

LEMMA ExtractKeeps ==
  ASSUME FilesInv, NEW r \in Request, Extract(r)
  PROVE  FilesInv'
<1>1. at[r] = "extract" /\ (inbox[file[r]] = digest[r] \/ file[r] \in Spoiled)
  BY DEF Extract, Go, FilesInv, ContentOK, Relies
<1> DEFINE note == [by |-> r, from |-> file[r], hash |-> digest[r], text |-> inbox[file[r]]]
<1>2. /\ at' = [at EXCEPT ![r] = "written"] /\ notes' = notes \cup {note}
      /\ UNCHANGED <<inbox, archive, rejected, row, file, digest, todo, dropped, offered, replaced>>
  BY <1>1 DEF Extract, Go, disk, seen
<1>3. note.hash = digest[r] /\ note.text = inbox[file[r]] /\ note.from = file[r]
  OBVIOUS
<1> HIDE DEF note
<1>4. Base'
  BY ExtractBase DEF FilesInv
<1>5. Spoiled' = Spoiled
  BY <1>2 DEF Spoiled
<1>6. ContentOK'
  <2>1. \A i \in Request : Relies(i)' => Relies(i)
    <3>1. at \in [Request -> {"new", "reading", "scanning", "over"} \cup Working]
      BY DEF FilesInv, Base, IngestTypeOK
    <3> QED
      BY <1>1, <1>2, <3>1 DEF Relies
  <2> QED
    BY <1>2, <1>5, <2>1 DEF FilesInv, ContentOK
<1>7. TextOK'
  BY <1>1, <1>2, <1>3, <1>5 DEF FilesInv, TextOK
<1>8. NothingLost'
  BY <1>2 DEF FilesInv, NothingLost
<1> QED
  BY <1>4, <1>6, <1>7, <1>8 DEF FilesInv

LEMMA MoveBase ==
  ASSUME Base, NEW r \in Request, Fail(r) \/ Archive(r)
  PROVE  Base'
<1>1. /\ at \in [Request -> {"new", "reading", "scanning", "over"} \cup Working]
      /\ inbox \in [Path -> Document \cup {Nothing}] /\ row \in [Document -> Status]
      /\ at[r] \in {"failing", "index"} /\ file[r] \in Path /\ digest[r] \in Document
      /\ MovedFrom(r) \subseteq Document /\ Nothing \notin Document
      /\ row[digest[r]] # "none"
  <2>1. at[r] \in {"failing", "index"}
    BY DEF Fail, Archive, Go
  <2>2. file[r] \in Path /\ digest[r] \in Document /\ row[digest[r]] # "none"
    BY <2>1 DEF Base, FilesOK, OwnerOK, Working, Owning
  <2> QED
    BY <2>1, <2>2, IngestAssumptions DEF Base, IngestTypeOK, MovedFrom
<1>2. PICK to \in {"scanning", "over", "finish"} :
        /\ at' = [at EXCEPT ![r] = to] /\ (to = "finish" => at[r] = "index")
        /\ inbox' = [inbox EXCEPT ![file[r]] = Nothing]
        /\ to # "finish" => to = AfterFile(r)
        /\ archive' \cup rejected' \subseteq archive \cup rejected \cup MovedFrom(r)
        /\ row' \in {row, [row EXCEPT ![digest[r]] = "failed"]}
        /\ UNCHANGED <<notes, file, digest, todo, dropped, offered, replaced>>
  <2>1. CASE Fail(r)
    BY <1>1, <2>1 DEF Fail, Go, AfterFile, seen
  <2>2. CASE Archive(r)
    BY <1>1, <2>2 DEF Archive, Go, seen
  <2> QED
    BY <2>1, <2>2
<1>3. /\ row' \in [Document -> Status]
      /\ \A d \in Document : /\ row[d] # "none" => row'[d] # "none"
                             /\ row'[d] = "done" => row[d] = "done"
  BY <1>1, <1>2 DEF Status
<1>4. IngestTypeOK'
  <2>1. at' \in [Request -> {"new", "reading", "scanning", "over"} \cup Working]
    BY <1>2, AtType DEF Base, Working
  <2>2. inbox' \in [Path -> Document \cup {Nothing}]
    BY <1>1, <1>2
  <2>3. archive' \subseteq Document /\ rejected' \subseteq Document
    BY <1>1, <1>2 DEF Base, IngestTypeOK
  <2> QED
    BY <1>2, <1>3, <2>1, <2>2, <2>3 DEF Base, IngestTypeOK
<1>5. FilesOK'
  BY <1>1, <1>2, IngestAssumptions DEF Base, FilesOK, Working, Request, AfterFile
<1>6. OwnerOK'
  <2>1. \A i \in Request : at'[i] \in Owning => at[i] \in Owning /\ digest[i] \in Document
    BY <1>1, <1>2 DEF Owning, Working, Base, FilesOK
  <2>2. \A i \in Request : at'[i] \in {"mark", "extract"} => at[i] \in {"mark", "extract"}
    BY <1>1, <1>2
  <2>3. \A n \in notes : n.hash \in Document
    BY DEF Base, IngestTypeOK
  <2> QED
    BY <1>2, <1>3, <2>1, <2>2, <2>3 DEF Base, OwnerOK
<1>7. NotedOnce'
  BY <1>1, <1>2, <1>3 DEF Base, NotedOnce, AfterFile
<1> QED
  BY <1>4, <1>5, <1>6, <1>7 DEF Base

\* Who moves a file moves what it was hashed as, or the file is spoiled; nobody else relies
\* on that file.
LEMMA MoveKeeps ==
  ASSUME FilesInv, NEW r \in Request, Fail(r) \/ Archive(r)
  PROVE  FilesInv'
<1>1. /\ at \in [Request -> {"new", "reading", "scanning", "over"} \cup Working]
      /\ inbox \in [Path -> Document \cup {Nothing}]
      /\ at[r] \in {"failing", "index"} /\ file[r] \in Path /\ digest[r] \in Document
      /\ inbox[file[r]] = digest[r] \/ file[r] \in Spoiled
      /\ row[digest[r]] # "none" /\ row \in [Document -> Status] /\ offered \subseteq Document
      /\ Nothing \notin Document
  <2>1. at[r] \in {"failing", "index"}
    BY DEF Fail, Archive, Go
  <2>2. /\ file[r] \in Path /\ digest[r] \in Document
        /\ inbox[file[r]] = digest[r] \/ file[r] \in Spoiled
        /\ row[digest[r]] # "none"
    BY <2>1 DEF FilesInv, Base, FilesOK, ContentOK, Relies, Working, OwnerOK, Owning
  <2> QED
    BY <2>1, <2>2, IngestAssumptions DEF FilesInv, Base, IngestTypeOK
<1>2. PICK to \in {"scanning", "over", "finish"} :
        /\ at' = [at EXCEPT ![r] = to]
        /\ inbox' = [inbox EXCEPT ![file[r]] = Nothing]
        /\ MovedFrom(r) \subseteq archive' \cup rejected'
        /\ archive \subseteq archive' /\ rejected \subseteq rejected'
        /\ row' \in {row, [row EXCEPT ![digest[r]] = "failed"]}
        /\ UNCHANGED <<notes, file, digest, todo, dropped, offered, replaced>>
  <2>1. CASE Fail(r)
    BY <1>1, <2>1 DEF Fail, Go, AfterFile, seen
  <2>2. CASE Archive(r)
    BY <1>1, <2>2 DEF Archive, Go, seen
  <2> QED
    BY <2>1, <2>2
<1>3. \A d \in Document : row'[d] = "none" => row[d] = "none"
  BY <1>1, <1>2
<1>4. Base' /\ Spoiled' = Spoiled
  BY <1>2, MoveBase DEF FilesInv, Spoiled
<1>5. ContentOK'
  <2> SUFFICES ASSUME NEW i \in Request, Relies(i)', file[i] \notin Spoiled
               PROVE  inbox'[file[i]] = digest[i]
    BY <1>2, <1>4 DEF ContentOK
  <2>1. i # r /\ Relies(i) /\ file[i] \in Path /\ digest[i] \in Document
    <3>1. at[i] \in Working => file[i] \in Path /\ digest[i] \in Document
      BY DEF FilesInv, Base, FilesOK
    <3> QED
      BY <1>1, <1>2, <1>3, <3>1 DEF Relies, Working
  <2>2. inbox[file[i]] = digest[i]
    BY <2>1 DEF FilesInv, ContentOK
  <2>3. digest[i] # digest[r]
    <3>1. CASE at[i] \in {"lookup", "insert"} /\ row[digest[i]] = "none"
      BY <1>1, <3>1
    <3>2. CASE at[i] \in Owning
      BY <1>1, <2>1, <3>2 DEF FilesInv, Base, OwnerOK, Owning, Working
    <3> QED
      BY <2>1, <3>1, <3>2 DEF Relies, Owning, Working
  <2> QED
    BY <1>1, <1>2, <2>1, <2>2, <2>3
<1>6. TextOK'
  BY <1>2, <1>4 DEF FilesInv, TextOK
<1>7. NothingLost'
  <2> SUFFICES ASSUME NEW e \in offered, e \notin archive' \cup rejected',
                      ~\E o \in replaced : o[2] = e
               PROVE  \E q \in Path : inbox'[q] = e
    BY <1>2 DEF NothingLost
  <2>1. PICK q \in Path : inbox[q] = e
    BY <1>2 DEF FilesInv, NothingLost
  <2>2. q # file[r]
    BY <1>1, <1>2, <2>1 DEF MovedFrom
  <2> QED
    BY <1>1, <1>2, <2>1, <2>2
<1> QED
  BY <1>4, <1>5, <1>6, <1>7 DEF FilesInv

LEMMA RowSteps ==
  ASSUME Base, NEW r \in Request,
         Pipeline(r) \/ StatementRaises(r) \/ VaultRefuses(r) \/ ArchiveFails(r)
  PROVE  \/ Extract(r) \/ Fail(r) \/ Archive(r)
         \/ /\ at[r] \in Working /\ Notes(r) /\ UNCHANGED <<disk, notes, file, digest, todo, seen>>
            /\ \E to \in Working \cup {"scanning", "over"} :
                 at' = [at EXCEPT ![r] = to] /\ Goes(r, to)
<1>1. CASE \/ LookUp(r) \/ Insert(r) \/ Mark(r) \/ ExtractFails(r) \/ ExtractBreaks(r)
           \/ Break(r) \/ MarkIndexing(r) \/ Finish(r) \/ VaultRefuses(r)
           \/ ArchiveFails(r)
  <2>1. row \in [Document -> Status] /\ (at[r] \in Working => digest[r] \in Document)
    BY DEF Base, IngestTypeOK, FilesOK
  <2>2. UNCHANGED <<disk, notes, file, digest, todo, seen>> /\ at[r] \in Working
    BY <1>1 DEF LookUp, Insert, Mark, ExtractFails, ExtractBreaks, Break, MarkIndexing,
                Finish, VaultRefuses, ArchiveFails, Go, Working
  <2>3. \E to \in Working \cup {"scanning", "over"} :
          at' = [at EXCEPT ![r] = to] /\ Goes(r, to) /\ Notes(r)
    BY <1>1, <2>1, <2>2
    DEF LookUp, Insert, Mark, ExtractFails, ExtractBreaks, Break, MarkIndexing, Finish,
        VaultRefuses, ArchiveFails, Go, Goes, Notes, AfterFile, Working, Status, Known
  <2> QED
    BY <2>2, <2>3
<1>2. CASE StatementRaises(r)
  <2>1. at[r] \in Working /\ UNCHANGED <<disk, notes, file, digest, todo, seen>>
    BY <1>2 DEF StatementRaises, Writes, Working
  <2>2. \E to \in Working \cup {"scanning", "over"} : at' = [at EXCEPT ![r] = to] /\ Goes(r, to)
    BY <1>2 DEF StatementRaises, Goes, AfterFile, Working
  <2>3. Notes(r)
    BY <1>2 DEF StatementRaises, Notes, Writes, Status
  <2> QED
    BY <2>1, <2>2, <2>3
<1> QED
  BY <1>1, <1>2 DEF Pipeline

LEMMA PipelineKeeps ==
  ASSUME FilesInv, NEW r \in Request,
         Pipeline(r) \/ StatementRaises(r) \/ VaultRefuses(r) \/ ArchiveFails(r)
  PROVE  FilesInv'
BY RowSteps, RowStepKeeps, ExtractKeeps, MoveKeeps DEF FilesInv

LEMMA IngestRestartKeeps ==
  ASSUME FilesInv, IngestRestart
  PROVE  FilesInv'
<1>1. /\ at' = [r \in Request |-> IF at[r] = "new" THEN "new" ELSE "over"]
      /\ UNCHANGED <<inbox, archive, rejected, row, notes, file, digest, todo>>
      /\ UNCHANGED <<dropped, offered, replaced>>
  BY DEF IngestRestart, disk, seen
<1>2. IngestTypeOK'
  BY <1>1 DEF FilesInv, Base, IngestTypeOK
<1>3. FilesOK' /\ OwnerOK' /\ NotedOnce'
  BY <1>1 DEF FilesInv, Base, FilesOK, OwnerOK, NotedOnce, Owning, Working, Request
<1>4. ContentOK' /\ TextOK' /\ NothingLost'
  BY <1>1 DEF FilesInv, ContentOK, Relies, TextOK, NothingLost, Spoiled
<1> QED
  BY <1>2, <1>3, <1>4 DEF FilesInv, Base

LEMMA FilesStep ==
  ASSUME FilesInv, IngestNext \/ UNCHANGED ingestVars
  PROVE  FilesInv'
<1>1. CASE IngestNext
  BY <1>1, UploadKeeps, ScanKeeps, PipelineKeeps, IngestRestartKeeps, DropKeeps DEF IngestNext
<1>2. CASE UNCHANGED ingestVars
  <2>1. Base'
    BY <1>2 DEF FilesInv, Base, IngestTypeOK, FilesOK, OwnerOK, NotedOnce, ingestVars, disk, seen
  <2> QED
    BY <1>2, <2>1 DEF FilesInv, ContentOK, Relies, TextOK, NothingLost, Spoiled, ingestVars,
                      disk, seen
<1> QED
  BY <1>1, <1>2

-----------------------------------------------------------------------------
(***************************************************************************)
(* Speech.                                                                 *)
(***************************************************************************)
LEMMA SpeechStart == VoiceInit => SpeechInv
BY DEF VoiceInit, SpeechInv, VoiceTypeOK, LineOK, TapPutBack, SpeaksInTurn, State, Stage, Tapped,
       AtWork

LEMMA StageType ==
  ASSUME VoiceTypeOK, NEW u \in Utterance, NEW to \in Stage
  PROVE  [stage EXCEPT ![u] = to] \in [Utterance -> Stage]
BY DEF VoiceTypeOK

\* The end of an utterance leaves the line to the next one, who waits.
LEMMA ReturnsKeeps ==
  ASSUME VoiceTypeOK, LineOK, NEW u \in Utterance, Holds(u),
         NEW how \in Stage \ (AtWork \cup {"waits"}),
         stage' = [stage EXCEPT ![u] = how], queue' = Tail(queue)
  PROVE  LineOK' /\ queue' \in Seq(Utterance)
<1>1. /\ queue \in Seq(Utterance) /\ queue # <<>> /\ queue[1] = u
      /\ stage \in [Utterance -> Stage] /\ Len(queue) \in Nat
  BY DEF VoiceTypeOK, Holds
<1>2. /\ Tail(queue) \in Seq(Utterance) /\ Len(Tail(queue)) = Len(queue) - 1
      /\ \A i \in 1 .. Len(Tail(queue)) : Tail(queue)[i] = queue[i + 1]
  BY <1>1
<1>3. \A i \in 1 .. Len(Tail(queue)) :
        /\ i + 1 \in 1 .. Len(queue) /\ i + 1 # 1 /\ queue[i + 1] # u
        /\ queue[i + 1] \in Utterance
  BY <1>1, <1>2 DEF LineOK
<1>4. \A i, j \in 1 .. Len(queue') : queue'[i] = queue'[j] => i = j
  BY <1>1, <1>2, <1>3 DEF LineOK
<1>5. \A i \in 1 .. Len(queue') : stage'[queue'[i]] = "waits"
  BY <1>1, <1>2, <1>3 DEF LineOK
<1>6. \A v \in Utterance : stage'[v] \notin AtWork
  BY <1>1 DEF LineOK, Holds
<1> QED
  BY <1>2, <1>4, <1>5, <1>6 DEF LineOK

\* A step of the first in line that keeps his place.
LEMMA MovesKeeps ==
  ASSUME VoiceTypeOK, LineOK, NEW u \in Utterance, Holds(u), NEW to \in AtWork,
         stage' = [stage EXCEPT ![u] = to], queue' = queue
  PROVE  LineOK'
<1>1. /\ queue \in Seq(Utterance) /\ queue # <<>> /\ queue[1] = u
      /\ stage \in [Utterance -> Stage] /\ Len(queue) \in Nat
      /\ \A i \in 1 .. Len(queue) : queue[i] \in Utterance
  BY DEF VoiceTypeOK, Holds
<1>2. \A i \in 1 .. Len(queue) : stage'[queue[i]] = "waits" \/ (i = 1 /\ stage'[queue[i]] \in AtWork)
  BY <1>1 DEF LineOK
<1>3. \A v \in Utterance : stage'[v] \in AtWork => v = u \/ Holds(v)
  BY <1>1 DEF LineOK
<1> QED
  BY <1>2, <1>3 DEF LineOK, Holds

LEMMA UtterKeeps ==
  ASSUME SpeechInv, NEW u \in Utterance, Utter(u)
  PROVE  SpeechInv'
<1>1. /\ queue \in Seq(Utterance) /\ stage \in [Utterance -> Stage] /\ Len(queue) \in Nat
      /\ stage[u] = "new" /\ stage' = [stage EXCEPT ![u] = "waits"]
      /\ queue' = Append(queue, u) /\ UNCHANGED <<state, tap, heard, engine>>
      /\ \A i \in 1 .. Len(queue) : queue[i] \in Utterance
  BY DEF SpeechInv, VoiceTypeOK, Utter, Moves
<1>2. /\ queue' \in Seq(Utterance) /\ Len(queue') = Len(queue) + 1
      /\ \A i \in 1 .. Len(queue) : queue'[i] = queue[i]
      /\ queue'[Len(queue) + 1] = u
  BY <1>1
<1>3. \A i \in 1 .. Len(queue) : queue[i] # u
  BY <1>1 DEF SpeechInv, LineOK, AtWork, Tapped
<1>4. \A v \in Utterance : /\ Holds(v) => Holds(v)'
                           /\ stage'[v] = stage[v] \/ (v = u /\ stage'[v] = "waits")
  BY <1>1, <1>2 DEF Holds
<1>5. LineOK'
  <2>1. \A i, j \in 1 .. Len(queue') : queue'[i] = queue'[j] => i = j
    BY <1>1, <1>2, <1>3 DEF SpeechInv, LineOK
  <2>2. \A i \in 1 .. Len(queue') :
          stage'[queue'[i]] = "waits" \/ (i = 1 /\ stage'[queue'[i]] \in AtWork)
    BY <1>1, <1>2, <1>3 DEF SpeechInv, LineOK
  <2>3. \A v \in Utterance : stage'[v] \in AtWork => Holds(v)'
    BY <1>4 DEF SpeechInv, LineOK, AtWork, Tapped
  <2> QED
    BY <2>1, <2>2, <2>3 DEF LineOK
<1>6. VoiceTypeOK'
  BY <1>1, <1>2, StageType DEF SpeechInv, VoiceTypeOK, Stage
<1>7. TapPutBack' /\ SpeaksInTurn'
  BY <1>1, <1>4 DEF SpeechInv, VoiceTypeOK, TapPutBack, SpeaksInTurn, Tapped
<1> QED
  BY <1>5, <1>6, <1>7 DEF SpeechInv

\* What the steps of an utterance have in common: its own stage changes, it is the first
\* in line and stays so or leaves.  The tap is its own while it is before or in its run.
Proceeds(u, to) ==
  /\ Holds(u) /\ stage' = [stage EXCEPT ![u] = to]
  /\ \/ to \in AtWork /\ queue' = queue
     \/ to \notin AtWork \cup {"waits"} /\ queue' = Tail(queue)
  /\ \/ tap' = Hub
     \/ tap' = u /\ to \in Tapped
     \/ tap' = tap /\ (tap = Hub \/ tap # u)
  /\ state' \in State
  /\ \/ state' = "speaking" /\ to \notin Tapped \cup {"starts", "stt", "costs", "empty"}
     \/ state' # "speaking"

LEMMA ProceedsKeeps ==
  ASSUME SpeechInv, NEW u \in Utterance, NEW to \in Stage, Proceeds(u, to),
         engine' \in Utterance \cup {Other, Silence, Offline},
         heard' \in [Utterance -> Utterance \cup {Other, Silence}]
  PROVE  SpeechInv'
<1>1. /\ queue \in Seq(Utterance) /\ stage \in [Utterance -> Stage] /\ queue # <<>>
      /\ queue[1] = u /\ VoiceTypeOK /\ LineOK
  BY DEF SpeechInv, VoiceTypeOK, Proceeds, Holds
<1>2. LineOK' /\ queue' \in Seq(Utterance)
  BY <1>1, MovesKeeps, ReturnsKeeps DEF Proceeds
<1>3. \A v \in Utterance : v # u => stage'[v] = stage[v] /\ stage[v] \notin AtWork
  BY <1>1 DEF Proceeds, LineOK, Holds
<1>4. tap = Hub \/ tap = u
  <2>1. tap # Hub => tap \in Utterance /\ Holds(tap)
    BY DEF SpeechInv, TapPutBack, VoiceTypeOK
  <2> QED
    BY <1>1, <2>1 DEF Holds
<1>5. VoiceTypeOK'
  <2>1. stage' \in [Utterance -> Stage]
    BY <1>1, StageType DEF Proceeds
  <2>2. state' \in State
    BY DEF Proceeds
  <2>3. tap' \in Utterance \cup {Hub}
    BY DEF SpeechInv, VoiceTypeOK, Proceeds
  <2> QED
    BY <1>2, <2>1, <2>2, <2>3 DEF VoiceTypeOK
<1>6. TapPutBack'
  BY <1>1, <1>4 DEF TapPutBack, Proceeds, Holds, Tapped, AtWork
<1>7. SpeaksInTurn'
  BY <1>1, <1>3 DEF SpeaksInTurn, Proceeds, AtWork
<1> QED
  BY <1>2, <1>5, <1>6, <1>7 DEF SpeechInv


LEMMA UttersKeeps ==
  ASSUME SpeechInv, NEW u \in Utterance, Utters(u) \/ CostRaises(u)
  PROVE  SpeechInv'
<1>1. /\ state \in State /\ tap \in Utterance \cup {Hub}
      /\ engine \in Utterance \cup {Other, Silence, Offline}
      /\ heard \in [Utterance -> Utterance \cup {Other, Silence}]
      /\ stage[u] \in AtWork => Holds(u)
      /\ tap = u => tap = Hub \/ stage[u] \in Tapped
      /\ state = "speaking" => stage[u] \notin Tapped \cup {"starts", "stt", "costs", "empty"}
  BY DEF SpeechInv, VoiceTypeOK, LineOK, TapPutBack, SpeaksInTurn
<1>2. /\ engine' \in Utterance \cup {Other, Silence, Offline}
      /\ heard' \in [Utterance -> Utterance \cup {Other, Silence}]
  <2>1. [heard EXCEPT ![u] = u] \in [Utterance -> Utterance \cup {Other, Silence}]
    BY <1>1
  <2> QED
    BY <1>1, <2>1
    DEF Utters, CostRaises, Begin, Start, Transcribe, TranscribeFails, NothingSaid, Busy, Route,
        Echo, Capped, Admitted, TakesLock, RunReturns, Settled, RunRaises, Speak, Synthesize, SynthesizeFails,
        Answer
<1>3. \E to \in Stage : Proceeds(u, to)
  <2>1. CASE Begin(u) \/ Start(u)
    BY <1>1, <2>1 DEF Begin, Start, Moves, Returns, Proceeds, Stage, AtWork, Tapped, State, Legal
  <2>2. CASE Transcribe(u) \/ TranscribeFails(u) \/ NothingSaid(u)
    BY <1>1, <2>2
    DEF Transcribe, TranscribeFails, NothingSaid, Moves, Returns, Proceeds, Stage, AtWork,
        Tapped, State
  <2>3. CASE Busy(u) \/ Route(u) \/ Echo(u) \/ Capped(u)
    BY <1>1, <2>3
    DEF Busy, Route, Echo, Capped, Moves, Returns, Proceeds, Stage, AtWork, Tapped, PutBack
  <2>4. CASE Admitted(u) \/ TakesLock(u)
    BY <1>1, <2>4
    DEF Admitted, TakesLock, Moves, Returns, Proceeds, Stage, AtWork, Tapped
  <2>5. CASE RunReturns(u) \/ Settled(u) \/ RunRaises(u)
    BY <1>1, <2>5
    DEF RunReturns, Settled, RunRaises, Moves, Returns, Proceeds, Stage, AtWork, Tapped, PutBack
  <2>6. CASE Speak(u)
    BY <1>1, <2>6 DEF Speak, Moves, Returns, Proceeds, Stage, AtWork, Tapped, State
  <2>7. CASE Synthesize(u) \/ SynthesizeFails(u) \/ Answer(u) \/ CostRaises(u)
    BY <1>1, <2>7
    DEF Synthesize, SynthesizeFails, Answer, CostRaises, Moves, Returns, Proceeds, Stage,
        AtWork, Tapped, State
  <2> QED
    BY <2>1, <2>2, <2>3, <2>4, <2>5, <2>6, <2>7 DEF Utters
<1> QED
  BY <1>2, <1>3, ProceedsKeeps

LEMMA SpeechStep ==
  ASSUME SpeechInv, VoiceNext \/ UNCHANGED voiceVars
  PROVE  SpeechInv'
<1>1. CASE /\ state' \in {state, "idle", "listening"} /\ UNCHANGED <<queue, stage, tap>>
           /\ heard' \in [Utterance -> Utterance \cup {Other, Silence}]
           /\ engine' \in Utterance \cup {Other, Silence, Offline}
  BY <1>1
  DEF SpeechInv, VoiceTypeOK, State, LineOK, TapPutBack, SpeaksInTurn, Holds
<1>2. CASE UNCHANGED voiceVars
  BY <1>1, <1>2 DEF voiceVars, SpeechInv, VoiceTypeOK
<1>3. CASE Listen \/ CancelOrDone \/ OtherStarts \/ OtherEnds
  <2>1. \A h \in Utterance : [heard EXCEPT ![h] = Other] \in [Utterance -> Utterance \cup {Other, Silence}]
    BY DEF SpeechInv, VoiceTypeOK
  <2>2. /\ heard \in [Utterance -> Utterance \cup {Other, Silence}]
        /\ engine \in Utterance \cup {Other, Silence, Offline} /\ tap \in Utterance \cup {Hub}
    BY DEF SpeechInv, VoiceTypeOK
  <2> QED
    BY <1>1, <1>3, <2>1, <2>2 DEF Listen, CancelOrDone, OtherStarts, OtherEnds
<1>4. CASE \E u \in Utterance : Utter(u) \/ Utters(u) \/ CostRaises(u)
  BY <1>4, UtterKeeps, UttersKeeps
<1>5. CASE VoiceRestart
  <2>1. /\ state' = "idle" /\ queue' = <<>> /\ tap' = Hub /\ engine' \in {Silence, Offline}
        /\ stage' = [u \in Utterance |-> IF stage[u] = "new" THEN "new" ELSE "failed"]
        /\ heard' = heard
    BY <1>5 DEF VoiceRestart
  <2> QED
    BY <2>1
    DEF SpeechInv, VoiceTypeOK, State, Stage, LineOK, TapPutBack, SpeaksInTurn, AtWork, Tapped
<1> QED
  BY <1>2, <1>3, <1>4, <1>5 DEF VoiceNext

-----------------------------------------------------------------------------
(***************************************************************************)
(* Both, and the theorems.                                                 *)
(***************************************************************************)
LEMMA FaultType == ASSUME FaultsTypeOK, Fault \/ UNCHANGED faults PROVE FaultsTypeOK'
BY FaultAssumptions DEF FaultsTypeOK, Fault

\* The strengthening.
THEOREM Invariance == Spec => []IInv
<1>1. Init => IInv
  BY FilesStart, SpeechStart, FaultAssumptions DEF Init, IInv, FaultsInit, FaultsTypeOK
<1>2. ASSUME IInv, [Next]_vars PROVE IInv'
  <2>1. part' = part /\ (Fault \/ UNCHANGED faults)
    BY <1>2 DEF Next, vars, IngestNext, VoiceNext, StatementRaises, VaultRefuses, ArchiveFails,
                IngestRestart, CostRaises, VoiceRestart
  <2>2. FilesInv'
    BY <1>2, FilesStep DEF Next, vars, IInv
  <2>3. SpeechInv'
    BY <1>2, SpeechStep DEF Next, vars, IInv
  <2> QED
    BY <1>2, <2>1, <2>2, <2>3, FaultType DEF IInv
<1> QED
  BY <1>1, <1>2, PTL DEF Spec

\* Every variable keeps its type (core/ingest, core/voice).
THEOREM TypeCorrect == Spec => []TypeOK
<1>1. IInv => TypeOK
  BY DEF IInv, FilesInv, Base, SpeechInv, TypeOK
<1> QED
  BY Invariance, <1>1, PTL

\* The broadcast of the orchestrator is tapped by the first in line only and is always put
\* back (VoicePipeline._route).
THEOREM TapPutBackHolds == Spec => []TapPutBack
<1>1. IInv => TapPutBack
  BY DEF IInv, SpeechInv
<1> QED
  BY Invariance, <1>1, PTL

\* The indicator does not say "speaking" while an utterance is transcribed or run
\* (VoiceStateMachine.transition, the voice endpoints).
THEOREM SpeaksInTurnHolds == Spec => []SpeaksInTurn
<1>1. IInv => SpeaksInTurn
  BY DEF IInv, SpeechInv
<1> QED
  BY Invariance, <1>1, PTL

\* Whatever came into the inbox is in one of the three directories, unless an upload wrote
\* over it that had chosen its file before: with any names, any requests and any statement
\* or move that raises (ingest_file, scan_inbox, IngestPipeline.ingest_path).
THEOREM NothingLostHolds == Spec => []NothingLost
<1>1. IInv => NothingLost
  BY DEF IInv, FilesInv
<1> QED
  BY Invariance, <1>1, PTL

\* One note per content, one for every row that says "done", and a true one unless its file
\* was written over (IngestPipeline.ingest_path, the UNIQUE index of ingested_files).
THEOREM NotesTrueHolds == Spec => []NotesTrue
<1>1. IInv => NotesTrue
  BY DEF IInv, FilesInv, Base, NotedOnce, TextOK, Spoiled, NotesTrue
<1> QED
  BY Invariance, <1>1, PTL
=============================================================================
