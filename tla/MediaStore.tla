----------------------------- MODULE MediaStore -----------------------------
(***************************************************************************)
(* The files of the chats: rows that point to objects, the handlers that   *)
(* copy a pointer from one row to another, and the jobs that remove        *)
(* objects: the nightly purge, the button that deletes a file, and the     *)
(* joining of duplicates, which a command line also runs in a process of   *)
(* its own.                                                                *)
(***************************************************************************)
EXTENDS Naturals, FiniteSets

CONSTANTS
  MaxRow,   \* bound: messages, quick replies and stickers, in order of creation
  MaxObject,
  Content, First, \* what files hold, and what the first one does
  MaxCopies, \* bound: copies
  MaxJobs,   \* bound: jobs
  None

Row == 1..MaxRow
Object == 1..MaxObject
Process == {"api", "cli"}
MISSING == "missing"
Joined == {"message", "reply"}  \* the rows whose pointer a join may move
\* What a row says of its file, and the step at which a job stands.
FileRow ==
  [kind : {"message", "reply", "sticker"}, url : Object \cup {None}, hash : Content \cup {MISSING, None},
   old : BOOLEAN, keep : BOOLEAN, holds : Content]
JobSteps == {"hash", "repoint", "check", "protect", "remove", "forget"}
FileJob ==
  [kind : {"purge", "join"}, at : JobSteps,
   ids : SUBSET Row, names : SUBSET Object, keep : Object \cup {None}, alone : BOOLEAN]

MediaAssumption ==
  /\ MaxRow \in Nat /\ MaxObject \in Nat \ {0, 1} /\ MaxCopies \in Nat /\ MaxJobs \in Nat
  /\ First \in Content /\ MISSING \notin Content /\ None \notin Nat \cup Content \cup FileRow \cup FileJob

VARIABLES
  rows,     \* [Row -> kind, url, hash, old, whether the purge keeps it, the bytes it was made with; or None]
  stored,   \* objects in the bucket
  content,  \* [Object -> Content]
  copying,  \* handlers that hold a url they have not written yet
  job,      \* [Process -> the job that holds the lock, or None]
  copies, jobs, \* how many so far
  raced,    \* history: rows whose pointer was written or moved around a removal
  unfinished \* history: rows whose purge stopped between the bucket and the table

mediaVars == <<rows, stored, content, copying, job, copies, jobs, raced, unfinished>>

Rows(kinds) == {r \in Row : rows[r] # None /\ rows[r].kind \in kinds /\ rows[r].url # None}
Pointing(kinds, names) == {r \in Rows(kinds) : rows[r].url \in names}
NewRow(kind, url, keep) ==
  [kind |-> kind, url |-> url, hash |-> None, old |-> FALSE, keep |-> keep, holds |-> content[url]]

\* Two rows of any kind over two objects, with the same bytes or not.
MediaInit ==
  /\ content \in [Object -> Content] /\ content[1] = First
  /\ stored = {1, 2}
  /\ \E k1 \in Joined, k2 \in {"message", "reply", "sticker"}, keep \in BOOLEAN :
       rows = [r \in Row |-> IF r = 1 THEN NewRow(k1, 1, FALSE) ELSE IF r = 2 THEN NewRow(k2, 2, keep) ELSE None]
  /\ copying = {} /\ job = [p \in Process |-> None] /\ copies = 0 /\ jobs = 0
  /\ raced = {} /\ unfinished = {}

\* A row of some age may be hashed (an hour) and purged (the retention period): the
\* second is told apart by keep alone.
Age(r) ==
  /\ rows[r] # None /\ ~rows[r].old
  /\ rows' = [rows EXCEPT ![r].old = TRUE]
  /\ UNCHANGED <<stored, content, copying, job, copies, jobs, raced, unfinished>>

Takes(to, url, hash, holds, into) ==
  /\ copies < MaxCopies /\ copies' = copies + 1
  /\ copying' = copying \cup {[to |-> to, url |-> url, hash |-> hash, holds |-> holds, into |-> into]}
  /\ UNCHANGED <<rows, content, job, jobs, raced, unfinished>>

\* A file is uploaded first, and its row comes after.
Upload(o, to) ==
  /\ o \notin stored /\ \A r \in Row : rows[r] # None => rows[r].url # o
  /\ stored' = stored \cup {o}
  /\ Takes(to, o, None, content[o], None)

\* A file of a chat; a picture made a sticker; the file of a new quick reply, which
\* waits in the form until it is saved.
SendMedia(o) == Upload(o, "message")
UploadSticker(o) == Upload(o, "sticker")
CreateReply(o) == Upload(o, "reply")

\* A handler reads a row and will write its pointer elsewhere.
ReadToCopy(r, from, to, hash, into) ==
  /\ r \in Rows({from})
  /\ Takes(to, rows[r].url, hash, rows[r].holds, into)
  /\ UNCHANGED stored

\* A forward takes the hash along, with the metadata.
ForwardMessage(r) == ReadToCopy(r, "message", "message", rows[r].hash, None)
SendSticker(r) == ReadToCopy(r, "sticker", "message", None, None)
AddFromMessage(r) == ReadToCopy(r, "message", "sticker", None, None)
\* A quick reply open in the form keeps the url it had when it was opened.
UpdateReply(r) == ReadToCopy(r, "reply", "reply", None, r)

\* A job that removes the file has asked before the copy was written.
Overlooks(j, w) ==
  /\ w.url \in j.names
  /\ \/ j.at = "remove"
     \/ j.at = "protect" /\ w.to \in Joined

\* The copy is written as a new row, or over the quick reply being edited.
WriteCopy(w) ==
  /\ copying' = copying \ {w}
  /\ \E r \in Row :
       /\ IF w.into # None THEN r = w.into ELSE rows[r] = None /\ \A q \in Row : q < r => rows[q] # None
       /\ rows' = [rows EXCEPT ![r] = IF w.into # None THEN [rows[r] EXCEPT !.url = IF @ = None THEN @ ELSE w.url]
                                      ELSE [kind |-> w.to, url |-> w.url, hash |-> w.hash, old |-> FALSE, keep |-> FALSE, holds |-> w.holds]]
       /\ raced' = IF w.url \notin stored \/ \E p \in Process : job[p] # None /\ Overlooks(job[p], w)
                   THEN raced \cup {r} ELSE raced
  /\ UNCHANGED <<stored, content, job, copies, jobs, unfinished>>

\* exclusive: one job at a time in a process, but each process has its own lock.
Start(p, kind, at, ids, names) ==
  /\ job[p] = None /\ jobs < MaxJobs /\ jobs' = jobs + 1
  /\ LET alone == \A q \in Process : job[q] = None
     IN job' = [q \in Process |-> IF q = p THEN [kind |-> kind, at |-> at, ids |-> ids, names |-> names, keep |-> None, alone |-> alone]
                                  ELSE IF job[q] = None THEN None ELSE [job[q] EXCEPT !.alone = FALSE]]
  /\ UNCHANGED <<rows, stored, content, copying, copies, raced, unfinished>>

\* purgeOldMedia: every expired file but images and PDF.
PurgeOldMedia ==
  LET ids == {r \in Rows({"message"}) : rows[r].old /\ ~rows[r].keep}
  IN ids # {} /\ Start("api", "purge", "check", ids, {rows[r].url : r \in ids})

\* deleteFile: the file of a message, taken from every message that shares it.
DeleteFile(r) ==
  /\ r \in Rows({"message"})
  /\ Start("api", "purge", "check", Pointing({"message"}, {rows[r].url}), {rows[r].url})

\* The joining of duplicates, by night or by hand.
JoinDuplicates(p) == Start(p, "join", "hash", {}, {})

\* hashPendingMessages: what has no hash yet, one by one; no object, no content.
HashMessage(p, r) ==
  /\ job[p] # None /\ job[p].at = "hash"
  /\ r \in Rows({"message"}) /\ rows[r].hash = None /\ rows[r].old
  /\ rows' = [rows EXCEPT ![r].hash = IF rows[r].url \in stored THEN content[rows[r].url] ELSE MISSING]
  /\ UNCHANGED <<stored, content, copying, job, copies, jobs, raced, unfinished>>

\* The hash a row goes by: its own, or that of a quick reply's file read again.
HashOf(r) ==
  IF rows[r].kind = "message" THEN rows[r].hash
  ELSE IF rows[r].old /\ rows[r].url \in stored THEN content[rows[r].url] ELSE None

NothingProtected(names) == {}
\* What a row that no join may move points to.
ProtectedObjects(names) == {rows[r].url : r \in Pointing({"sticker"}, names)}

\* A group of identical files.  The one to keep is the oldest, or one a sticker holds,
\* and nothing moves if that one is not in the bucket.
Group(p) ==
  /\ job[p] # None /\ job[p].at = "hash"
  /\ \A r \in Rows({"message"}) : rows[r].hash # None \/ ~rows[r].old
  /\ \E h \in Content :
       LET group == {r \in Rows(Joined) : HashOf(r) = h}
           names == {rows[r].url : r \in group}
           safe == ProtectedObjects(names)
       IN IF Cardinality(names) < 2 THEN job' = [job EXCEPT ![p] = None]
          ELSE \E k \in IF safe # {} THEN safe ELSE {rows[r].url : r \in {g \in group : \A q \in group : g <= q}} :
                 job' = [job EXCEPT ![p] = IF k \in stored THEN [@ EXCEPT !.at = "repoint", !.names = names \ {k}, !.keep = k] ELSE None]
  /\ UNCHANGED <<rows, stored, content, copying, copies, jobs, raced, unfinished>>

\* Every message and quick reply that points to a duplicate points to the one kept.
Repoint(p) ==
  /\ job[p] # None /\ job[p].at = "repoint"
  /\ LET moved == Pointing(Joined, job[p].names)
     IN /\ rows' = [r \in Row |-> IF r \in moved THEN [rows[r] EXCEPT !.url = job[p].keep] ELSE rows[r]]
        /\ raced' = IF job[p].keep \in stored THEN raced ELSE raced \cup moved
  /\ job' = [job EXCEPT ![p].at = "check"]
  /\ UNCHANGED <<stored, content, copying, copies, jobs, unfinished>>

Unused(names, ids) == {o \in names : Pointing(Joined, {o}) \subseteq ids}

\* unreferencedObjects asks twice: which files no message and no quick reply points to,
\* but for those being purged, and then which of them nothing else points to.
CheckUsed(p) ==
  /\ job[p] # None /\ job[p].at = "check"
  /\ job' = [job EXCEPT ![p].names = Unused(@, job[p].ids), ![p].at = "protect"]
  /\ UNCHANGED <<rows, stored, content, copying, copies, jobs, raced, unfinished>>

CheckProtected(p) ==
  /\ job[p] # None /\ job[p].at = "protect"
  /\ job' = [job EXCEPT ![p].names = @ \ ProtectedObjects(@), ![p].at = "remove"]
  /\ UNCHANGED <<rows, stored, content, copying, copies, jobs, raced, unfinished>>

\* removeObjects.  When the bucket fails a purge leaves the tables as they are.
RemoveObjects(p, ok) ==
  /\ job[p] # None /\ job[p].at = "remove"
  /\ stored' = IF ok THEN stored \ job[p].names ELSE stored
  /\ raced' = IF ok /\ ~job[p].alone
              THEN raced \cup (Pointing({"message", "reply", "sticker"}, job[p].names) \ job[p].ids) ELSE raced
  /\ job' = [job EXCEPT ![p] = IF ok /\ @.kind = "purge" THEN [@ EXCEPT !.at = "forget"] ELSE None]
  /\ UNCHANGED <<rows, content, copying, copies, jobs, unfinished>>

\* The purged messages point to nothing from now on.
ForgetFiles(p) ==
  /\ job[p] # None /\ job[p].at = "forget"
  /\ rows' = [r \in Row |-> IF r \in job[p].ids THEN [rows[r] EXCEPT !.url = None] ELSE rows[r]]
  /\ unfinished' = unfinished \ job[p].ids
  /\ job' = [job EXCEPT ![p] = None]
  /\ UNCHANGED <<stored, content, copying, copies, jobs, raced>>

\* The process dies: the lock goes with it, and so does what was half done.
MediaCrash(p) ==
  /\ job[p] # None
  /\ unfinished' = IF job[p].at = "forget" THEN unfinished \cup job[p].ids ELSE unfinished
  /\ job' = [job EXCEPT ![p] = None]
  /\ UNCHANGED <<rows, stored, content, copying, copies, jobs, raced>>

\* A quick reply or a sticker is removed, its file stays.
Forget(r) ==
  /\ rows[r] # None /\ rows[r].kind # "message" /\ rows[r].url # None
  /\ rows' = [rows EXCEPT ![r].url = None]
  /\ UNCHANGED <<stored, content, copying, job, copies, jobs, raced, unfinished>>

MediaNext ==
  \/ \E r \in Row :
       \/ Age(r) \/ DeleteFile(r) \/ Forget(r)
       \/ ForwardMessage(r) \/ SendSticker(r) \/ AddFromMessage(r) \/ UpdateReply(r)
  \/ \E o \in Object : SendMedia(o) \/ UploadSticker(o) \/ CreateReply(o)
  \/ \E w \in copying : WriteCopy(w)
  \/ PurgeOldMedia
  \/ \E p \in Process :
       \/ JoinDuplicates(p) \/ Group(p) \/ Repoint(p) \/ CheckUsed(p) \/ CheckProtected(p) \/ ForgetFiles(p) \/ MediaCrash(p)
       \/ \E r \in Row : HashMessage(p, r)
       \/ \E ok \in BOOLEAN : RemoveObjects(p, ok)

-----------------------------------------------------------------------------
\* A row that points to a file finds it in the bucket with the bytes it was made with,
\* through purges, deletions, joins and copies: only a copy written around a removal,
\* two processes at once, or a purge not finished may leave it without.
FilesKept ==
  \A r \in Rows({"message", "reply", "sticker"}) :
    \/ r \in raced \cup unfinished \/ \E p \in Process : job[p] # None /\ job[p].at = "forget" /\ r \in job[p].ids
    \/ rows[r].url \in stored /\ content[rows[r].url] = rows[r].holds
=============================================================================
