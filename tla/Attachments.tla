---------------------------- MODULE Attachments ----------------------------
(***************************************************************************)
(* Attachments (internal/attachments), their files in the content-         *)
(* addressable store, their rows, the garbage collection, and what         *)
(* retention and purge do with them (internal/messaging/retention.go).     *)
(*                                                                         *)
(* A file is named by the hash of its content and shared by every row with *)
(* that hash.  Files and rows are written one after the other, and neither *)
(* uploads, links, collections nor clean-ups know of each other; the mutex *)
(* of the store covers one file operation, that of the collection only     *)
(* other collections.  A file is a pair of a directory layout and a hash:  *)
(* the store uses two levels of directories.                               *)
(***************************************************************************)
EXTENDS Naturals, Sequences, FiniteSets

CONSTANTS
    Hashes,
    AttMessages,      \* messages that may have attachments
    Uploaders,        \* concurrent uploads and links
    Cleaners,         \* the retention worker, a purge
    MaxAttachments

VARIABLES
    files,        \* set of [dir, hash]
    attRows,      \* set of [id, hash, msg]; msg = NoMessage until it is linked
    attMsgs,      \* message -> "absent" | "live" | "gone"
    uploads,      \* uploader -> [pc, hash, msg]
    gc,           \* [pc, orphans, hash]
    cleaning,     \* cleaner -> hashes whose rows it deleted
    disturbed,    \* history: hashes uploaded or linked while a collection had them, or
                  \* after one stopped between the file and its rows
    abandoned     \* history: hashes of uploads that stopped before their row

atVars == <<files, attRows, attMsgs, uploads, gc, cleaning, disturbed, abandoned>>

NoMessage == "no message"

\* "none" stands for the hash of no file, and NoMessage for NULL
ASSUME AttachmentsAssumption ==
    /\ NoMessage \notin AttMessages
    /\ "none" \notin Hashes
    /\ MaxAttachments \in Nat

NoUpload == [pc |-> "idle"]
NoGC == [pc |-> "idle", orphans |-> {}, hash |-> "none"]

AttachmentsInit ==
    /\ files = {}
    /\ attRows = {}
    /\ attMsgs = [m \in AttMessages |-> "absent"]
    /\ uploads = [u \in Uploaders |-> NoUpload]
    /\ gc = NoGC
    /\ cleaning = [k \in Cleaners |-> {}]
    /\ disturbed = {}
    /\ abandoned = {}

-----------------------------------------------------------------------------
(* The store of files.                                                     *)

shardPath(h) == [dir |-> "ab/cd", hash |-> h]

Write(h) == files' = files \union {shardPath(h)}
Read(h) == shardPath(h) \in files
Delete(h) == files' = files \ {shardPath(h)}

(* The rows.                                                               *)

FreshId == CHOOSE i \in 1..MaxAttachments : \A r \in attRows : r.id # i

InsertMetadata(h, m) == attRows' = attRows \union {[id |-> FreshId, hash |-> h, msg |-> m]}
GetByHash(h) == {r \in attRows : r.hash = h}
GetByMessageID(m) == {r \in attRows : r.msg = m}
DeleteByHash(h) == attRows' = attRows \ GetByHash(h)

IsLive(m) == m # NoMessage /\ attMsgs[m] = "live"

\* Mutant: one reference that is not live makes an orphan of a shared file.
FindUnlinkedHashes == {h \in Hashes : \E r \in GetByHash(h) : ~IsLive(r.msg)}

\* Hashes of rows that no live message refers to
FindOrphanHashes == {h \in Hashes : GetByHash(h) # {} /\ \A r \in GetByHash(h) : ~IsLive(r.msg)}

Selected == gc.orphans \union ({gc.hash} \ {"none"})
HalfCollected(h) == GetByHash(h) # {} /\ ~Read(h)
Disturb(h) ==
    disturbed' = IF h \in Selected \/ HalfCollected(h) THEN disturbed \union {h} ELSE disturbed

-----------------------------------------------------------------------------
(* Upload: the file, unless it is there, then the row.                     *)

Upload(u, h, m) ==
    /\ uploads[u] = NoUpload /\ Cardinality(attRows) < MaxAttachments
    /\ Write(h)
    /\ uploads' = [uploads EXCEPT ![u] = [pc |-> "row", hash |-> h, msg |-> m]]
    /\ Disturb(h)
    /\ UNCHANGED <<attRows, attMsgs, gc, cleaning, abandoned>>

\* upload_attachment may name a message, POST /api/attachments does not
callUploadAttachment(u, h, m) == (m = NoMessage \/ IsLive(m)) /\ Upload(u, h, m)
RestUpload(u, h) == Upload(u, h, NoMessage)

\* SendMessage links what was uploaded before: a copy of a row, for its message
AttachToMessage(u, h, m) ==
    /\ uploads[u] = NoUpload /\ IsLive(m) /\ GetByHash(h) # {}
    /\ \A r \in GetByMessageID(m) : r.hash # h  \* once per message
    /\ uploads' = [uploads EXCEPT ![u] = [pc |-> "link", hash |-> h, msg |-> m]]
    /\ Disturb(h)
    /\ UNCHANGED <<files, attRows, attMsgs, gc, cleaning, abandoned>>

\* The row; the foreign key refuses one for a message that is gone
InsertRow(u) ==
    LET q == uploads[u]  ok == q.msg = NoMessage \/ IsLive(q.msg) IN
    /\ q.pc \in {"row", "link"} /\ Cardinality(attRows) < MaxAttachments
    /\ IF ok THEN InsertMetadata(q.hash, q.msg) ELSE UNCHANGED attRows
    /\ abandoned' = IF ok \/ q.pc = "link" THEN abandoned ELSE abandoned \union {q.hash}
    /\ uploads' = [uploads EXCEPT ![u] = NoUpload]
    /\ Disturb(q.hash)
    /\ UNCHANGED <<files, attMsgs, gc, cleaning>>

-----------------------------------------------------------------------------
(* Garbage collection (attachments.gc): one at a time; per orphan the file, *)
(* then its rows.                                                          *)

GarbageCollect ==
    /\ gc.pc = "idle" /\ FindOrphanHashes # {}
    /\ gc' = [pc |-> "file", orphans |-> FindOrphanHashes, hash |-> "none"]
    /\ disturbed' = disturbed \union
          {h \in FindOrphanHashes : \E u \in Uploaders : uploads[u] # NoUpload /\ uploads[u].hash = h}
    /\ UNCHANGED <<files, attRows, attMsgs, uploads, cleaning, abandoned>>

handleAttachmentsGC == GarbageCollect

DeleteOrphanFile(h) ==
    /\ gc.pc = "file" /\ h \in gc.orphans
    /\ Delete(h)
    /\ gc' = [pc |-> "rows", orphans |-> gc.orphans \ {h}, hash |-> h]
    /\ UNCHANGED <<attRows, attMsgs, uploads, cleaning, disturbed, abandoned>>

DeleteOrphanRows ==
    /\ gc.pc = "rows"
    /\ DeleteByHash(gc.hash)
    /\ gc' = IF gc.orphans = {} THEN NoGC ELSE [gc EXCEPT !.pc = "file", !.hash = "none"]
    /\ UNCHANGED <<files, attMsgs, uploads, cleaning, disturbed, abandoned>>

-----------------------------------------------------------------------------
(* Messages come and go.                                                   *)

MessageSent(m) ==
    /\ attMsgs[m] = "absent"
    /\ attMsgs' = [attMsgs EXCEPT ![m] = "live"]
    /\ UNCHANGED <<files, attRows, uploads, gc, cleaning, disturbed, abandoned>>

\* deleteBatch and PurgeMessages: one transaction with the rows, then the files
deleteBatch(k, m) ==
    /\ cleaning[k] = {} /\ attMsgs[m] = "live"
    /\ attMsgs' = [attMsgs EXCEPT ![m] = "gone"]
    /\ attRows' = attRows \ GetByMessageID(m)
    /\ cleaning' = [cleaning EXCEPT ![k] = {r.hash : r \in GetByMessageID(m)}]
    /\ UNCHANGED <<files, uploads, gc, disturbed, abandoned>>

\* The path a clean-up removes has one level of directories
cleanupPath(h) == [dir |-> "ab", hash |-> h]

CountReferences(h) == Cardinality(GetByHash(h))

cleanupAttachmentFiles(k, h) ==
    /\ h \in cleaning[k]
    /\ files' = IF CountReferences(h) = 0 THEN files \ {cleanupPath(h)} ELSE files
    /\ cleaning' = [cleaning EXCEPT ![k] = @ \ {h}]
    /\ UNCHANGED <<attRows, attMsgs, uploads, gc, disturbed, abandoned>>

\* The process stops: what was under way is forgotten
AttachmentsCrash ==
    /\ abandoned' = abandoned \union {uploads[u].hash : u \in {v \in Uploaders : uploads[v].pc = "row"}}
    /\ uploads' = [u \in Uploaders |-> NoUpload]
    /\ gc' = NoGC
    /\ cleaning' = [k \in Cleaners |-> {}]
    /\ UNCHANGED <<files, attRows, attMsgs, disturbed>>

AttachmentsNext ==
    \/ \E u \in Uploaders :
          \/ InsertRow(u)
          \/ \E h \in Hashes : \/ RestUpload(u, h)
                               \/ \E m \in AttMessages : callUploadAttachment(u, h, m) \/ AttachToMessage(u, h, m)
    \/ handleAttachmentsGC \/ DeleteOrphanRows \/ AttachmentsCrash
    \/ \E h \in Hashes : DeleteOrphanFile(h)
    \/ \E m \in AttMessages : MessageSent(m) \/ \E k \in Cleaners : deleteBatch(k, m)
    \/ \E k \in Cleaners, h \in Hashes : cleanupAttachmentFiles(k, h)

AttachmentsSpec == AttachmentsInit /\ [][AttachmentsNext]_atVars

-----------------------------------------------------------------------------
(* Views.                                                                  *)

\* The newest row and its file; 404 when either is missing
Download(h) == GetByHash(h) # {} /\ Read(h)
callDownloadAttachment(h) == Download(h)
RestDownload(h) == Download(h)
RestMetadata(h) == Download(h)

-----------------------------------------------------------------------------
\* Rows refer to hashes and messages
AttachmentsTypeOK ==
    /\ files \subseteq [dir : {"ab/cd", "ab"}, hash : Hashes]
    /\ attRows \subseteq [id : 1..MaxAttachments, hash : Hashes, msg : AttMessages \union {NoMessage}]
    /\ \A r, s \in attRows : r.id = s.id => r = s
    /\ gc.orphans \subseteq Hashes

\* Upload, GarbageCollect, cleanupAttachmentFiles: what a live message refers to
\* can be downloaded, unless it was uploaded or linked while a collection that
\* had selected the hash was under way, or had stopped half way
LinkedIsThere ==
    \A r \in attRows : IsLive(r.msg) /\ r.hash \notin disturbed => callDownloadAttachment(r.hash)

\* A row without its file is one that a collection has selected, or that a
\* crash left for the next collection, which takes it
MissingIsCollectable ==
    \A r \in attRows : r.hash \notin disturbed /\ ~Read(r.hash) => r.hash \in FindOrphanHashes

\* deleteBatch: the rows of a message go with it, so retention leaves no orphan
RowsFollowMessages ==
    \A r \in attRows : r.msg # NoMessage => attMsgs[r.msg] = "live"

AttachmentsSafe ==
    /\ AttachmentsTypeOK /\ LinkedIsThere /\ MissingIsCollectable /\ RowsFollowMessages

-----------------------------------------------------------------------------
(* What a document says.                                                   *)

\* specs/004: "The attachment files are removed from the content-addressable
\* store, but only if no other message references the same content hash": after
\* every clean-up is done, a file without a row was abandoned by an upload
FilesRemoved ==
    (\A k \in Cleaners : cleaning[k] = {}) /\ gc = NoGC /\ (\A u \in Uploaders : uploads[u] = NoUpload)
        => \A f \in files : GetByHash(f.hash) # {} \/ f.hash \in abandoned \union disturbed
=============================================================================
