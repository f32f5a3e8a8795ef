----------------------------- MODULE Attachments -----------------------------
(***************************************************************************)
(* The files of one page: routers/attachment.py with _physical_delete of   *)
(* services/document.py, over services/blob_store.py.                      *)
(*                                                                         *)
(* With the shared store the bytes are rows: they come and go in the       *)
(* transaction of the row that names them.  With plain files the disk is   *)
(* written and unlinked before or after a commit, and a process may stop   *)
(* in between.                                                             *)
(***************************************************************************)
EXTENDS Naturals, FiniteSets

CONSTANTS
  Uploaders,  \* requests at the same time
  Files,      \* attachment ids
  Keys,       \* Idempotency-Key values; a client repeats a request with its key
  NoFile

ASSUME FilesAssumption == NoFile \notin Files \cup Keys

VARIABLES
  shared,   \* STELLA_BLOB_STORAGE=postgres
  holder,   \* the page the attachments belong to: "live", "trash", "gone"
  body,     \* attachments the saved text refers to
  rows,     \* attachment rows
  bytes,    \* attachments whose bytes are stored
  receipts, \* key -> the attachment it made, in app_config
  fresh,    \* attachment ids not used yet
  request,  \* what each request holds
  made      \* history: key -> attachments ever made for it

fileVars == <<shared, holder, body, rows, bytes, receipts, fresh, request, made>>

Free == [op |-> "free", set |-> {}, key |-> NoFile, file |-> NoFile]

FilesInit ==
  /\ shared \in BOOLEAN
  /\ holder = "live" /\ body = {}
  /\ rows = {} /\ bytes = {}
  /\ receipts = [k \in Keys |-> NoFile]
  /\ fresh = Files
  /\ request = [u \in Uploaders |-> Free]
  /\ made = [k \in Keys |-> {}]

Doing(u, op) == request[u].op = op
Goes(u, r) == request' = [request EXCEPT ![u] = r]
Leaves(u) == Goes(u, Free)

-----------------------------------------------------------------------------
\* upload reads the page and the bytes; with a key it waits for the key's lock and
\* looks at the receipt.  That is so in the shared store only: with plain files the
\* Idempotency-Key is ignored, and a keyed upload is Upload.
KeyFreeIgnored(k) == TRUE  \* no lock on the key
KeyFree(k) == \A u \in Uploaders : ~(Doing(u, "keyed") /\ request[u].key = k)

Upload(u) ==
  /\ Doing(u, "free") /\ holder = "live"
  /\ Goes(u, [Free EXCEPT !.op = "upload"])
  /\ UNCHANGED <<shared, holder, body, rows, bytes, receipts, fresh, made>>

UploadKeyed(u) ==
  /\ Doing(u, "free") /\ holder = "live" /\ shared
  /\ \E k \in Keys :
       /\ KeyFree(k)
       /\ receipts[k] = NoFile    \* else: the same id again, or 409
       /\ Goes(u, [Free EXCEPT !.op = "keyed", !.key = k])
  /\ UNCHANGED <<shared, holder, body, rows, bytes, receipts, fresh, made>>

\* Row, bytes and receipt commit together.
Stored(u) ==
  /\ Doing(u, "keyed") \/ (Doing(u, "upload") /\ shared)
  /\ holder # "gone"
  /\ \E f \in fresh :
       /\ rows' = rows \cup {f} /\ bytes' = bytes \cup {f}
       /\ fresh' = fresh \ {f}
       /\ IF Doing(u, "keyed")
          THEN /\ receipts' = [receipts EXCEPT ![request[u].key] = f]
               /\ made' = [made EXCEPT ![request[u].key] = @ \cup {f}]
          ELSE UNCHANGED <<receipts, made>>
  /\ Leaves(u)
  /\ UNCHANGED <<shared, holder, body>>

\* Plain files: the row is committed, then the file is written.
RowFirst(u) ==
  /\ Doing(u, "upload") /\ ~shared /\ holder # "gone"
  /\ \E f \in fresh :
       /\ rows' = rows \cup {f}
       /\ fresh' = fresh \ {f}
       /\ Goes(u, [Free EXCEPT !.op = "write", !.file = f])
  /\ UNCHANGED <<shared, holder, body, bytes, receipts, made>>

WriteFile(u) ==
  /\ Doing(u, "write")
  /\ bytes' = bytes \cup {request[u].file}
  /\ Leaves(u)
  /\ UNCHANGED <<shared, holder, body, rows, receipts, fresh, made>>

-----------------------------------------------------------------------------
\* A save commits the text; cleanup_unreferenced then reads the holder's rows,
\* for that text or for the one another save has put in its place.
SaveText(u) ==
  /\ Doing(u, "free") /\ holder = "live"
  /\ \E b \in SUBSET (Files \ fresh) :
       /\ body' = b
       /\ Goes(u, [Free EXCEPT !.op = "clean", !.set = b])
  /\ UNCHANGED <<shared, holder, rows, bytes, receipts, fresh, made>>

Unused(u) ==
  /\ Doing(u, "clean")
  /\ \E b \in {request[u].set, body} :
       Goes(u, [Free EXCEPT !.op = "remove", !.set = rows \ b])
  /\ UNCHANGED <<shared, holder, body, rows, bytes, receipts, fresh, made>>

\* _physical_delete of a page in the bin takes all of its attachments.
PurgePage(u) ==
  /\ Doing(u, "free") /\ holder = "trash"
  /\ Goes(u, [Free EXCEPT !.op = "purge", !.set = rows])
  /\ UNCHANGED <<shared, holder, body, rows, bytes, receipts, fresh, made>>

\* Plain files are unlinked one by one while the transaction is open.
UnlinkFile(u) ==
  /\ Doing(u, "remove") \/ Doing(u, "purge")
  /\ ~shared
  /\ \E f \in request[u].set \cap bytes : bytes' = bytes \ {f}
  /\ UNCHANGED <<shared, holder, body, rows, receipts, fresh, request, made>>

\* The commit; the foreign key refuses to drop a page that has got a new row.
Removed(u) ==
  /\ Doing(u, "remove") \/ Doing(u, "purge")
  /\ shared \/ request[u].set \cap bytes = {}
  /\ Doing(u, "purge") => rows \subseteq request[u].set
  /\ rows' = rows \ request[u].set
  /\ bytes' = bytes \ request[u].set
  /\ IF Doing(u, "purge") THEN holder' = "gone" /\ body' = {}
     ELSE UNCHANGED <<holder, body>>
  /\ Leaves(u)
  /\ UNCHANGED <<shared, receipts, fresh, made>>

\* delete_document and restore_document.
BinHolder ==
  /\ \/ holder = "live" /\ holder' = "trash"
     \/ holder = "trash" /\ holder' = "live"
  /\ UNCHANGED <<shared, body, rows, bytes, receipts, fresh, request, made>>

\* The process stops, the size limit is met, or the database refuses: what is
\* not committed is rolled back, what is on disk stays.
Stops(u) ==
  /\ ~Doing(u, "free")
  /\ Leaves(u)
  /\ UNCHANGED <<shared, holder, body, rows, bytes, receipts, fresh, made>>

FilesNext ==
  \/ \E u \in Uploaders :
       \/ Upload(u) \/ UploadKeyed(u) \/ Stored(u) \/ RowFirst(u) \/ WriteFile(u)
       \/ SaveText(u) \/ Unused(u) \/ PurgePage(u) \/ UnlinkFile(u) \/ Removed(u)
       \/ Stops(u)
  \/ BinHolder

FilesSpec == FilesInit /\ [][FilesNext]_fileVars

-----------------------------------------------------------------------------
FilesTypeOK ==
  /\ shared \in BOOLEAN /\ holder \in {"live", "trash", "gone"}
  /\ body \subseteq Files /\ rows \subseteq Files /\ bytes \subseteq Files
  /\ receipts \in [Keys -> Files \cup {NoFile}]
  /\ fresh \subseteq Files
  /\ request \in [Uploaders ->
       [op : {"free", "upload", "keyed", "write", "clean", "remove", "purge"},
        set : SUBSET Files, key : Keys \cup {NoFile},
        file : Files \cup {NoFile}]]
  /\ made \in [Keys -> SUBSET Files]

\* An upload repeated with its key, at the same time or later, or after the
\* attachment was removed, stores one attachment for that key.  A promise of the
\* shared store: plain files record no key, so `made` stays empty there.
UploadedOnce == \A k \in Keys : Cardinality(made[k]) <= 1
=============================================================================
