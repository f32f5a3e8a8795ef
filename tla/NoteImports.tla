----------------------------- MODULE NoteImports -----------------------------
(***************************************************************************)
(* Requests that make pages and may be repeated by a client that saw no    *)
(* answer: the flat import of routers/document.py (X-Import-Key), the ZIP  *)
(* import of services/notes_zip.py (import_id) and quick records with      *)
(* their inbox (services/notes_tools.py).  Each takes an advisory lock     *)
(* that its transaction holds, and looks for what an earlier one left.     *)
(***************************************************************************)
EXTENDS Naturals, FiniteSets

CONSTANTS
  Notes,     \* page ids; each is used once
  Importers, \* requests at the same time
  ZipSize,   \* pages in the archive
  NoNote

ASSUME ImportsAssumption ==
  /\ NoNote \notin Notes /\ ZipSize \in Nat \ {0}
  /\ Notes \cap {"idle", "flat", "zip", "folder"} = {}

VARIABLES
  note,     \* id -> "none", "live", "trash", "purged"
  flat,     \* pages with the path of the flat import
  receipt,  \* the ZIP import has left its receipt in app_config
  unpacked, \* history: how often the archive was imported
  inbox,    \* the folder app_config names for quick records
  importing \* what each request is in the middle of, or the folder it records in

importVars == <<note, flat, receipt, unpacked, inbox, importing>>

ImportsInit ==
  /\ note = [n \in Notes |-> "none"]
  /\ flat = {} /\ receipt = FALSE /\ unpacked = 0
  /\ inbox = NoNote
  /\ importing = [i \in Importers |-> "idle"]

Present(n) == note[n] \in {"live", "trash"}
Does(i, what) == importing[i] = what
Step(i, what) == importing' = [importing EXCEPT ![i] = what]
Unguarded(what) == TRUE  \* the advisory lock is left out
LockFree(what) == \A i \in Importers : ~Does(i, what)

\* create_one: a page with the path is answered, in the bin or not.
KnownPath == \E n \in flat : Present(n)
BeginFlat(i) ==
  /\ Does(i, "idle") /\ LockFree("flat") /\ ~KnownPath
  /\ Step(i, "flat")
  /\ UNCHANGED <<note, flat, receipt, unpacked, inbox>>

InsertFlat(i) ==
  /\ Does(i, "flat")
  /\ \E n \in Notes : /\ note[n] = "none"
                      /\ note' = [note EXCEPT ![n] = "live"]
                      /\ flat' = flat \cup {n}
  /\ Step(i, "idle")
  /\ UNCHANGED <<receipt, unpacked, inbox>>

\* commit_archive: pages, attachments, links and the receipt commit together.
BeginZip(i) ==
  /\ Does(i, "idle") /\ LockFree("zip") /\ ~receipt
  /\ Step(i, "zip")
  /\ UNCHANGED <<note, flat, receipt, unpacked, inbox>>

CommitZip(i) ==
  /\ Does(i, "zip")
  /\ \E made \in SUBSET {n \in Notes : note[n] = "none"} :
       /\ Cardinality(made) = ZipSize
       /\ note' = [n \in Notes |-> IF n \in made THEN "live" ELSE note[n]]
  /\ receipt' = TRUE /\ unpacked' = unpacked + 1
  /\ Step(i, "idle")
  /\ UNCHANGED <<flat, inbox>>

\* inbox_for_write: the folder that is named, or a new one when it is in the bin
\* or gone; quick_record then inserts the record with another transaction.
FolderReady == inbox \in {n \in Notes : note[n] = "live"}
BeginQuick(i) ==
  /\ Does(i, "idle") /\ LockFree("folder")
  /\ Step(i, IF FolderReady THEN inbox ELSE "folder")
  /\ UNCHANGED <<note, flat, receipt, unpacked, inbox>>

MakeFolder(i) ==
  /\ Does(i, "folder")
  /\ \E n \in Notes : /\ note[n] = "none"
                      /\ note' = [note EXCEPT ![n] = "live"]
                      /\ inbox' = n
                      /\ Step(i, n)
  /\ UNCHANGED <<flat, receipt, unpacked>>

\* The folder's row must still be there, in the bin or not.
InsertRecord(i) ==
  /\ \E folder \in Notes : Does(i, folder) /\ Present(folder)
  /\ \E n \in Notes : note[n] = "none" /\ note' = [note EXCEPT ![n] = "live"]
  /\ Step(i, "idle")
  /\ UNCHANGED <<flat, receipt, unpacked, inbox>>

\* The process stops or the database refuses; the transaction is rolled back.
RollBack(i) ==
  /\ ~Does(i, "idle")
  /\ Step(i, "idle")
  /\ UNCHANGED <<note, flat, receipt, unpacked, inbox>>

\* Deletes, restores and purges, which module DocumentTree has in full.
Discard ==
  /\ \E n \in Notes :
       \/ /\ note[n] = "live"
          /\ note' = [note EXCEPT ![n] = "trash"]
       \/ /\ note[n] = "trash"
          /\ \E to \in {"live", "purged"} : note' = [note EXCEPT ![n] = to]
  /\ UNCHANGED <<flat, receipt, unpacked, inbox, importing>>

ImportsNext ==
  \/ \E i \in Importers :
       \/ BeginFlat(i) \/ InsertFlat(i) \/ BeginZip(i) \/ CommitZip(i)
       \/ BeginQuick(i) \/ MakeFolder(i) \/ InsertRecord(i) \/ RollBack(i)
  \/ Discard

ImportsSpec == ImportsInit /\ [][ImportsNext]_importVars

-----------------------------------------------------------------------------
ImportsTypeOK ==
  /\ note \in [Notes -> {"none", "live", "trash", "purged"}]
  /\ flat \subseteq Notes /\ receipt \in BOOLEAN /\ unpacked \in Nat
  /\ inbox \in Notes \cup {NoNote}
  /\ importing \in [Importers -> {"idle", "flat", "zip", "folder"} \cup Notes]

\* Repeats, also while the first is running or after it was answered, import a
\* file to one page at a time and an archive once.
ImportedOnce == Cardinality({n \in flat : Present(n)}) <= 1 /\ unpacked <= 1
=============================================================================
