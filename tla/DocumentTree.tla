---------------------------- MODULE DocumentTree ----------------------------
(***************************************************************************)
(* The pages of one workspace as a tree: services/document.py with         *)
(* repositories/document.py and routers/document.py.  Texts are in module  *)
(* DocumentText, imports in NoteImports.                                   *)
(*                                                                         *)
(* Every request is a thread with a transaction of its own (READ           *)
(* COMMITTED).  A move serialises with other moves behind an advisory lock *)
(* and locks its row; deletes, restores and purges read, then write, and   *)
(* take no lock.  Foreign keys refuse a parent that is gone and the        *)
(* removal of a page that still has children.                              *)
(***************************************************************************)
EXTENDS Naturals, FiniteSets

CONSTANTS
  Docs,      \* document ids; each is used once
  Threads,   \* requests that run at the same time
  Top,       \* "no parent"
  Cascades   \* the delete modes in use: TRUE cascade, FALSE lift the children

ASSUME TreeAssumption == Top \notin Docs /\ Cascades \subseteq BOOLEAN

VARIABLES
  page,      \* id -> [at, parent]; "none" before the insert, "purged" after the removal
  thread,    \* what each request has read and is about to do
  lifted     \* history: some delete has moved children up

treeVars == <<page, thread, lifted>>

Places == Docs \cup {Top}
Rest == [op |-> "idle", doc |-> Top, to |-> Top, set |-> {}]

TreeInit ==
  /\ page = [d \in Docs |-> [at |-> "none", parent |-> Top]]
  /\ thread = [t \in Threads |-> Rest]
  /\ lifted = FALSE

Live(d) == page[d].at = "live"
Trashed(d) == page[d].at = "trash"
InTable(d) == page[d].at \in {"live", "trash"}
Refers(p) == p \in Docs => InTable(p)
LiveAt(p) == p \in Docs => Live(p)

Children(d) == {e \in Docs : InTable(e) /\ page[e].parent = d}

\* descendants_of: the least set with the children of d that a member's
\* children belong to; a restore follows pages in the bin only.
Reached(d, within) ==
  {e \in within : \A S \in SUBSET within :
     (\A f \in S \cup {d} : Children(f) \cap within \subseteq S) => e \in S}
Descendants(d) == Reached(d, {e \in Docs : InTable(e)})

Busy(t, op) == thread[t].op = op
Becomes(t, r) == thread' = [thread EXCEPT ![t] = r]
Ends(t) == Becomes(t, Rest)

\* Held until the transaction of a move ends.
TreeUnlocked == TRUE  \* the advisory lock is left out
TreeLockFree == \A t \in Threads : ~Busy(t, "move")
RowFree(d) == \A t \in Threads : ~(Busy(t, "move") /\ thread[t].doc = d)

-----------------------------------------------------------------------------
\* POST /documents: the parent is looked at, the insert follows.
Create(t) ==
  /\ Busy(t, "idle")
  /\ \E p \in Places : LiveAt(p) /\ Becomes(t, [Rest EXCEPT !.op = "create", !.to = p])
  /\ UNCHANGED <<page, lifted>>

Insert(t) ==
  /\ Busy(t, "create") /\ Refers(thread[t].to)
  /\ \E d \in Docs :
       /\ page[d].at = "none"
       /\ page' = [page EXCEPT ![d] = [at |-> "live", parent |-> thread[t].to]]
  /\ Ends(t)
  /\ UNCHANGED lifted

-----------------------------------------------------------------------------
\* update_document with a parent_id whose updated_at is current: the locks are
\* taken, then the ancestors of the target are read one by one.
Move(t) ==
  /\ Busy(t, "idle") /\ TreeLockFree
  /\ \E d \in Docs, p \in Places :
       /\ Live(d) /\ RowFree(d) /\ LiveAt(p)
       /\ Becomes(t, [Rest EXCEPT !.op = "move", !.doc = d, !.to = p,
                                  !.set = IF p = Top THEN {} ELSE {p}])
  /\ UNCHANGED <<page, lifted>>

\* "set" holds the one ancestor to look at next; none is left at the top, or
\* where the row was removed under the walk.
Walk(t) ==
  /\ Busy(t, "move")
  /\ \E a \in thread[t].set :
       LET above == page[a].parent IN
       \/ /\ a = thread[t].doc \/ Trashed(a)
          /\ Ends(t)
       \/ /\ a # thread[t].doc /\ ~Trashed(a)
          /\ thread' = [thread EXCEPT ![t].set =
                          IF Live(a) /\ above # Top THEN {above} ELSE {}]
  /\ UNCHANGED <<page, lifted>>

Moved(t) ==
  /\ Busy(t, "move") /\ thread[t].set = {}
  /\ Refers(thread[t].to)
  /\ page' = [page EXCEPT ![thread[t].doc].parent = thread[t].to]
  /\ Ends(t)
  /\ UNCHANGED lifted

-----------------------------------------------------------------------------
\* delete_document on a live page.  Cascade: the page and its descendants.
\* Otherwise the live children are to take the parent the page has now.
Delete(t) ==
  /\ Busy(t, "idle")
  /\ \E d \in Docs, cascade \in Cascades :
       /\ Live(d)
       /\ Becomes(t, [Rest EXCEPT
            !.op = IF cascade THEN "trash" ELSE "lift", !.doc = d,
            !.to = page[d].parent,
            !.set = IF cascade THEN {d} \cup Descendants(d)
                    ELSE {e \in Children(d) : Live(e)}])
  /\ UNCHANGED <<page, lifted>>

\* clear_workspace_docs marks every live page.
ClearAll(t) ==
  /\ Busy(t, "idle")
  /\ Becomes(t, [Rest EXCEPT !.op = "trash", !.set = {d \in Docs : Live(d)}])
  /\ UNCHANGED <<page, lifted>>

Written(t) == thread[t].set \cup ({thread[t].doc} \ {Top})
Writable(t) == \A d \in Written(t) : InTable(d) /\ RowFree(d)

TrashWrite(t) ==
  /\ Busy(t, "trash") /\ Writable(t)
  /\ page' = [d \in Docs |-> IF d \in Written(t) THEN [page[d] EXCEPT !.at = "trash"]
                             ELSE page[d]]
  /\ Ends(t)
  /\ UNCHANGED lifted

LiftWrite(t) ==
  /\ Busy(t, "lift") /\ Writable(t) /\ Refers(thread[t].to)
  /\ page' = [d \in Docs |->
       IF d = thread[t].doc THEN [page[d] EXCEPT !.at = "trash"]
       ELSE IF d \in thread[t].set THEN [page[d] EXCEPT !.parent = thread[t].to]
       ELSE page[d]]
  /\ lifted' = (lifted \/ thread[t].set # {})
  /\ Ends(t)

\* restore_document: a parent that is gone or in the bin is replaced by the top.
Restore(t) ==
  /\ Busy(t, "idle")
  /\ \E d \in Docs, cascade \in BOOLEAN :
       /\ Trashed(d)
       /\ Becomes(t, [Rest EXCEPT
            !.op = IF LiveAt(page[d].parent) THEN "restore" ELSE "reattach", !.doc = d,
            !.set = IF cascade THEN Reached(d, {e \in Docs : Trashed(e)}) ELSE {}])
  /\ UNCHANGED <<page, lifted>>

RestoreWrite(t) ==
  /\ Busy(t, "restore") \/ Busy(t, "reattach")
  /\ Writable(t)
  /\ page' = [d \in Docs |->
       IF d \notin Written(t) THEN page[d]
       ELSE [at |-> "live",
             parent |-> IF d = thread[t].doc /\ Busy(t, "reattach") THEN Top
                        ELSE page[d].parent]]
  /\ Ends(t)
  /\ UNCHANGED lifted

-----------------------------------------------------------------------------
\* DELETE on a page in the bin, empty_trash, and a workspace deleted by force:
\* the rows found are removed one transaction each, in the order of the table.
Purge(t) ==
  /\ Busy(t, "idle")
  /\ \E doomed \in {{d} : d \in {e \in Docs : Trashed(e)}}
                   \cup {{d \in Docs : Trashed(d)}, {d \in Docs : InTable(d)}} :
       doomed # {} /\ Becomes(t, [Rest EXCEPT !.op = "purge", !.set = doomed])
  /\ UNCHANGED <<page, lifted>>

PurgeOne(t) ==
  /\ Busy(t, "purge")
  /\ \E d \in thread[t].set :
       /\ InTable(d) /\ RowFree(d) /\ Children(d) = {}
       /\ page' = [page EXCEPT ![d] = [at |-> "purged", parent |-> Top]]
       /\ IF thread[t].set = {d} THEN Ends(t)
          ELSE thread' = [thread EXCEPT ![t].set = @ \ {d}]
  /\ UNCHANGED lifted

\* The database refuses (a parent or a row is gone, a child is left) or the
\* process stops: the transaction is rolled back, the rest is not done.
Abort(t) ==
  /\ ~Busy(t, "idle")
  /\ Ends(t)
  /\ UNCHANGED <<page, lifted>>

TreeNext == \E t \in Threads :
  \/ Create(t) \/ Insert(t)
  \/ Move(t) \/ Walk(t) \/ Moved(t)
  \/ Delete(t) \/ ClearAll(t) \/ TrashWrite(t) \/ LiftWrite(t)
  \/ Restore(t) \/ RestoreWrite(t)
  \/ Purge(t) \/ PurgeOne(t) \/ Abort(t)

TreeSpec == TreeInit /\ [][TreeNext]_treeVars

-----------------------------------------------------------------------------
TreeTypeOK ==
  /\ page \in [Docs -> [at : {"none", "live", "trash", "purged"}, parent : Places]]
  /\ thread \in [Threads ->
       [op : {"idle", "create", "move", "trash", "lift", "restore", "reattach", "purge"},
        doc : Places, to : Places, set : SUBSET Docs]]
  /\ lifted \in BOOLEAN

\* No page is its own ancestor: every set of pages has one whose parent is
\* outside of it.  (The walks of update_document and descendants_of end.)
NoCycle == \A S \in (SUBSET Docs) \ {{}} : \E d \in S : page[d].parent \notin S

\* Moves that race, with deletes, restores and purges in between, never hang a
\* page below itself, as long as no delete lifts children.
MovesKeepTree == ~lifted => NoCycle
=============================================================================
