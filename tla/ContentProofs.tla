---------------------------- MODULE ContentProofs ----------------------------
(***************************************************************************)
(* Theorems about the notes and their media, for any number of pages,      *)
(* files, requests and processes: the tree of pages, the text of one,      *)
(* imports, attachments, profile pictures, backgrounds and the disk cache. *)
(***************************************************************************)
EXTENDS MCContent, CollectionLemmas

(* The tree of pages.                                                      *)

\* A row that is not in the table has no parent, and the foreign key holds.
RowsSound == \A d \in Docs :
  /\ ~InTable(d) => page[d].parent = Top
  /\ page[d].parent \in Docs => InTable(page[d].parent)

\* A move has its row locked and the tree lock to itself; it looks at one page.
MoversSound == \A t \in Threads : Busy(t, "move") =>
  /\ thread[t].doc \in Docs /\ InTable(thread[t].doc)
  /\ thread[t].to \in Docs => page[thread[t].to].at # "none"
  /\ \E b \in Docs : thread[t].set \subseteq {b}
  /\ \A u \in Threads : Busy(u, "move") => u = t

\* A set of pages that would be a loop, or run into one, once the move of t is
\* written: it has the target and, but for the moved page, all parents.
Walled(t, S) ==
  thread[t].to \in S /\ \A x \in S \ {thread[t].doc} : page[x].parent \in S

\* The walk of a move has not yet passed any such set.
WalkSound == ~lifted =>
  \A t \in Threads : Busy(t, "move") =>
    \A S \in SUBSET Docs : Walled(t, S) => \E a \in thread[t].set : a \in S

TreeInv == TreeTypeOK /\ RowsSound /\ MoversSound /\ WalkSound /\ MovesKeepTree

\* Requests that only read, or end without writing.
Reads(t) == Create(t) \/ Move(t) \/ Walk(t) \/ Delete(t) \/ ClearAll(t)
            \/ Restore(t) \/ Purge(t) \/ Abort(t)

LEMMA TreeStarts == TreeInit => TreeInv
  <1> SUFFICES ASSUME TreeInit PROVE TreeInv
    OBVIOUS
  <1> USE TreeAssumption DEF TreeInit
  <1>1. TreeTypeOK
    BY DEF TreeTypeOK, Rest, Places
  <1>2. RowsSound /\ MoversSound /\ WalkSound
    BY DEF RowsSound, MoversSound, WalkSound, Rest, Busy, InTable
  <1>3. MovesKeepTree
    BY DEF MovesKeepTree, NoCycle
  <1> QED BY <1>1, <1>2, <1>3 DEF TreeInv

LEMMA TypeKept ==
  ASSUME TreeInv, TreeNext
  PROVE  TreeTypeOK'
  <1> USE TreeAssumption DEF TreeInv, TreeTypeOK, Places, Becomes, Ends, Busy, Rest
  <1> DEFINE Wants == [op : {"idle", "create", "move", "trash", "lift", "restore", "reattach", "purge"},
                       doc : Places, to : Places, set : SUBSET Docs]
  <1>1. ASSUME NEW t \in Threads, NEW r \in Wants, UNCHANGED <<page, lifted>>, Becomes(t, r)
        PROVE  TreeTypeOK'
    BY <1>1
  <1> HIDE DEF TreeTypeOK, Becomes
  <1> PICK t \in Threads : \/ Reads(t) \/ Insert(t) \/ Moved(t) \/ TrashWrite(t)
                           \/ LiftWrite(t) \/ RestoreWrite(t) \/ PurgeOne(t)
    BY DEF TreeNext, Reads
  <1>2. CASE Create(t)
    <2> PICK p \in Places : Becomes(t, [Rest EXCEPT !.op = "create", !.to = p])
      BY <1>2 DEF Create
    <2>1. [Rest EXCEPT !.op = "create", !.to = p] \in Wants
      OBVIOUS
    <2> QED BY <1>1, <1>2, <2>1 DEF Create
  <1>3. CASE Move(t)
    <2> PICK d \in Docs, p \in Places :
          Becomes(t, [Rest EXCEPT !.op = "move", !.doc = d, !.to = p,
                                  !.set = IF p = Top THEN {} ELSE {p}])
      BY <1>3 DEF Move
    <2>1. [Rest EXCEPT !.op = "move", !.doc = d, !.to = p,
                       !.set = IF p = Top THEN {} ELSE {p}] \in Wants
      OBVIOUS
    <2> QED BY <1>1, <1>3, <2>1 DEF Move
  <1>4. CASE Walk(t)
    BY <1>4 DEF Walk, TreeTypeOK, Becomes
  <1>5. CASE Delete(t)
    <2> PICK d \in Docs, cascade \in Cascades :
          Becomes(t, [Rest EXCEPT
            !.op = IF cascade THEN "trash" ELSE "lift", !.doc = d, !.to = page[d].parent,
            !.set = IF cascade THEN {d} \cup Descendants(d) ELSE {e \in Children(d) : Live(e)}])
      BY <1>5 DEF Delete
    <2>1. page[d].parent \in Places
      BY DEF TreeTypeOK
    <2>2. Descendants(d) \subseteq Docs /\ Children(d) \subseteq Docs
      BY DEF Descendants, Reached, Children
    <2>3. (IF cascade THEN {d} \cup Descendants(d) ELSE {e \in Children(d) : Live(e)}) \in SUBSET Docs
      BY <2>2
    <2>4. [Rest EXCEPT
            !.op = IF cascade THEN "trash" ELSE "lift", !.doc = d, !.to = page[d].parent,
            !.set = IF cascade THEN {d} \cup Descendants(d) ELSE {e \in Children(d) : Live(e)}] \in Wants
      BY <2>1, <2>3
    <2> QED BY <1>1, <1>5, <2>4 DEF Delete
  <1>6. CASE ClearAll(t)
    BY <1>6 DEF ClearAll, TreeTypeOK, Becomes
  <1>7. CASE Restore(t)
    <2> PICK d \in Docs, cascade \in BOOLEAN :
          Becomes(t, [Rest EXCEPT
            !.op = IF LiveAt(page[d].parent) THEN "restore" ELSE "reattach", !.doc = d,
            !.set = IF cascade THEN Reached(d, {e \in Docs : Trashed(e)}) ELSE {}])
      BY <1>7 DEF Restore
    <2>1. (IF cascade THEN Reached(d, {e \in Docs : Trashed(e)}) ELSE {}) \in SUBSET Docs
      BY DEF Reached
    <2>2. [Rest EXCEPT
            !.op = IF LiveAt(page[d].parent) THEN "restore" ELSE "reattach", !.doc = d,
            !.set = IF cascade THEN Reached(d, {e \in Docs : Trashed(e)}) ELSE {}] \in Wants
      BY <2>1
    <2> QED BY <1>1, <1>7, <2>2 DEF Restore
  <1>8. CASE Purge(t)
    <2> PICK doomed \in SUBSET Docs : Becomes(t, [Rest EXCEPT !.op = "purge", !.set = doomed])
      BY <1>8 DEF Purge
    <2>1. [Rest EXCEPT !.op = "purge", !.set = doomed] \in Wants
      OBVIOUS
    <2> QED BY <1>1, <1>8, <2>1 DEF Purge
  <1>9. CASE Abort(t)
    BY <1>9 DEF Abort, TreeTypeOK, Becomes
  <1> USE DEF TreeTypeOK, Becomes
  <1>10. CASE Insert(t)
    BY <1>10 DEF Insert
  <1>11. CASE Moved(t)
    BY <1>11 DEF Moved
  <1>12. CASE TrashWrite(t)
    BY <1>12 DEF TrashWrite
  <1>13. CASE LiftWrite(t)
    BY <1>13 DEF LiftWrite
  <1>14. CASE RestoreWrite(t)
    BY <1>14 DEF RestoreWrite
  <1>15. CASE PurgeOne(t)
    BY <1>15 DEF PurgeOne
  <1> QED BY <1>2, <1>3, <1>4, <1>5, <1>6, <1>7, <1>8, <1>9, <1>10, <1>11, <1>12,
             <1>13, <1>14, <1>15 DEF Reads

\* Requests that write pages, and after which the movers are those from before.
Writes(t) == Insert(t) \/ Moved(t) \/ TrashWrite(t) \/ LiftWrite(t) \/ RestoreWrite(t) \/ PurgeOne(t)

LEMMA MoversStay ==
  ASSUME TreeInv, NEW t \in Threads, Writes(t)
  PROVE  \A u \in Threads : Busy(u, "move")' => u # t /\ Busy(u, "move") /\ thread'[u] = thread[u]
  <1> USE DEF TreeInv, TreeTypeOK, Busy, Ends, Becomes, Rest
  <1>1. CASE Insert(t)
    BY <1>1 DEF Insert
  <1>2. CASE Moved(t)
    BY <1>2 DEF Moved
  <1>3. CASE TrashWrite(t)
    BY <1>3 DEF TrashWrite
  <1>4. CASE LiftWrite(t)
    BY <1>4 DEF LiftWrite
  <1>5. CASE RestoreWrite(t)
    BY <1>5 DEF RestoreWrite
  <1>6. CASE PurgeOne(t)
    BY <1>6 DEF PurgeOne
  <1> QED BY <1>1, <1>2, <1>3, <1>4, <1>5, <1>6 DEF Writes

LEMMA ReadsLeavePages ==
  ASSUME NEW t \in Threads, Reads(t)
  PROVE  UNCHANGED <<page, lifted>>
  BY DEF Reads, Create, Move, Walk, Delete, ClearAll, Restore, Purge, Abort

LEMMA RowsKept ==
  ASSUME TreeInv, NEW t \in Threads, Reads(t) \/ Writes(t)
  PROVE  RowsSound'
  <1> USE TreeAssumption DEF TreeInv, TreeTypeOK, RowsSound, MoversSound, InTable, Places
  <1>1. CASE Reads(t)
    BY <1>1, ReadsLeavePages
  <1>2. CASE Insert(t)
    BY <1>2 DEF Insert, Refers
  <1>3. CASE Moved(t)
    BY <1>3 DEF Moved, Refers
  <1>4. CASE TrashWrite(t)
    BY <1>4 DEF TrashWrite, Writable
  <1>5. CASE LiftWrite(t)
    BY <1>5 DEF LiftWrite, Writable, Written, Refers
  <1>6. CASE RestoreWrite(t)
    BY <1>6 DEF RestoreWrite, Writable
  <1>7. CASE PurgeOne(t)
    BY <1>7 DEF PurgeOne, Children
  <1> QED BY <1>1, <1>2, <1>3, <1>4, <1>5, <1>6, <1>7 DEF Writes

LEMMA PagesStayKnown ==
  ASSUME TreeInv, NEW t \in Threads, Writes(t)
  PROVE  \A d \in Docs : /\ page[d].at # "none" => page'[d].at # "none"
                         /\ InTable(d) /\ ~RowFree(d) => InTable(d)'
  <1> USE DEF TreeInv, TreeTypeOK, InTable
  <1>1. CASE Insert(t)
    BY <1>1 DEF Insert
  <1>2. CASE Moved(t)
    BY <1>2 DEF Moved
  <1>3. CASE TrashWrite(t)
    BY <1>3 DEF TrashWrite
  <1>4. CASE LiftWrite(t)
    BY <1>4 DEF LiftWrite
  <1>5. CASE RestoreWrite(t)
    BY <1>5 DEF RestoreWrite
  <1>6. CASE PurgeOne(t)
    BY <1>6 DEF PurgeOne
  <1> QED BY <1>1, <1>2, <1>3, <1>4, <1>5, <1>6 DEF Writes

LEMMA OthersDoNotMove ==
  ASSUME TreeInv, NEW t \in Threads,
         Create(t) \/ Delete(t) \/ ClearAll(t) \/ Restore(t) \/ Purge(t) \/ Abort(t)
  PROVE  \A u \in Threads : Busy(u, "move")' => Busy(u, "move") /\ thread'[u] = thread[u]
  <1>1. ASSUME NEW r, Becomes(t, r), r.op # "move"
        PROVE  \A u \in Threads : Busy(u, "move")' => Busy(u, "move") /\ thread'[u] = thread[u]
    BY <1>1 DEF Becomes, Busy, TreeInv, TreeTypeOK
  <1>2. CASE Create(t)
    <2> PICK p \in Places : Becomes(t, [Rest EXCEPT !.op = "create", !.to = p])
      BY <1>2 DEF Create
    <2>1. [Rest EXCEPT !.op = "create", !.to = p].op # "move"
      BY DEF Rest
    <2> QED BY <1>1, <2>1
  <1>3. CASE Delete(t)
    <2> PICK d \in Docs, cascade \in Cascades :
          Becomes(t, [Rest EXCEPT
            !.op = IF cascade THEN "trash" ELSE "lift", !.doc = d, !.to = page[d].parent,
            !.set = IF cascade THEN {d} \cup Descendants(d) ELSE {e \in Children(d) : Live(e)}])
      BY <1>3 DEF Delete
    <2>1. [Rest EXCEPT
            !.op = IF cascade THEN "trash" ELSE "lift", !.doc = d, !.to = page[d].parent,
            !.set = IF cascade THEN {d} \cup Descendants(d) ELSE {e \in Children(d) : Live(e)}].op # "move"
      BY DEF Rest
    <2> QED BY <1>1, <2>1
  <1>4. CASE ClearAll(t)
    <2>1. [Rest EXCEPT !.op = "trash", !.set = {d \in Docs : Live(d)}].op # "move"
      BY DEF Rest
    <2> QED BY <1>1, <1>4, <2>1 DEF ClearAll
  <1>5. CASE Restore(t)
    <2> PICK d \in Docs, cascade \in BOOLEAN :
          Becomes(t, [Rest EXCEPT
            !.op = IF LiveAt(page[d].parent) THEN "restore" ELSE "reattach", !.doc = d,
            !.set = IF cascade THEN Reached(d, {e \in Docs : Trashed(e)}) ELSE {}])
      BY <1>5 DEF Restore
    <2>1. [Rest EXCEPT
            !.op = IF LiveAt(page[d].parent) THEN "restore" ELSE "reattach", !.doc = d,
            !.set = IF cascade THEN Reached(d, {e \in Docs : Trashed(e)}) ELSE {}].op # "move"
      BY DEF Rest
    <2> QED BY <1>1, <2>1
  <1>6. CASE Purge(t)
    <2> PICK doomed : Becomes(t, [Rest EXCEPT !.op = "purge", !.set = doomed])
      BY <1>6 DEF Purge
    <2>1. [Rest EXCEPT !.op = "purge", !.set = doomed].op # "move"
      BY DEF Rest
    <2> QED BY <1>1, <2>1
  <1>7. CASE Abort(t)
    BY <1>1, <1>7 DEF Abort, Ends, Rest
  <1> QED BY <1>2, <1>3, <1>4, <1>5, <1>6, <1>7

LEMMA MoversKept ==
  ASSUME TreeInv, NEW t \in Threads, Reads(t) \/ Writes(t)
  PROVE  MoversSound'
  <1> USE DEF TreeInv, MoversSound
  <1>1. CASE Writes(t)
    BY <1>1, MoversStay, PagesStayKnown DEF RowFree, TreeTypeOK
  <1>2. CASE Move(t)
    BY <1>2, TreeAssumption DEF Move, Becomes, Busy, Rest, Live, LiveAt, InTable, TreeLockFree, TreeTypeOK, Places
  <1>3. CASE Walk(t)
    BY <1>3 DEF Walk, Becomes, Ends, Busy, Rest, InTable, TreeTypeOK, Places
  <1>4. CASE Create(t) \/ Delete(t) \/ ClearAll(t) \/ Restore(t) \/ Purge(t) \/ Abort(t)
    <2>1. \A u \in Threads : Busy(u, "move")' => Busy(u, "move") /\ thread'[u] = thread[u]
      BY <1>4, OthersDoNotMove
    <2> QED BY <1>4, <2>1, ReadsLeavePages DEF Reads, InTable
  <1> QED BY <1>1, <1>2, <1>3, <1>4 DEF Reads

LEMMA WalksKept ==
  ASSUME TreeInv, NEW t \in Threads, Reads(t) \/ Writes(t), ~lifted'
  PROVE  WalkSound'
  <1> USE TreeAssumption DEF TreeInv
  <1> SUFFICES ASSUME NEW u \in Threads, Busy(u, "move")', NEW S \in SUBSET Docs, Walled(u, S)'
               PROVE  \E a \in thread'[u].set : a \in S
    BY DEF WalkSound
  <1>lifted. ~lifted
    BY ReadsLeavePages DEF Writes, Insert, Moved, TrashWrite, LiftWrite, RestoreWrite, PurgeOne, TreeTypeOK
  \* A set that was walled off before, and is no larger, still meets the walk.
  <1>1. ASSUME Busy(u, "move"), thread'[u] = thread[u], NEW T \in SUBSET S, Walled(u, T)
        PROVE  \E a \in thread'[u].set : a \in S
    BY <1>1, <1>lifted DEF WalkSound
  <1>2. CASE Create(t) \/ Delete(t) \/ ClearAll(t) \/ Restore(t) \/ Purge(t) \/ Abort(t)
    BY <1>1, <1>2, OthersDoNotMove, ReadsLeavePages DEF Walled, Reads
  <1>3. CASE Move(t)
    <2>1. CASE u = t
      BY <1>3, <2>1 DEF Move, Walled, Becomes, Rest, TreeTypeOK
    <2>2. CASE u # t
      BY <1>1, <1>3, <2>2 DEF Move, Walled, Becomes, Busy, TreeTypeOK
    <2> QED BY <2>1, <2>2
  <1>4. CASE Walk(t)
    <2>1. CASE u = t
      <3>1. PICK a \in thread[t].set :
              /\ a # thread[t].doc /\ ~Trashed(a)
              /\ thread' = [thread EXCEPT ![t].set =
                              IF Live(a) /\ page[a].parent # Top THEN {page[a].parent} ELSE {}]
        BY <1>4, <2>1 DEF Walk, Ends, Becomes, Busy, Rest, TreeTypeOK
      <3>2. Walled(t, S) /\ Busy(t, "move")
        BY <1>4, <2>1, <3>1 DEF Walk, Walled, TreeTypeOK
      <3>3. a \in S /\ a \in Docs
        BY <1>lifted, <3>2 DEF WalkSound, MoversSound
      <3>4. page[a].parent \in S
        BY <3>1, <3>2, <3>3 DEF Walled
      <3>5. Live(a) /\ page[a].parent # Top
        BY <3>1, <3>3, <3>4 DEF RowsSound, InTable, Live, Trashed
      <3> QED BY <2>1, <3>1, <3>4, <3>5 DEF TreeTypeOK
    <2>2. CASE u # t
      BY <1>1, <1>4, <2>2 DEF Walk, Walled, Ends, Becomes, Busy, TreeTypeOK
    <2> QED BY <2>1, <2>2
  <1>5. CASE Writes(t)
    <2> Busy(u, "move") /\ thread'[u] = thread[u] /\ u # t
      BY <1>5, MoversStay
    <2> DEFINE to == thread[u].to  doc == thread[u].doc
    <2>w. to \in S /\ \A x \in S \ {doc} : page'[x].parent \in S
      BY DEF Walled
    <2>m. doc \in Docs /\ InTable(doc) /\ page[to].at # "none"
      BY <2>w DEF MoversSound
    <2>n. \A d \in Docs : RowFree(d) => d # doc
      BY DEF RowFree
    <2>1. CASE Insert(t)
      <3>1. PICK e \in Docs : /\ page[e].at = "none"
                              /\ page' = [page EXCEPT ![e] = [at |-> "live", parent |-> thread[t].to]]
        BY <2>1 DEF Insert
      <3>2. e # to /\ \A x \in Docs : page[x].parent # e
        BY <2>m, <3>1 DEF RowsSound, InTable
      <3>3. Walled(u, S \ {e})
        BY <2>w, <3>1, <3>2 DEF Walled, TreeTypeOK
      <3> QED BY <1>1, <3>3
    <2>2. CASE Moved(t)
      BY <2>2 DEF Moved, MoversSound
    <2>3. CASE TrashWrite(t)
      <3>1. \A x \in Docs : page'[x].parent = page[x].parent
        BY <2>3 DEF TrashWrite, TreeTypeOK
      <3> QED BY <1>1, <2>w, <3>1 DEF Walled
    <2>4. CASE LiftWrite(t)
      <3>1. thread[t].set = {}
        BY <2>4 DEF LiftWrite
      <3>2. \A x \in Docs : page'[x].parent = page[x].parent
        BY <2>4, <3>1 DEF LiftWrite, TreeTypeOK
      <3> QED BY <1>1, <2>w, <3>2 DEF Walled
    <2>5. CASE RestoreWrite(t)
      <3>1. \A x \in Docs : page'[x].parent \in {page[x].parent, Top}
        BY <2>5 DEF RestoreWrite
      <3> QED BY <1>1, <2>w, <3>1 DEF Walled
    <2>6. CASE PurgeOne(t)
      <3>1. \A x \in Docs : page'[x].parent \in {page[x].parent, Top}
        BY <2>6 DEF PurgeOne, TreeTypeOK
      <3> QED BY <1>1, <2>w, <3>1 DEF Walled
    <2> QED BY <1>5, <2>1, <2>2, <2>3, <2>4, <2>5, <2>6 DEF Writes
  <1> QED BY <1>2, <1>3, <1>4, <1>5 DEF Reads

LEMMA TreeKept ==
  ASSUME TreeInv, NEW t \in Threads, Reads(t) \/ Writes(t)
  PROVE  MovesKeepTree'
  <1> USE TreeAssumption DEF TreeInv
  <1> SUFFICES ASSUME ~lifted', NEW S \in SUBSET Docs, S # {}
               PROVE  \E d \in S : page'[d].parent \notin S
    BY DEF MovesKeepTree, NoCycle
  <1>lifted. ~lifted
    BY ReadsLeavePages DEF Writes, Insert, Moved, TrashWrite, LiftWrite, RestoreWrite, PurgeOne, TreeTypeOK
  <1>0. \A T \in SUBSET S : T # {} => \E d \in T : page[d].parent \notin T
    BY <1>lifted DEF MovesKeepTree, NoCycle
  <1>1. ASSUME \A x \in Docs : page'[x].parent \in {page[x].parent, Top}
        PROVE  \E d \in S : page'[d].parent \notin S
    BY <1>0, <1>1
  <1>2. CASE Reads(t)
    BY <1>1, <1>2, ReadsLeavePages
  <1>3. CASE Insert(t)
    <2>1. PICK e \in Docs : /\ page[e].at = "none" /\ Refers(thread[t].to)
                            /\ page' = [page EXCEPT ![e] = [at |-> "live", parent |-> thread[t].to]]
      BY <1>3 DEF Insert
    <2>2. e # thread[t].to /\ \A x \in Docs : page[x].parent # e
      BY <2>1 DEF RowsSound, InTable, Refers
    <2>3. CASE S = {e}
      BY <2>1, <2>2, <2>3 DEF TreeTypeOK
    <2>4. CASE S # {e}
      <3>0. S \ {e} # {} /\ S \ {e} \in SUBSET S
        BY <2>4
      <3>1. PICK d \in S \ {e} : page[d].parent \notin S \ {e}
        BY <1>0, <3>0
      <3> QED BY <2>1, <2>2, <3>1 DEF TreeTypeOK
    <2> QED BY <2>3, <2>4
  <1>4. CASE Moved(t)
    <2>1. /\ thread[t].doc \in Docs /\ Busy(t, "move") /\ thread[t].set = {}
          /\ page' = [page EXCEPT ![thread[t].doc].parent = thread[t].to]
      BY <1>4 DEF Moved, MoversSound
    <2>2. ~Walled(t, S)
      BY <1>lifted, <2>1 DEF WalkSound
    <2>3. CASE thread[t].doc \in S /\ thread[t].to \notin S
      BY <2>1, <2>3 DEF TreeTypeOK
    <2>4. CASE thread[t].doc \in S /\ thread[t].to \in S
      BY <2>1, <2>2, <2>4 DEF Walled, TreeTypeOK
    <2>5. CASE thread[t].doc \notin S
      BY <1>0, <2>1, <2>5 DEF TreeTypeOK
    <2> QED BY <2>3, <2>4, <2>5
  <1>5. CASE TrashWrite(t)
    <2>1. \A x \in Docs : page'[x].parent = page[x].parent
      BY <1>5 DEF TrashWrite, TreeTypeOK
    <2> QED BY <1>1, <2>1
  <1>6. CASE LiftWrite(t)
    <2>1. thread[t].set = {}
      BY <1>6 DEF LiftWrite
    <2>2. \A x \in Docs : page'[x].parent = page[x].parent
      BY <1>6, <2>1 DEF LiftWrite, TreeTypeOK
    <2> QED BY <1>1, <2>2
  <1>7. CASE RestoreWrite(t)
    BY <1>1, <1>7 DEF RestoreWrite
  <1>8. CASE PurgeOne(t)
    <2>1. \A x \in Docs : page'[x].parent \in {page[x].parent, Top}
      BY <1>8 DEF PurgeOne, TreeTypeOK
    <2> QED BY <1>1, <2>1
  <1> QED BY <1>2, <1>3, <1>4, <1>5, <1>6, <1>7, <1>8 DEF Writes

LEMMA InvariantKept == TreeInv /\ [TreeNext]_treeVars => TreeInv'
  <1> SUFFICES ASSUME TreeInv, [TreeNext]_treeVars PROVE TreeInv'
    OBVIOUS
  <1>1. CASE TreeNext
    <2>1. PICK t \in Threads : Reads(t) \/ Writes(t)
      BY <1>1 DEF TreeNext, Reads, Writes
    <2>2. WalkSound'
      BY <2>1, WalksKept DEF WalkSound
    <2> QED BY <1>1, <2>1, <2>2, TypeKept, RowsKept, MoversKept, TreeKept DEF TreeInv
  <1>2. CASE UNCHANGED treeVars
    BY <1>2 DEF treeVars, TreeInv, TreeTypeOK, RowsSound, MoversSound, WalkSound, MovesKeepTree,
                NoCycle, Walled, InTable, Busy
  <1> QED BY <1>1, <1>2

\* Whatever requests overlap, a page is in one of its four states, under a page or
\* the top, and a request holds ids of pages.
THEOREM TreeTypeCorrect == TreeSpec => []TreeTypeOK
  <1>1. TreeInv => TreeTypeOK
    BY DEF TreeInv
  <1> QED BY <1>1, TreeStarts, InvariantKept, PTL DEF TreeSpec

\* For any number of pages and requests: the locks of a move and its walk over the
\* ancestors keep the pages a forest, as long as no delete lifts children.
THEOREM MovesSafe == TreeSpec => []MovesKeepTree
  <1>1. TreeInv => MovesKeepTree
    BY DEF TreeInv
  <1> QED BY <1>1, TreeStarts, InvariantKept, PTL DEF TreeSpec

-----------------------------------------------------------------------------
(* The text of a page.                                                     *)

\* A device whose base is the current one has the current text.
BaseTells == \A e \in Editors : At(e, "open") =>
  editor[e].base <= stamp /\ (Current(e) => editor[e].seen = text)

TextInv == TextTypeOK /\ BaseTells

Devices == [at : {"away", "open", "synced", "unlink", "link"}, seen : Texts,
            base : 0 .. MaxSaves, todo : Texts, names : Texts]
Checkpoints == {q \in Seq(Texts) : Len(q) <= MaxVersions}

LEMMA TextTyped ==
  /\ TextTypeOK <=> /\ text \in Texts /\ stamp \in 0 .. MaxSaves
                    /\ drafted \in BOOLEAN /\ binned \in BOOLEAN
                    /\ versions \in Checkpoints /\ links \subseteq Pages /\ listed \subseteq Pages
                    /\ editor \in [Editors -> Devices]
  /\ TextTypeOK' <=> /\ text' \in Texts /\ stamp' \in 0 .. MaxSaves
                     /\ drafted' \in BOOLEAN /\ binned' \in BOOLEAN
                     /\ versions' \in Checkpoints /\ links' \subseteq Pages /\ listed' \subseteq Pages
                     /\ editor' \in [Editors -> Devices]
  BY BoundedSequences, TextAssumption DEF TextTypeOK, Devices, Checkpoints

LEMMA TextStarts == TextInit => TextInv
  <1> SUFFICES ASSUME TextInit PROVE TextInv
    OBVIOUS
  <1>1. Away \in Devices /\ <<>> \in Checkpoints
    BY TextAssumption DEF Away, Devices, Texts, Checkpoints
  <1>2. TextTypeOK
    <2>1. editor \in [Editors -> Devices] /\ versions \in Checkpoints
      BY <1>1 DEF TextInit
    <2>2. stamp \in 0 .. MaxSaves /\ text \in Texts /\ links \subseteq Pages /\ listed \subseteq Pages
      BY TextAssumption DEF TextInit, Texts
    <2>3. drafted \in BOOLEAN /\ binned \in BOOLEAN
      BY DEF TextInit
    <2> QED BY <2>1, <2>2, <2>3, TextTyped
  <1> QED BY <1>2 DEF TextInit, TextInv, BaseTells, At, Away

\* A checkpoint on saving makes versions of texts; when it is forced and the text
\* changes, the text before and the one after are both among them.
LEMMA CheckpointKeeps ==
  ASSUME versions \in Seq(Texts), text \in Texts, NEW new \in Texts,
         NEW force \in BOOLEAN, NEW worth \in BOOLEAN
  PROVE  /\ Checkpointed(new, force, worth) \in Seq(Texts)
         /\ force /\ new # text => {text, new} \subseteq ToSet(Checkpointed(new, force, worth))
  <1> DEFINE base == Base(force)
  <1>1. Append(versions, text) \in Seq(Texts) /\ text \in ToSet(Append(versions, text))
    BY Appended
  <1>2. base \in Seq(Texts)
    BY <1>1 DEF Base
  <1>3. \A q \in Seq(Texts) : q # <<>> => Last(q) \in ToSet(q)
    BY DEF Last, ToSet
  <1>4. /\ Append(versions, text) # <<>>
        /\ Last(Append(versions, text)) = text
    BY DEF Last
  <1>5. force => base # <<>> /\ Last(base) = text /\ text \in ToSet(base)
    <2> SUFFICES ASSUME force PROVE base # <<>> /\ Last(base) = text /\ text \in ToSet(base)
      OBVIOUS
    <2>1. CASE Differs(versions, text)
      BY <2>1, <1>1, <1>4 DEF Base
    <2>2. CASE ~Differs(versions, text)
      BY <2>2, <1>3 DEF Base, Differs
    <2> QED BY <2>1, <2>2
  <1>6. Append(base, new) \in Seq(Texts) /\ ToSet(Append(base, new)) = ToSet(base) \cup {new}
    BY <1>2, Appended
  <1>7. Checkpointed(new, force, worth) \in {versions, base, Append(base, new)}
    BY DEF Checkpointed
  <1>8. force /\ new # text => Checkpointed(new, force, worth) = Append(base, new)
    BY <1>5 DEF Checkpointed, Differs
  <1> HIDE DEF base
  <1> QED BY <1>2, <1>5, <1>6, <1>7, <1>8

\* A save or the way back to a version, by a device that has read the text.
LEMMA StoreKeeps ==
  ASSUME TextInv, NEW e \in Editors, NEW new \in Texts, NEW force \in BOOLEAN,
         At(e, "open"), Store(e, new, force)
  PROVE  /\ TextInv'
         /\ editor[e].seen = text /\ editor'[e] # editor[e]
         /\ force /\ text' # text => {text, text'} \subseteq ToSet(versions')
  <1>1. /\ text \in Texts /\ stamp \in 0 .. MaxSaves /\ versions \in Seq(Texts)
        /\ editor \in [Editors -> Devices]
    BY TextTyped DEF TextInv, Checkpoints
  <1>2. /\ text' = new /\ stamp' = stamp + 1 /\ stamp < MaxSaves /\ drafted' = FALSE
        /\ editor' = [editor EXCEPT ![e] = [editor[e] EXCEPT !.at = "synced", !.names = new]]
        /\ UNCHANGED <<binned, links, listed>> /\ Len(versions') <= MaxVersions
        /\ Current(e)
    BY DEF Store, Turns
  <1>3. PICK worth \in BOOLEAN : versions' = Checkpointed(new, force, worth)
    BY DEF Store
  <1>4. versions' \in Seq(Texts) /\ (force /\ text' # text => {text, text'} \subseteq ToSet(versions'))
    BY <1>1, <1>2, <1>3, CheckpointKeeps
  <1>5. [editor[e] EXCEPT !.at = "synced", !.names = new] \in Devices
    BY <1>1 DEF Devices
  <1>6. TextTypeOK'
    <2>1. editor' \in [Editors -> Devices] /\ versions' \in Checkpoints
      BY <1>1, <1>2, <1>4, <1>5 DEF Checkpoints
    <2>2. stamp' \in 0 .. MaxSaves /\ text' \in Texts
      BY <1>1, <1>2, TextAssumption
    <2>3. /\ drafted' \in BOOLEAN /\ binned' \in BOOLEAN
          /\ links' \subseteq Pages /\ listed' \subseteq Pages
      BY <1>2, TextTyped DEF TextInv
    <2> QED BY <2>1, <2>2, <2>3, TextTyped
  <1>7. editor[e].seen = text /\ editor'[e] # editor[e]
    BY <1>1, <1>2 DEF TextInv, BaseTells, At, Devices
  <1>8. BaseTells'
    <2> SUFFICES ASSUME NEW f \in Editors, At(f, "open")'
                 PROVE  (editor[f].base <= stamp /\ (Current(f) => editor[f].seen = text))'
      BY DEF BaseTells
    <2>1. f # e /\ editor'[f] = editor[f]
      BY <1>1, <1>2 DEF At, Devices
    <2>2. editor[f].base <= stamp /\ editor[f].base \in Nat
      BY <1>1, <2>1, TextAssumption DEF At, TextInv, BaseTells, Devices
    <2> QED BY <1>1, <1>2, <2>1, <2>2, TextAssumption DEF Current
  <1> QED BY <1>4, <1>6, <1>7, <1>8 DEF TextInv

\* Everything else a device does leaves the text, and opens it as it is.
OtherStep(e) ==
  \/ Open(e) \/ SaveDraft(e) \/ Refused(e) \/ MovePage(e) \/ Checkpoint(e)
  \/ ReadLinks(e) \/ Unlink(e) \/ Resolve(e) \/ Link(e) \/ Done(e) \/ Fails(e)
  \/ EditLink(e) \/ FinalizeImport(e)

LEMMA OtherTyped ==
  ASSUME TextTypeOK, NEW e \in Editors, OtherStep(e)
  PROVE  TextTypeOK'
  <1>1. /\ text \in Texts /\ stamp \in 0 .. MaxSaves
        /\ drafted \in BOOLEAN /\ binned \in BOOLEAN
        /\ versions \in Checkpoints /\ links \subseteq Pages /\ listed \subseteq Pages
        /\ editor \in [Editors -> Devices]
    BY TextTyped
  <1>2. \A r \in Devices : Turns(e, r) => editor' \in [Editors -> Devices]
    BY <1>1 DEF Turns
  <1>3. /\ Away \in Devices
        /\ [Away EXCEPT !.at = "open", !.seen = text, !.base = stamp] \in Devices
        /\ [Away EXCEPT !.at = "synced", !.names = text] \in Devices
    <2>1. {} \in Texts /\ 0 \in 0 .. MaxSaves
      BY TextAssumption DEF Texts
    <2> QED BY <1>1, <2>1 DEF Away, Devices
  <1>4. \A p : /\ [editor[e] EXCEPT !.todo = @ \ {p}] \in Devices
               /\ [editor[e] EXCEPT !.names = @ \ {p}] \in Devices
    BY <1>1 DEF Devices, Texts
  <1>5. /\ [editor[e] EXCEPT !.at = "unlink", !.todo = links] \in Devices
        /\ [editor[e] EXCEPT !.at = "link"] \in Devices
    BY <1>1 DEF Devices, Texts
  <1> USE <1>1, TextTyped
  <1>6. CASE Open(e) \/ Refused(e) \/ Done(e) \/ Fails(e) \/ FinalizeImport(e)
    BY <1>2, <1>3, <1>6 DEF Open, Refused, Done, Fails, FinalizeImport
  <1>7. CASE SaveDraft(e) \/ EditLink(e)
    BY <1>7 DEF SaveDraft, EditLink
  <1>8. CASE MovePage(e)
    <2>1. drafted' \in BOOLEAN /\ editor' \in [Editors -> Devices]
      BY <1>2, <1>3, <1>8 DEF MovePage
    <2>2. stamp' = stamp + 1 /\ stamp < MaxSaves
      BY <1>8 DEF MovePage
    <2>3. stamp' \in 0 .. MaxSaves
      BY <2>2, TextAssumption
    <2>4. /\ text' \in Texts /\ binned' \in BOOLEAN /\ versions' \in Checkpoints
          /\ links' \subseteq Pages /\ listed' \subseteq Pages
      BY <1>8 DEF MovePage
    <2> QED BY <2>1, <2>4, <2>3, Zenon
  <1>9. CASE Checkpoint(e)
    <2>1. PICK t \in Texts : versions' = Append(versions, t)
      BY <1>9 DEF Checkpoint
    <2>2. versions' \in Checkpoints
      BY <1>9, <2>1, TextAssumption DEF Checkpoint, Checkpoints
    <2> QED BY <1>9, <2>2 DEF Checkpoint
  <1>10. CASE ReadLinks(e) \/ Resolve(e)
    BY <1>2, <1>5, <1>10 DEF ReadLinks, Resolve
  <1>11. CASE Unlink(e)
    <2>1. PICK p \in editor[e].todo : Turns(e, [editor[e] EXCEPT !.todo = @ \ {p}]) /\ links' = links \ {p}
      BY <1>11 DEF Unlink
    <2> QED BY <1>2, <1>4, <1>11, <2>1 DEF Unlink
  <1>12. CASE Link(e)
    <2>1. PICK p \in editor[e].names : /\ Turns(e, [editor[e] EXCEPT !.names = @ \ {p}])
                                       /\ links' = IF p \in listed THEN links \cup {p} ELSE links
      BY <1>12 DEF Link
    <2> QED BY <1>2, <1>4, <1>12, <2>1 DEF Link
  <1> QED BY <1>6, <1>7, <1>8, <1>9, <1>10, <1>11, <1>12 DEF OtherStep

LEMMA OtherKeeps ==
  ASSUME TextInv, NEW e \in Editors, OtherStep(e)
  PROVE  TextInv' /\ UNCHANGED text
  <1>1. editor \in [Editors -> Devices] /\ stamp \in 0 .. MaxSaves
    BY TextTyped DEF TextInv
  <1> SUFFICES BaseTells' /\ UNCHANGED text
    BY OtherTyped DEF TextInv
  <1> USE <1>1, TextAssumption DEF TextInv, BaseTells, At, Turns, Current, Devices
  <1>2. CASE SaveDraft(e) \/ Refused(e)
    BY <1>2 DEF SaveDraft, Refused, Away
  <1>3. CASE Open(e)
    <2>1. editor' = [editor EXCEPT ![e] = [Away EXCEPT !.at = "open", !.seen = text, !.base = stamp]]
      BY <1>3 DEF Open
    <2>2. editor'[e].seen = text /\ editor'[e].base = stamp /\ \A f \in Editors \ {e} : editor'[f] = editor[f]
      BY <2>1 DEF Away
    <2>3. UNCHANGED <<text, stamp>>
      BY <1>3 DEF Open
    <2> QED BY <2>2, <2>3
  <1>4. CASE MovePage(e)
    BY <1>4 DEF MovePage, Away
  <1>5. CASE Checkpoint(e) \/ EditLink(e) \/ FinalizeImport(e)
    BY <1>5 DEF Checkpoint, EditLink, FinalizeImport, Away
  <1>6. CASE ReadLinks(e) \/ Unlink(e) \/ Resolve(e)
    BY <1>6 DEF ReadLinks, Unlink, Resolve
  <1>7. CASE Link(e) \/ Done(e) \/ Fails(e)
    BY <1>7 DEF Link, Done, Fails, Away
  <1> QED BY <1>2, <1>3, <1>4, <1>5, <1>6, <1>7 DEF OtherStep

\* The step as TextsKept sees it.
TextReplacedSeen ==
  text' # text =>
    \E e \in Editors :
      /\ At(e, "open") /\ editor[e].seen = text /\ editor'[e] # editor[e]
      /\ RestoreVersion(e) => {text, text'} \subseteq ToSet(versions')

LEMMA TextKept == TextInv /\ [TextNext]_textVars => TextInv' /\ [TextReplacedSeen]_textVars
  <1> SUFFICES ASSUME TextInv, [TextNext]_textVars PROVE TextInv' /\ TextReplacedSeen
    OBVIOUS
  <1>1. ToSet(versions) \subseteq Texts
    BY TextTyped, Elements DEF TextInv, Checkpoints
  <1>2. ASSUME NEW e \in Editors, RestoreVersion(e)
        PROVE  /\ TextInv' /\ At(e, "open") /\ editor[e].seen = text /\ editor'[e] # editor[e]
               /\ text' # text => {text, text'} \subseteq ToSet(versions')
    BY <1>1, <1>2, StoreKeeps DEF RestoreVersion
  <1>3. ASSUME NEW e \in Editors, Save(e)
        PROVE  TextInv' /\ At(e, "open") /\ editor[e].seen = text /\ editor'[e] # editor[e]
    BY <1>3, StoreKeeps DEF Save
  <1>4. ASSUME NEW e \in Editors, Save(e) \/ RestoreVersion(e) PROVE TextInv' /\ TextReplacedSeen
    BY <1>2, <1>3, <1>4 DEF TextReplacedSeen
  <1>5. ASSUME NEW e \in Editors, OtherStep(e) PROVE TextInv' /\ TextReplacedSeen
    BY <1>5, OtherKeeps DEF TextReplacedSeen
  <1>6. CASE Bin \/ BinOther \/ UNCHANGED textVars
    <2>1. TextTypeOK'
      BY <1>6, TextTyped DEF Bin, BinOther, textVars, TextInv
    <2>2. BaseTells' /\ UNCHANGED text
      BY <1>6 DEF Bin, BinOther, textVars, TextInv, BaseTells, At, Current
    <2> QED BY <2>1, <2>2 DEF TextInv, TextReplacedSeen
  <1> QED BY <1>4, <1>5, <1>6 DEF TextNext, OtherStep

\* However many devices edit a page: a save only replaces the text its device has
\* read, and going back to a version keeps both texts among the versions
\* (update_document, restore_version, checkpoint_save).
THEOREM NoTextLost == TextSpec => TextsKept
  <1>1. TextSpec => [][TextReplacedSeen]_textVars
    BY TextStarts, TextKept, PTL DEF TextSpec
  <1> QED BY <1>1 DEF TextsKept, TextReplacedSeen

-----------------------------------------------------------------------------
(* Note imports.                                                           *)

\* The advisory locks let one request at a time look for the path or the receipt.
ImportersApart == \A i, j \in Importers :
  importing[i] \in {"flat", "zip"} /\ importing[i] = importing[j] => i = j

\* While a flat import has the lock no page of its path is there ...
PathFree == \A i \in Importers : Does(i, "flat") => ~KnownPath

\* ... and there is one at most: a page that was purged does not come back.
OnePage == /\ \A n \in flat : note[n] # "none"
           /\ \A n, m \in flat : Present(n) /\ Present(m) => n = m

\* The receipt commits with the pages of the archive.
ReceiptTells == /\ unpacked = IF receipt THEN 1 ELSE 0
                /\ receipt => \A i \in Importers : ~Does(i, "zip")

ImportsInv == ImportsTypeOK /\ ImportersApart /\ PathFree /\ OnePage /\ ReceiptTells

LEMMA ImportsStart == ImportsInit => ImportsInv
  <1> SUFFICES ASSUME ImportsInit PROVE ImportsInv
    OBVIOUS
  <1> USE DEF ImportsInit
  <1>1. ImportsTypeOK
    BY DEF ImportsTypeOK
  <1>2. ImportersApart /\ PathFree
    BY DEF ImportersApart, PathFree, Does
  <1>3. OnePage /\ ReceiptTells
    BY DEF OnePage, ReceiptTells
  <1> QED BY <1>1, <1>2, <1>3 DEF ImportsInv

\* Requests that neither insert nor commit leave the pages alone.
LEMMA ImportsGoOn ==
  ASSUME ImportsInv, NEW i \in Importers,
         BeginFlat(i) \/ BeginZip(i) \/ BeginQuick(i) \/ RollBack(i)
  PROVE  ImportsInv'
  <1> USE DEF ImportsInv, ImportsTypeOK, ImportersApart, PathFree, OnePage, ReceiptTells,
              Does, Step, LockFree, KnownPath, Present
  <1>1. CASE BeginFlat(i)
    BY <1>1 DEF BeginFlat
  <1>2. CASE BeginZip(i)
    BY <1>2 DEF BeginZip
  <1>3. CASE BeginQuick(i)
    BY <1>3, ImportsAssumption DEF BeginQuick, FolderReady
  <1>4. CASE RollBack(i)
    BY <1>4 DEF RollBack
  <1> QED BY <1>1, <1>2, <1>3, <1>4

LEMMA ImportsKept == ImportsInv /\ [ImportsNext]_importVars => ImportsInv'
  <1> SUFFICES ASSUME ImportsInv, [ImportsNext]_importVars PROVE ImportsInv'
    OBVIOUS
  <1> USE DEF ImportsInv, ImportsTypeOK, ImportersApart, PathFree, OnePage, ReceiptTells,
              Does, Step, KnownPath, Present
  <1>1. ASSUME NEW i \in Importers, InsertFlat(i) PROVE ImportsInv'
    BY <1>1 DEF InsertFlat
  <1>2. ASSUME NEW i \in Importers, CommitZip(i) PROVE ImportsInv'
    BY <1>2 DEF CommitZip
  <1>3. ASSUME NEW i \in Importers, MakeFolder(i) PROVE ImportsInv'
    BY <1>3, ImportsAssumption DEF MakeFolder
  <1>4. ASSUME NEW i \in Importers, InsertRecord(i) PROVE ImportsInv'
    BY <1>4 DEF InsertRecord
  <1>5. CASE Discard
    BY <1>5 DEF Discard
  <1>6. CASE UNCHANGED importVars
    BY <1>6 DEF importVars
  <1> QED BY ImportsGoOn, <1>1, <1>2, <1>3, <1>4, <1>5, <1>6 DEF ImportsNext

\* However often clients repeat a flat import or an archive, at the same time or
\* after an answer was lost, roll backs and purges included: one page with the path
\* at a time, and the archive once (import with X-Import-Key, commit_archive).
THEOREM OnceImported == ImportsSpec => []ImportedOnce
  <1>1. ImportsInv => ImportedOnce
    <2> SUFFICES ASSUME ImportsInv PROVE ImportedOnce
      OBVIOUS
    <2>1. Cardinality({n \in flat : Present(n)}) <= 1
      BY AtMostOne DEF ImportsInv, OnePage
    <2>2. unpacked <= 1
      BY DEF ImportsInv, ReceiptTells
    <2> QED BY <2>1, <2>2 DEF ImportedOnce
  <1> QED BY <1>1, ImportsStart, ImportsKept, PTL DEF ImportsSpec

-----------------------------------------------------------------------------
(* Attachments.                                                            *)

\* The lock on a key keeps its uploads apart, and what a request saw of the receipt
\* holds until it commits.
KeysApart == \A u, v \in Uploaders :
  Doing(u, "keyed") /\ Doing(v, "keyed") /\ request[u].key = request[v].key => u = v
KeysOpen == \A u \in Uploaders :
  Doing(u, "keyed") => request[u].key \in Keys /\ receipts[request[u].key] = NoFile

\* A key made what its receipt names, and nothing else.
MadeHasReceipt == \A k \in Keys : made[k] = {receipts[k]} \ {NoFile}

\* A request that has its row has a file to write.
WritersNamed == \A u \in Uploaders : Doing(u, "write") => request[u].file \in Files

FilesInv == FilesTypeOK /\ WritersNamed /\ KeysApart /\ KeysOpen /\ MadeHasReceipt

LEMMA FilesStart == FilesInit => FilesInv
  BY DEF FilesInit, FilesInv, FilesTypeOK, WritersNamed, KeysApart, KeysOpen, MadeHasReceipt, Doing, Free

Requests == [op : {"free", "upload", "keyed", "write", "clean", "remove", "purge"},
             set : SUBSET Files, key : Keys \cup {NoFile}, file : Files \cup {NoFile}]

\* The requests that touch no receipt.
Unkeyed(u) ==
  \/ Upload(u) \/ RowFirst(u) \/ WriteFile(u) \/ SaveText(u) \/ Unused(u) \/ PurgePage(u)
  \/ UnlinkFile(u) \/ Removed(u) \/ Stops(u)

LEMMA FilesTyped ==
  ASSUME FilesTypeOK, WritersNamed, [FilesNext]_fileVars
  PROVE  FilesTypeOK'
  <1> USE DEF FilesTypeOK
  <1>1. \A u \in Uploaders, r \in Requests : Goes(u, r) => request' \in [Uploaders -> Requests]
    BY DEF Goes, Requests
  <1>2. /\ Free \in Requests
        /\ [Free EXCEPT !.op = "upload"] \in Requests
        /\ \A k \in Keys : [Free EXCEPT !.op = "keyed", !.key = k] \in Requests
        /\ \A f \in Files : [Free EXCEPT !.op = "write", !.file = f] \in Requests
        /\ \A S \in SUBSET Files : /\ [Free EXCEPT !.op = "clean", !.set = S] \in Requests
                                   /\ [Free EXCEPT !.op = "remove", !.set = S] \in Requests
                                   /\ [Free EXCEPT !.op = "purge", !.set = S] \in Requests
    BY DEF Free, Requests
  <1>3. \A u \in Uploaders : /\ request[u].key \in Keys \cup {NoFile}
                            /\ request[u].file \in Files \cup {NoFile} /\ request[u].set \subseteq Files
    OBVIOUS
  <1>4. request' \in [Uploaders -> Requests] =>
          request' \in [Uploaders ->
            [op : {"free", "upload", "keyed", "write", "clean", "remove", "purge"},
             set : SUBSET Files, key : Keys \cup {NoFile}, file : Files \cup {NoFile}]]
    BY DEF Requests
  <1> USE DEF Leaves
  <1>5. ASSUME NEW u \in Uploaders, Upload(u) \/ UploadKeyed(u) PROVE FilesTypeOK'
    BY <1>1, <1>2, <1>4, <1>5 DEF Upload, UploadKeyed
  <1>6. ASSUME NEW u \in Uploaders, Stored(u) PROVE FilesTypeOK'
    <2>1. receipts' \in [Keys -> Files \cup {NoFile}] /\ made' \in [Keys -> SUBSET Files]
      BY <1>6 DEF Stored
    <2> QED BY <1>1, <1>2, <1>4, <1>6, <2>1 DEF Stored
  <1>7. ASSUME NEW u \in Uploaders, RowFirst(u) \/ WriteFile(u) \/ Stops(u) PROVE FilesTypeOK'
    <2>1. CASE RowFirst(u)
      BY <1>1, <1>2, <1>4, <2>1 DEF RowFirst
    <2>2. CASE WriteFile(u)
      BY <1>1, <1>2, <1>4, <2>2 DEF WriteFile, WritersNamed
    <2>3. CASE Stops(u)
      BY <1>1, <1>2, <1>4, <2>3 DEF Stops
    <2> QED BY <1>7, <2>1, <2>2, <2>3
  <1>8. ASSUME NEW u \in Uploaders, SaveText(u) \/ Unused(u) \/ PurgePage(u) PROVE FilesTypeOK'
    <2>1. CASE SaveText(u)
      BY <1>1, <1>2, <1>4, <2>1 DEF SaveText
    <2>2. CASE Unused(u)
      BY <1>1, <1>2, <1>4, <2>2 DEF Unused
    <2>3. CASE PurgePage(u)
      BY <1>1, <1>2, <1>4, <2>3 DEF PurgePage
    <2> QED BY <1>8, <2>1, <2>2, <2>3
  <1>9. ASSUME NEW u \in Uploaders, UnlinkFile(u) \/ Removed(u) PROVE FilesTypeOK'
    BY <1>1, <1>2, <1>4, <1>9 DEF UnlinkFile, Removed
  <1>10. CASE BinHolder \/ UNCHANGED fileVars
    BY <1>10 DEF BinHolder, fileVars
  <1> QED BY <1>5, <1>6, <1>7, <1>8, <1>9, <1>10 DEF FilesNext

\* They leave the receipts alone, and take no key.
LEMMA UnkeyedSteps ==
  ASSUME FilesTypeOK, NEW u \in Uploaders, Unkeyed(u)
  PROVE  /\ UNCHANGED <<receipts, made>>
         /\ request' = [request EXCEPT ![u] = request'[u]]
         /\ request'[u] # request[u] =>
              request'[u].op # "keyed" /\ (request'[u].op = "write" => request'[u].file \in Files)
  <1> USE DEF FilesTypeOK, Goes, Leaves, Free
  <1>1. CASE Upload(u)
    <2>1. request' = [request EXCEPT ![u] = [Free EXCEPT !.op = "upload"]]
      BY <1>1 DEF Upload
    <2> QED BY <1>1, <2>1 DEF Upload
  <1>2. CASE WriteFile(u)
    BY <1>2 DEF WriteFile
  <1>3. CASE RowFirst(u)
    <2>1. PICK f \in fresh : request' = [request EXCEPT ![u] = [Free EXCEPT !.op = "write", !.file = f]]
      BY <1>3 DEF RowFirst
    <2> QED BY <1>3, <2>1 DEF RowFirst
  <1>4. CASE SaveText(u)
    <2>1. PICK b \in SUBSET Files : request' = [request EXCEPT ![u] = [Free EXCEPT !.op = "clean", !.set = b]]
      BY <1>4 DEF SaveText
    <2> QED BY <1>4, <2>1 DEF SaveText
  <1>5. CASE Unused(u)
    <2>1. PICK b : request' = [request EXCEPT ![u] = [Free EXCEPT !.op = "remove", !.set = rows \ b]]
      BY <1>5 DEF Unused
    <2> QED BY <1>5, <2>1 DEF Unused
  <1>6. CASE PurgePage(u)
    BY <1>6 DEF PurgePage
  <1>7. CASE UnlinkFile(u) \/ Removed(u) \/ Stops(u)
    BY <1>7 DEF UnlinkFile, Removed, Stops
  <1> QED BY <1>1, <1>2, <1>3, <1>4, <1>5, <1>6, <1>7 DEF Unkeyed

LEMMA FilesKept == FilesInv /\ [FilesNext]_fileVars => FilesInv'
  <1> SUFFICES ASSUME FilesInv, [FilesNext]_fileVars
               PROVE  WritersNamed' /\ KeysApart' /\ KeysOpen' /\ MadeHasReceipt'
    BY FilesTyped DEF FilesInv
  <1> USE FilesAssumption DEF FilesInv, FilesTypeOK, WritersNamed, KeysApart, KeysOpen, MadeHasReceipt, Doing, Goes,
          Leaves, Free
  <1>1. ASSUME NEW u \in Uploaders, UploadKeyed(u)
        PROVE  WritersNamed' /\ KeysApart' /\ KeysOpen' /\ MadeHasReceipt'
    BY <1>1 DEF UploadKeyed, KeyFree
  <1>2. ASSUME NEW u \in Uploaders, Stored(u)
        PROVE  WritersNamed' /\ KeysApart' /\ KeysOpen' /\ MadeHasReceipt'
    <2> PICK f \in fresh :
          IF Doing(u, "keyed")
          THEN /\ receipts' = [receipts EXCEPT ![request[u].key] = f]
               /\ made' = [made EXCEPT ![request[u].key] = @ \cup {f}]
          ELSE UNCHANGED <<receipts, made>>
      BY <1>2 DEF Stored
    <2>1. request' = [request EXCEPT ![u] = Free]
      BY <1>2 DEF Stored
    <2>2. CASE Doing(u, "keyed")
      <3> DEFINE k == request[u].key
      <3>1. k \in Keys /\ made[k] = {} /\ receipts[k] = NoFile
        BY <2>2
      <3>2. made'[k] = {f} /\ receipts'[k] = f /\ f # NoFile
        BY <2>2, <3>1
      <3>3. \A l \in Keys \ {k} : made'[l] = made[l] /\ receipts'[l] = receipts[l]
        BY <2>2, <3>1
      <3>4. MadeHasReceipt'
        BY <3>2, <3>3
      <3>5. \A v \in Uploaders \ {u} : Doing(v, "keyed") => request[v].key \in Keys \ {k}
        BY <2>2
      <3>6. \A v \in Uploaders : Doing(v, "keyed")' => v # u /\ Doing(v, "keyed") /\ request'[v] = request[v]
        BY <2>1
      <3>7. KeysOpen'
        BY <3>3, <3>5, <3>6
      <3>8. KeysApart'
        BY <3>6
      <3>9. WritersNamed'
        BY <2>1
      <3> QED BY <3>4, <3>7, <3>8, <3>9
    <2>3. CASE ~Doing(u, "keyed")
      BY <2>1, <2>3
    <2> QED BY <2>2, <2>3
  <1>3. ASSUME NEW u \in Uploaders, Unkeyed(u)
        PROVE  WritersNamed' /\ KeysApart' /\ KeysOpen' /\ MadeHasReceipt'
    BY <1>3, UnkeyedSteps
  <1>4. CASE BinHolder \/ UNCHANGED fileVars
    BY <1>4 DEF BinHolder, fileVars
  <1> QED BY <1>1, <1>2, <1>3, <1>4 DEF FilesNext, Unkeyed

\* However many uploads carry a key, at the same time or after one another, and
\* whatever becomes of the attachment: the key makes one (upload with
\* Idempotency-Key in routers/attachment.py).
THEOREM OnceUploaded == FilesSpec => []UploadedOnce
  <1>1. FilesInv => UploadedOnce
    <2> SUFFICES ASSUME FilesInv, NEW k \in Keys PROVE Cardinality(made[k]) <= 1
      BY DEF UploadedOnce
    <2>1. \A f, g \in made[k] : f = g
      BY DEF FilesInv, MadeHasReceipt
    <2> QED BY <2>1, AtMostOne
  <1> QED BY <1>1, FilesStart, FilesKept, PTL DEF FilesSpec

-----------------------------------------------------------------------------
(* Profile pictures.                                                       *)

\* With the pictures in the database one upload or choice has the user's row ...
OneSender == inDatabase => \A s, t \in Senders : ~Idle(s) /\ ~Idle(t) => s = t

\* ... so that what it has read is there until it writes.
PastKept == inDatabase => \A s \in Senders : ToSet(sending[s].past) \subseteq kept

PicturesInv == PicturesTypeOK /\ OneSender /\ PastKept /\ PicturesShown

Histories == {q \in Seq(Pictures) : Len(q) <= Keep}
Sendings == [pic : {q \in Seq(Pictures) : Len(q) <= 1}, past : Histories]

LEMMA PicturesTyped ==
  PicturesTypeOK <=> /\ inDatabase \in BOOLEAN /\ history \in Histories /\ kept \subseteq Pictures
                     /\ sending \in [Senders -> Sendings]
  BY BoundedSequences, PicturesAssumption DEF PicturesTypeOK, Histories, Sendings

LEMMA PicturesStart == PicturesInit => PicturesInv
  <1> SUFFICES ASSUME PicturesInit PROVE PicturesInv
    OBVIOUS
  <1>1. <<>> \in Histories /\ Still \in Sendings
    BY PicturesAssumption DEF Histories, Sendings, Still
  <1>2. PicturesTypeOK
    BY <1>1, PicturesTyped DEF PicturesInit
  <1>3. ToSet(<<>>) = {}
    BY DEF ToSet
  <1> QED BY <1>2, <1>3 DEF PicturesInit, PicturesInv, OneSender, PastKept, PicturesShown, Idle, Still

\* What a choice puts together.
LEMMA Chosen ==
  ASSUME NEW q \in Histories, NEW i \in DOMAIN q
  PROVE  /\ <<q[i]>> \o RemoveAt(q, i) \in Histories
         /\ ToSet(<<q[i]>> \o RemoveAt(q, i)) \subseteq ToSet(q)
  <1>1. q \in Seq(Pictures) /\ i \in 1 .. Len(q) /\ q[i] \in Pictures /\ Len(q) \in Nat /\ Len(q) <= Keep
    BY DEF Histories
  <1> DEFINE before == SubSeq(q, 1, i - 1)
             after == SubSeq(q, i + 1, Len(q))
             first == <<q[i]>>
  <1>2. before \in Seq(Pictures) /\ Len(before) = i - 1 /\ ToSet(before) \subseteq ToSet(q)
    BY <1>1, Begun
  <1>3. /\ after \in Seq(Pictures) /\ Len(after) = Len(q) - i
        /\ \A k \in 1 .. Len(after) : after[k] = q[i + k]
    BY <1>1
  <1> HIDE DEF before, after
  <1>4. ASSUME NEW x \in ToSet(after) PROVE x \in ToSet(q)
    <2>1. PICK k \in 1 .. Len(after) : after[k] = x
      BY <1>3, InSequence
    <2>2. i + k \in 1 .. Len(q) /\ q[i + k] = x
      BY <1>1, <1>3, <2>1
    <2> QED BY <1>1, <2>2, InSequence
  <1>5. ToSet(first) \subseteq ToSet(q) /\ first \in Seq(Pictures) /\ Len(first) = 1
    BY <1>1 DEF ToSet
  <1> DEFINE rest == before \o after
  <1>6. /\ rest \in Seq(Pictures) /\ Len(rest) = Len(q) - 1
        /\ ToSet(rest) \subseteq ToSet(q)
    <2>1. /\ rest \in Seq(Pictures) /\ Len(rest) = Len(before) + Len(after)
          /\ ToSet(rest) = ToSet(before) \cup ToSet(after)
      BY <1>2, <1>3, Concatenated
    <2> QED BY <1>1, <1>2, <1>3, <1>4, <2>1
  <1> HIDE DEF first, rest
  <1>7. /\ first \o rest \in Seq(Pictures) /\ Len(first \o rest) = Len(q)
        /\ ToSet(first \o rest) \subseteq ToSet(q)
    <2>1. /\ first \o rest \in Seq(Pictures) /\ Len(first \o rest) = Len(first) + Len(rest)
          /\ ToSet(first \o rest) = ToSet(first) \cup ToSet(rest)
      BY <1>5, <1>6, Concatenated
    <2> QED BY <1>1, <1>5, <1>6, <2>1
  <1>8. <<q[i]>> \o RemoveAt(q, i) = first \o rest
    BY DEF RemoveAt, first, rest, before, after
  <1> QED BY <1>1, <1>7, <1>8 DEF Histories

\* What is written: the newest pictures, and the bytes of them.
LEMMA NewestKept ==
  ASSUME NEW q \in Seq(Pictures)
  PROVE  Newest(q) \in Histories /\ ToSet(Newest(q)) \subseteq ToSet(q)
  <1>1. CASE Len(q) <= Keep
    BY <1>1 DEF Newest, Histories
  <1>2. CASE Len(q) > Keep
    BY <1>2, PicturesAssumption, Begun DEF Newest, Histories
  <1> QED BY <1>1, <1>2, PicturesAssumption

LEMMA PicturesKept == PicturesInv /\ [PicturesNext]_pictureVars => PicturesInv'
  <1> SUFFICES ASSUME PicturesInv, [PicturesNext]_pictureVars PROVE PicturesInv'
    OBVIOUS
  <1>1. /\ inDatabase \in BOOLEAN /\ history \in Histories /\ kept \subseteq Pictures
        /\ sending \in [Senders -> Sendings]
    BY PicturesTyped DEF PicturesInv
  <1>2. (/\ inDatabase' \in BOOLEAN /\ history' \in Histories /\ kept' \subseteq Pictures
         /\ sending' \in [Senders -> Sendings]) => PicturesTypeOK'
    BY BoundedSequences, PicturesAssumption DEF PicturesTypeOK, Histories, Sendings
  <1>3. ToSet(<<>>) = {} /\ Still \in Sendings
    BY PicturesAssumption DEF ToSet, Still, Sendings, Histories
  <1> USE DEF PicturesInv, OneSender, PastKept, PicturesShown
  <1>4. ASSUME NEW s \in Senders, ReadHistory(s) PROVE PicturesInv'
    <2>1. PICK p \in Pictures :
            /\ sending' = [sending EXCEPT ![s] = [pic |-> <<p>>, past |-> history]]
            /\ kept' = IF inDatabase THEN kept ELSE kept \cup {p}
      BY <1>4 DEF ReadHistory, Unnamed
    <2>2. [pic |-> <<p>>, past |-> history] \in Sendings
      BY <1>1 DEF Sendings
    <2>3. PicturesTypeOK'
      BY <1>1, <1>2, <1>4, <2>1, <2>2 DEF ReadHistory
    <2>4. OneSender' /\ PastKept' /\ PicturesShown'
      BY <1>1, <1>4, <2>1 DEF ReadHistory, OwnerRowFree, Idle, Still
    <2> QED BY <2>3, <2>4
  <1>5. ASSUME NEW s \in Senders, Pick(s) PROVE PicturesInv'
    <2>1. PICK i \in DOMAIN history :
            sending' = [sending EXCEPT ![s] = [pic |-> <<>>, past |-> <<history[i]>> \o RemoveAt(history, i)]]
      BY <1>5 DEF Pick
    <2> DEFINE past == <<history[i]>> \o RemoveAt(history, i)
    <2>2. past \in Histories /\ ToSet(past) \subseteq ToSet(history)
      BY <1>1, Chosen
    <2> HIDE DEF past
    <2>3. sending' = [sending EXCEPT ![s] = [pic |-> <<>>, past |-> past]]
      BY <2>1 DEF past
    <2>4. [pic |-> <<>>, past |-> past] \in Sendings
      BY <2>2 DEF Sendings
    <2>5. PicturesTypeOK'
      BY <1>1, <1>2, <1>5, <2>3, <2>4 DEF Pick
    <2>6. OneSender' /\ PastKept' /\ PicturesShown'
      BY <1>1, <1>5, <2>2, <2>3 DEF Pick, OwnerRowFree, Idle, Still
    <2> QED BY <2>5, <2>6
  <1>6. ASSUME NEW s \in Senders, WriteHistory(s) PROVE PicturesInv'
    <2> DEFINE q == Queued(s)
    <2>1. /\ q \in Seq(Pictures) /\ ToSet(sending[s].pic) \subseteq Pictures
          /\ ToSet(q) = ToSet(sending[s].pic) \cup ToSet(sending[s].past)
      BY <1>1, Concatenated, Elements DEF Queued, Sendings, Histories
    <2>2. Newest(q) \in Histories /\ ToSet(Newest(q)) \subseteq ToSet(q)
      BY <2>1, NewestKept
    <2>3. /\ history' = Newest(q) /\ UNCHANGED inDatabase
          /\ kept' = (kept \cup ToSet(sending[s].pic)) \ (ToSet(q) \ ToSet(Newest(q)))
          /\ sending' = [sending EXCEPT ![s] = Still]
      BY <1>6 DEF WriteHistory, Beyond
    <2> HIDE DEF q
    <2>4. PicturesTypeOK'
      BY <1>1, <1>2, <1>3, <2>1, <2>2, <2>3
    <2>5. OneSender'
      BY <1>1, <2>3 DEF Idle
    <2>6. PicturesShown'
      BY <2>1, <2>2, <2>3
    <2>7. PastKept'
      <3>1. inDatabase => \A t \in Senders : sending'[t] = Still
        BY <1>1, <1>6, <2>3 DEF WriteHistory, Idle
      <3> QED BY <1>3, <2>3, <3>1 DEF Still
    <2> QED BY <2>4, <2>5, <2>6, <2>7
  <1>7. ASSUME NEW s \in Senders, GivesUp(s) PROVE PicturesInv'
    <2>1. PicturesTypeOK'
      BY <1>1, <1>2, <1>3, <1>7 DEF GivesUp
    <2>2. OneSender' /\ PastKept' /\ PicturesShown'
      BY <1>1, <1>3, <1>7 DEF GivesUp, Idle, Still
    <2> QED BY <2>1, <2>2
  <1>8. CASE UNCHANGED pictureVars
    BY <1>8 DEF pictureVars, PicturesTypeOK, Idle
  <1> QED BY <1>4, <1>5, <1>6, <1>7, <1>8 DEF PicturesNext

\* Whatever uploads and choices run at the same time, and however many pictures the
\* history keeps: with the pictures in the database every one it names can be shown
\* (_upload_avatar_pg, pick_avatar).
THEOREM PicturesStayShown == PicturesSpec => []PicturesShown
  <1>1. PicturesInv => PicturesShown
    BY DEF PicturesInv
  <1> QED BY <1>1, PicturesStart, PicturesKept, PTL DEF PicturesSpec

-----------------------------------------------------------------------------
(* Background images.                                                      *)

\* A replica has the locks of its jobs, each of them once ...
JobsLocked == \A p \in Replicas : \A s \in ToSet(jobs[p]) : flock[s] = p
JobsApart == \A p \in Replicas : IsInjective(jobs[p])

\* ... and of the source it is about to queue.
AdmitsLocked == \A p \in Replicas : admits[p] # Nobody =>
  flock[admits[p]] = p /\ admits[p] \notin ToSet(jobs[p])

\* A viewer asks for a source, and has its lock while it reads the sidecar again.
ViewersLocked == \A v \in Viewers : viewer[v].at # "out" =>
  /\ viewer[v].source \in Sources
  /\ viewer[v].at \in {"locked", "answer"} => flock[viewer[v].source] = v

\* As long as it has it nobody writes the result it did not find.
MissingTrue == \A v \in Viewers : viewer[v].at = "answer" /\ viewer[v].seen = "missing" =>
  ~(viewer[v].source \in file /\ sidecar[viewer[v].source] \in Results)

LocksKept == JobsLocked /\ JobsApart /\ AdmitsLocked /\ ViewersLocked /\ MissingTrue

MediaInv == MediaTypeOK /\ LocksKept

Queues == {q \in Seq(Sources) : Len(q) <= Admitted}

LEMMA QueuesTyped == BoundedSeq(Sources, Admitted) = Queues
  BY BoundedSequences, MediaAssumption DEF Queues

LEMMA MediaStarts == MediaInit => MediaInv
  <1> SUFFICES ASSUME MediaInit PROVE MediaInv
    OBVIOUS
  <1>1. <<>> \in Queues /\ ToSet(<<>>) = {} /\ IsInjective(<<>>)
    BY MediaAssumption DEF Queues, ToSet, IsInjective
  <1>2. MediaTypeOK
    BY <1>1, QueuesTyped DEF MediaInit, MediaTypeOK, Watching
  <1>3. LocksKept
    BY <1>1 DEF MediaInit, LocksKept, JobsLocked, JobsApart, AdmitsLocked, ViewersLocked, MissingTrue,
                Watching
  <1> QED BY <1>2, <1>3 DEF MediaInv

\* A queue without duplicates stays one when a source that is not in it is added,
\* or when its first one goes, which is then not in it any more.
LEMMA QueueGrows ==
  ASSUME NEW q \in Seq(Sources), NEW s \in Sources, IsInjective(q), s \notin ToSet(q)
  PROVE  IsInjective(Append(q, s))
  <1> DEFINE t == Append(q, s)
  <1>1. /\ DOMAIN t = 1 .. Len(q) + 1 /\ t[Len(q) + 1] = s /\ Len(q) \in Nat
        /\ \A i \in 1 .. Len(q) : t[i] = q[i]
    OBVIOUS
  <1>2. \A i \in 1 .. Len(q) : q[i] # s
    BY InSequence
  <1>3. \A i, j \in 1 .. Len(q) : q[i] = q[j] => i = j
    BY DEF IsInjective
  <1> HIDE DEF t
  <1>4. ASSUME NEW i \in DOMAIN t, NEW j \in DOMAIN t, t[i] = t[j] PROVE i = j
    BY <1>1, <1>2, <1>3, <1>4
  <1>5. IsInjective(t)
    BY <1>4 DEF IsInjective
  <1> QED BY <1>5 DEF t

LEMMA QueueShrinks ==
  ASSUME NEW q \in Seq(Sources), q # <<>>, IsInjective(q)
  PROVE  IsInjective(Tail(q)) /\ Head(q) \notin ToSet(Tail(q))
  <1>1. /\ Tail(q) \in Seq(Sources) /\ Len(q) \in Nat /\ Len(q) >= 1 /\ Len(Tail(q)) = Len(q) - 1
        /\ DOMAIN Tail(q) = 1 .. Len(q) - 1 /\ Head(q) = q[1]
        /\ \A i \in 1 .. Len(q) - 1 : Tail(q)[i] = q[i + 1]
    OBVIOUS
  <1>2. \A i, j \in 1 .. Len(q) : q[i] = q[j] => i = j
    BY DEF IsInjective
  <1>3. ASSUME NEW i \in DOMAIN Tail(q), NEW j \in DOMAIN Tail(q), Tail(q)[i] = Tail(q)[j] PROVE i = j
    <2>1. q[i + 1] = q[j + 1] /\ i + 1 \in 1 .. Len(q) /\ j + 1 \in 1 .. Len(q)
      BY <1>1, <1>3
    <2> QED BY <1>1, <1>2, <2>1
  <1>4. ASSUME NEW i \in 1 .. Len(Tail(q)) PROVE Tail(q)[i] # Head(q)
    <2>1. Tail(q)[i] = q[i + 1] /\ i + 1 \in 1 .. Len(q) /\ i + 1 # 1 /\ 1 \in 1 .. Len(q)
      BY <1>1
    <2> QED BY <1>1, <1>2, <2>1
  <1>5. Head(q) \notin ToSet(Tail(q))
    <2>1. Head(q) \in ToSet(Tail(q)) <=> \E i \in 1 .. Len(Tail(q)) : Tail(q)[i] = Head(q)
      BY <1>1, InSequence
    <2> QED BY <1>4, <2>1
  <1> QED BY <1>3, <1>5 DEF IsInjective

-----------------------------------------------------------------------------
\* The index and the reads that do not end in an answer.
IndexStep ==
  \/ \E s \in Sources : UploadFile(s) \/ ListUpload(s) \/ RemoveFile(s)
  \/ Unlist \/ IndexKilled

LEMMA IndexKeeps ==
  ASSUME MediaInv, IndexStep
  PROVE  MediaInv'
  <1> USE DEF MediaInv, MediaTypeOK, LocksKept, JobsLocked, JobsApart, AdmitsLocked, ViewersLocked,
              MissingTrue, work
  <1>1. ASSUME NEW s \in Sources, UploadFile(s) PROVE MediaInv'
    BY <1>1, MediaAssumption DEF UploadFile
  <1>2. ASSUME NEW s \in Sources, ListUpload(s) \/ RemoveFile(s) PROVE MediaInv'
    BY <1>2 DEF ListUpload, RemoveFile
  <1>3. CASE Unlist \/ IndexKilled
    BY <1>3 DEF Unlist, IndexKilled
  <1> QED BY <1>1, <1>2, <1>3 DEF IndexStep

\* A replica.
LEMMA AdmissionKeeps ==
  ASSUME MediaInv, NEW p \in Replicas,
         (\E s \in Sources : Admit(p, s)) \/ GivesBack(p) \/ ReplicaKilled(p)
  PROVE  MediaInv'
  <1> USE MediaAssumption DEF MediaInv, LocksKept, JobsLocked, JobsApart, AdmitsLocked, ViewersLocked,
              MissingTrue, index
  <1>1. ASSUME NEW s \in Sources, Admit(p, s) PROVE MediaInv'
    <2>1. MediaTypeOK'
      BY <1>1 DEF MediaTypeOK, Admit
    <2>2. flock[s] = Nobody /\ admits[p] = Nobody
      BY <1>1 DEF Admit, JobLockFree
    <2>3. \A q \in Replicas : s \notin ToSet(jobs[q])
      BY <2>2
    <2>4. LocksKept'
      BY <1>1, <2>2, <2>3 DEF MediaTypeOK, Admit
    <2> QED BY <2>1, <2>4
  <1>2. CASE GivesBack(p)
    <2>1. MediaTypeOK'
      BY <1>2 DEF MediaTypeOK, GivesBack, Freed
    <2>2. \A q \in Replicas \ {p} : admits[q] # Nobody => admits[q] # admits[p]
      BY <1>2 DEF GivesBack
    <2>3. \A q \in Replicas : admits[p] \notin ToSet(jobs[q])
      BY <1>2 DEF GivesBack
    <2>4. JobsLocked' /\ JobsApart' /\ AdmitsLocked'
      BY <1>2, <2>2, <2>3 DEF MediaTypeOK, GivesBack, Freed
    <2>5. ViewersLocked' /\ MissingTrue'
      BY <1>2 DEF MediaTypeOK, GivesBack, Freed
    <2> QED BY <2>1, <2>4, <2>5
  <1>3. CASE ReplicaKilled(p)
    <2>1. <<>> \in Queues /\ ToSet(<<>>) = {} /\ IsInjective(<<>>)
      BY DEF Queues, ToSet, IsInjective
    <2>2. MediaTypeOK'
      BY <1>3, <2>1, QueuesTyped DEF MediaTypeOK, ReplicaKilled
    <2>3. \A q \in Replicas : ToSet(jobs[q]) \subseteq Sources
      BY QueuesTyped, Elements DEF MediaTypeOK, Queues
    <2>4. /\ \A s \in Sources : flock'[s] = IF flock[s] = p THEN Nobody ELSE flock[s]
          /\ jobs'[p] = <<>> /\ admits'[p] = Nobody
          /\ \A q \in Replicas \ {p} : jobs'[q] = jobs[q] /\ admits'[q] = admits[q]
          /\ UNCHANGED <<file, sidecar, viewer>>
      BY <1>3 DEF ReplicaKilled, MediaTypeOK
    <2>5. JobsLocked' /\ JobsApart'
      BY <2>1, <2>3, <2>4
    <2>6. AdmitsLocked'
      BY <2>4 DEF MediaTypeOK
    <2>7. ViewersLocked' /\ MissingTrue'
      BY <2>4
    <2> QED BY <2>2, <2>5, <2>6, <2>7
  <1> QED BY <1>1, <1>2, <1>3

LEMMA EnqueueKeeps ==
  ASSUME MediaInv, NEW p \in Replicas, Enqueue(p)
  PROVE  MediaInv'
  <1> DEFINE s == admits[p]
             q == Append(jobs[p], s)
  <1> USE MediaAssumption DEF MediaInv, LocksKept
  <1>1. s \in Sources /\ jobs[p] \in Queues /\ Len(jobs[p]) < Admitted
    BY QueuesTyped DEF Enqueue, MediaTypeOK, NoSlot, Queues
  <1>2. q \in Queues /\ ToSet(q) = ToSet(jobs[p]) \cup {s}
    BY <1>1, Appended DEF Queues
  <1>3. s \notin ToSet(jobs[p]) /\ flock[s] = p
    BY <1>1 DEF AdmitsLocked
  <1>4. IsInjective(q)
    BY <1>1, <1>3, QueueGrows DEF JobsApart, Queues
  <1>5. /\ sidecar' = [sidecar EXCEPT ![s] = "queued"] /\ jobs' = [jobs EXCEPT ![p] = q]
        /\ admits' = [admits EXCEPT ![p] = Nobody]
        /\ UNCHANGED <<file, catalog, indexing, flock, begun, viewer>>
    BY DEF Enqueue, index
  <1> HIDE DEF s, q
  <1>6. MediaTypeOK'
    BY <1>1, <1>2, <1>5, QueuesTyped DEF MediaTypeOK, Pending
  <1>7. JobsLocked' /\ JobsApart' /\ AdmitsLocked'
    BY <1>2, <1>3, <1>4, <1>5 DEF MediaTypeOK, JobsLocked, JobsApart, AdmitsLocked
  <1>8. ViewersLocked' /\ MissingTrue'
    BY <1>1, <1>3, <1>5 DEF MediaTypeOK, ViewersLocked, MissingTrue
  <1> QED BY <1>6, <1>7, <1>8

LEMMA WorkerKeeps ==
  ASSUME MediaInv, NEW p \in Replicas, Work(p) \/ WriteResult(p) \/ LetGo(p)
  PROVE  MediaInv'
  <1> DEFINE s == Foremost(p)
  <1> USE MediaAssumption DEF MediaInv, LocksKept, index, Advances
  <1>1. jobs[p] \in Seq(Sources) /\ Len(jobs[p]) <= Admitted /\ jobs[p] # <<>>
    BY QueuesTyped DEF MediaTypeOK, Queues, Work, WriteResult, LetGo
  <1>2. /\ s \in Sources /\ s \in ToSet(jobs[p]) /\ Tail(jobs[p]) \in Seq(Sources)
        /\ ToSet(jobs[p]) = {s} \cup ToSet(Tail(jobs[p]))
    BY <1>1, Beheaded DEF Foremost
  <1>3. flock[s] = p
    BY <1>2 DEF JobsLocked
  <1>4. CASE Work(p) \/ WriteResult(p)
    <2>1. /\ \E r \in Pending \cup Results \cup {"none"} : sidecar' = [sidecar EXCEPT ![s] = r]
          /\ begun' \in [Replicas -> {"no", "yes", "written"}]
          /\ UNCHANGED <<file, catalog, indexing, flock, admits, jobs, viewer>>
      <3>1. sidecar[s] \in Pending \cup Results \cup {"none"} /\ sidecar = [sidecar EXCEPT ![s] = sidecar[s]]
        BY <1>2 DEF MediaTypeOK
      <3>2. CASE Work(p)
        BY <3>1, <3>2 DEF Work, MediaTypeOK, Pending
      <3>3. CASE WriteResult(p)
        BY <3>1, <3>3 DEF WriteResult, MediaTypeOK, Results
      <3> QED BY <1>4, <3>2, <3>3
    <2> HIDE DEF s
    <2>2. MediaTypeOK'
      BY <1>2, <2>1 DEF MediaTypeOK
    <2>3. JobsLocked' /\ JobsApart' /\ AdmitsLocked'
      BY <2>1 DEF JobsLocked, JobsApart, AdmitsLocked
    <2>4. ViewersLocked' /\ MissingTrue'
      BY <1>2, <1>3, <2>1 DEF MediaTypeOK, ViewersLocked, MissingTrue
    <2> QED BY <2>2, <2>3, <2>4
  <1>5. CASE LetGo(p)
    <2>1. /\ flock' = [flock EXCEPT ![s] = Nobody] /\ jobs' = [jobs EXCEPT ![p] = Tail(jobs[p])]
          /\ begun' = [begun EXCEPT ![p] = "no"]
          /\ UNCHANGED <<file, catalog, indexing, sidecar, admits, viewer>>
      BY <1>5 DEF LetGo, Freed
    <2>2. Tail(jobs[p]) \in Queues
      BY <1>1 DEF Queues
    <2>3. IsInjective(Tail(jobs[p])) /\ s \notin ToSet(Tail(jobs[p]))
      BY <1>1, QueueShrinks DEF JobsApart, Foremost
    <2> HIDE DEF s
    <2>4. MediaTypeOK'
      BY <1>2, <2>1, <2>2, QueuesTyped DEF MediaTypeOK
    <2>5. \A q \in Replicas : ToSet(jobs'[q]) \subseteq ToSet(jobs[q]) \ {s} /\ IsInjective(jobs'[q])
      BY <1>2, <1>3, <2>1, <2>3 DEF MediaTypeOK, JobsLocked, JobsApart
    <2>6. ToSet(jobs[p]) \subseteq Sources /\ \A q \in Replicas : ToSet(jobs[q]) \subseteq Sources
      BY <1>1, QueuesTyped, Elements DEF MediaTypeOK, Queues
    <2>7. JobsLocked' /\ JobsApart'
      BY <2>1, <2>5, <2>6 DEF MediaTypeOK, JobsLocked, JobsApart
    <2>8. AdmitsLocked'
      BY <1>2, <1>3, <2>1, <2>5 DEF MediaTypeOK, AdmitsLocked
    <2>9. ViewersLocked' /\ MissingTrue'
      BY <1>2, <1>3, <2>1 DEF MediaTypeOK, ViewersLocked, MissingTrue
    <2> QED BY <2>4, <2>7, <2>8, <2>9
  <1> QED BY <1>4, <1>5

\* A viewer.
LEMMA ViewerKeeps ==
  ASSUME MediaInv, NEW v \in Viewers,
         (\E s \in Sources : View(v, s)) \/ TryLock(v) \/ ReadAgain(v) \/ LetLockGo(v)
  PROVE  MediaInv'
  <1> USE MediaAssumption DEF MediaInv, LocksKept, index, work
  <1>1. ASSUME NEW s \in Sources, View(v, s) PROVE MediaInv'
    BY <1>1 DEF View, MediaTypeOK, JobsLocked, JobsApart, AdmitsLocked, ViewersLocked, MissingTrue
  <1>2. CASE TryLock(v)
    <2> DEFINE s == viewer[v].source
    <2>1. s \in Sources
      BY <1>2 DEF TryLock, ViewersLocked
    <2>2. CASE flock[s] = Nobody
      <3>1. /\ flock' = [flock EXCEPT ![s] = v] /\ viewer' = [viewer EXCEPT ![v].at = "locked"]
            /\ UNCHANGED <<file, catalog, indexing, sidecar, admits, jobs, begun>>
        BY <1>2, <2>2 DEF TryLock
      <3> HIDE DEF s
      <3>2. MediaTypeOK'
        BY <2>1, <3>1 DEF MediaTypeOK
      <3>3. JobsLocked' /\ JobsApart' /\ AdmitsLocked'
        BY <2>1, <2>2, <3>1 DEF MediaTypeOK, JobsLocked, JobsApart, AdmitsLocked
      <3>4. /\ viewer'[v].at = "locked" /\ viewer'[v].source = s
            /\ \A w \in Viewers \ {v} : viewer'[w] = viewer[w]
        BY <3>1 DEF MediaTypeOK, s
      <3>5. ViewersLocked' /\ MissingTrue'
        BY <2>1, <2>2, <3>1, <3>4 DEF MediaTypeOK, ViewersLocked, MissingTrue
      <3> QED BY <3>2, <3>3, <3>5
    <2>3. CASE flock[s] # Nobody
      <3>1. /\ viewer' = [viewer EXCEPT ![v] = Watching]
            /\ UNCHANGED <<file, catalog, indexing, sidecar, flock, admits, jobs, begun>>
        BY <1>2, <2>3 DEF TryLock
      <3>2. MediaTypeOK'
        BY <3>1 DEF MediaTypeOK, Watching
      <3>3. LocksKept'
        BY <3>1 DEF MediaTypeOK, JobsLocked, JobsApart, AdmitsLocked, ViewersLocked, MissingTrue, Watching
      <3> QED BY <3>2, <3>3
    <2> QED BY <2>2, <2>3
  <1>3. CASE ReadAgain(v)
    <2>1. viewer' = [viewer EXCEPT ![v].at = "answer", ![v].seen = Answer(v)]
      BY <1>3 DEF ReadAgain
    <2>2. Answer(v) \in Results \cup {"missing"}
      BY DEF Answer
    <2>3. /\ viewer'[v].at = "answer" /\ viewer'[v].source = viewer[v].source
          /\ viewer'[v].seen = Answer(v)
          /\ \A w \in Viewers \ {v} : viewer'[w] = viewer[w]
      BY <2>1 DEF MediaTypeOK
    <2>4. MediaTypeOK'
      <3>1. [viewer[v] EXCEPT !.at = "answer", !.seen = Answer(v)] \in
              [at : {"out", "read", "locked", "answer"}, source : Sources \cup {Nobody},
               seen : Pending \cup Results \cup {"none", "missing"}]
        BY <2>2 DEF MediaTypeOK
      <3>2. viewer' = [viewer EXCEPT ![v] = [viewer[v] EXCEPT !.at = "answer", !.seen = Answer(v)]]
        BY <2>1 DEF MediaTypeOK
      <3> QED BY <1>3, <3>1, <3>2 DEF ReadAgain, MediaTypeOK
    <2>5. JobsLocked' /\ JobsApart' /\ AdmitsLocked'
      BY <1>3 DEF ReadAgain, JobsLocked, JobsApart, AdmitsLocked
    <2>6. ViewersLocked'
      BY <1>3, <2>3 DEF ReadAgain, ViewersLocked
    <2>7. Answer(v) = "missing" => ~(viewer[v].source \in file /\ sidecar[viewer[v].source] \in Results)
      <3>1. "missing" \notin Results
        BY DEF Results
      <3> QED BY <3>1, Zenon DEF Answer
    <2>8. MissingTrue'
      <3>1. UNCHANGED <<file, sidecar>>
        BY <1>3 DEF ReadAgain
      <3>2. ASSUME NEW w \in Viewers, (viewer[w].at = "answer" /\ viewer[w].seen = "missing")'
            PROVE  ~(viewer[w].source \in file /\ sidecar[viewer[w].source] \in Results)'
        <4>1. CASE w = v
          BY <2>3, <2>7, <3>1, <3>2, <4>1
        <4>2. CASE w # v
          BY <2>3, <3>1, <3>2, <4>2 DEF MissingTrue
        <4> QED BY <4>1, <4>2
      <3> QED BY <3>2 DEF MissingTrue
    <2> QED BY <2>4, <2>5, <2>6, <2>8
  <1>4. CASE LetLockGo(v)
    <2> DEFINE s == viewer[v].source
    <2>1. /\ viewer[v].at = "answer" /\ flock' = [flock EXCEPT ![s] = Nobody]
          /\ viewer' = [viewer EXCEPT ![v] = Watching]
          /\ UNCHANGED <<file, catalog, indexing, sidecar, admits, jobs, begun>>
      BY <1>4 DEF LetLockGo, Freed
    <2>2. s \in Sources /\ flock[s] = v
      BY <2>1 DEF ViewersLocked
    <2> HIDE DEF s
    <2>3. MediaTypeOK'
      BY <2>1, <2>2 DEF MediaTypeOK, Watching
    <2>4. JobsLocked' /\ JobsApart' /\ AdmitsLocked'
      <3>1. \A t \in Sources : flock'[t] = flock[t] \/ flock[t] \notin Replicas
        BY <2>1, <2>2 DEF MediaTypeOK
      <3>2. \A q \in Replicas : ToSet(jobs[q]) \subseteq Sources
        BY QueuesTyped, Elements DEF MediaTypeOK, Queues
      <3> QED BY <2>1, <3>1, <3>2 DEF MediaTypeOK, JobsLocked, JobsApart, AdmitsLocked
    <2>5. ViewersLocked' /\ MissingTrue'
      BY <2>1, <2>2 DEF MediaTypeOK, ViewersLocked, MissingTrue, Watching
    <2> QED BY <2>3, <2>4, <2>5
  <1> QED BY <1>1, <1>2, <1>3, <1>4

LEMMA MediaKept == MediaInv /\ [MediaNext]_mediaVars => MediaInv'
  <1> SUFFICES ASSUME MediaInv, [MediaNext]_mediaVars PROVE MediaInv'
    OBVIOUS
  <1>1. CASE UNCHANGED mediaVars
    BY <1>1 DEF mediaVars, MediaInv, MediaTypeOK, LocksKept, JobsLocked, JobsApart, AdmitsLocked,
                ViewersLocked, MissingTrue
  <1>2. CASE MediaNext
    BY <1>2, IndexKeeps, AdmissionKeeps, EnqueueKeeps, WorkerKeeps, ViewerKeeps DEF MediaNext, IndexStep
  <1> QED BY <1>1, <1>2

\* For any number of sources, replicas and viewers, wherever a replica is killed: one
\* of them converts a source at a time, and whoever is told "missing" is told so while
\* no job for the source is queued or under way and no result of one is there
\* (schedule, _worker and metadata of homebg_media.py).
THEOREM MediaStaysHonest == MediaSpec => []MediaHonest
  <1>1. MediaInv => MediaHonest
    <2> SUFFICES ASSUME MediaInv, NEW s \in Sources
                 PROVE  /\ Cardinality(Converting(s)) <= 1
                        /\ \A v \in Viewers :
                             viewer[v].at = "answer" /\ viewer[v].source = s /\ viewer[v].seen = "missing"
                               => Converting(s) = {} /\ (s \in file => sidecar[s] \notin Results)
      BY DEF MediaHonest
    <2>1. \A p \in Converting(s) : p \in Replicas /\ flock[s] = p
      BY DEF Converting, MediaInv, LocksKept, JobsLocked
    <2>2. Cardinality(Converting(s)) <= 1
      BY <2>1, AtMostOne
    <2> QED BY <2>1, <2>2, MediaAssumption DEF MediaInv, LocksKept, ViewersLocked, MissingTrue
  <1> QED BY <1>1, MediaStarts, MediaKept, PTL DEF MediaSpec
-----------------------------------------------------------------------------
(* The disk cache.  What a set of objects takes is a sum over the set, which   *)
(* the model folds: the lemmas unfold it one object at a time.                 *)

\* One step of the sum over s, for partial sums g.
First(s) == CHOOSE o \in s : TRUE
Summed(g, s) == IF s = {} THEN 0 ELSE Cost[First(s)] + g[s \ {First(s)}]
Sums(g, S) == g = [s \in SUBSET S |-> Summed(g, s)]
Small(n) == {s \in SUBSET Objects : IsFiniteSet(s) /\ Cardinality(s) <= n}

LEMMA CostIs ==
  ASSUME NEW S
  PROVE  CostOf(S) = (CHOOSE g : Sums(g, S))[S]
  BY DEF CostOf, MapThenSumSet, MapThenFoldSet, Summed, Sums, First

LEMMA Smaller ==
  ASSUME NEW n \in Nat, NEW s \in Small(n + 1), s # {}
  PROVE  First(s) \in s /\ First(s) \in Objects /\ s \ {First(s)} \in Small(n)
  <1>1. First(s) \in s
    BY DEF First
  <1>2. IsFiniteSet(s) /\ Cardinality(s) \in Nat /\ Cardinality(s) <= n + 1 /\ s \subseteq Objects
    BY FS_CardinalityType DEF Small
  <1>3. IsFiniteSet(s \ {First(s)}) /\ Cardinality(s \ {First(s)}) = Cardinality(s) - 1
    BY <1>1, <1>2, FS_RemoveElement
  <1>4. Cardinality(s \ {First(s)}) \in Nat
    BY <1>3, FS_CardinalityType
  <1> QED BY <1>1, <1>2, <1>3, <1>4 DEF Small

LEMMA PartialSums ==
  ASSUME NEW n \in Nat
  PROVE  \E g \in [Small(n) -> Nat] : \A s \in Small(n) : g[s] = Summed(g, s)
  <1> USE CacheAssumption
  <1> DEFINE Has(m) == \E g \in [Small(m) -> Nat] : \A s \in Small(m) : g[s] = Summed(g, s)
             all == {m \in Nat : Has(m)}
  <1>1. 0 \in all
    <2> DEFINE g == [s \in Small(0) |-> 0]
    <2>1. ASSUME NEW s \in Small(0) PROVE s = {}
      BY FS_EmptySet, FS_CardinalityType DEF Small
    <2>2. \A s \in Small(0) : g[s] = Summed(g, s)
      BY <2>1 DEF Summed
    <2>3. g \in [Small(0) -> Nat]
      OBVIOUS
    <2> HIDE DEF g
    <2> QED BY <2>2, <2>3
  <1>2. ASSUME NEW m \in Nat, m \in all PROVE m + 1 \in all
    <2>1. PICK g \in [Small(m) -> Nat] : \A s \in Small(m) : g[s] = Summed(g, s)
      BY <1>2
    <2> DEFINE h == [s \in Small(m + 1) |-> IF s \in Small(m) THEN g[s] ELSE Summed(g, s)]
    <2>2. Small(m) \subseteq Small(m + 1)
      BY FS_CardinalityType DEF Small
    <2>3. ASSUME NEW s \in Small(m + 1), s # {}
          PROVE  s \ {First(s)} \in Small(m) /\ Cost[First(s)] \in Nat
      BY <2>3, Smaller
    <2>4. \A s \in Small(m + 1) : Summed(g, s) \in Nat
      BY <2>1, <2>3 DEF Summed
    <2>5. h \in [Small(m + 1) -> Nat]
      BY <2>1, <2>4
    <2>6. ASSUME NEW s \in Small(m + 1) PROVE h[s] = Summed(h, s)
      <3>1. s # {} => h[s \ {First(s)}] = g[s \ {First(s)}]
        BY <2>2, <2>3
      <3>2. Summed(h, s) = Summed(g, s)
        BY <3>1 DEF Summed
      <3> QED BY <2>1, <3>2
    <2> HIDE DEF h
    <2>7. Has(m + 1)
      BY <2>5, <2>6
    <2> HIDE DEF Has
    <2> QED BY <2>7
  <1>3. Nat \subseteq all
    <2> HIDE DEF all
    <2> QED BY <1>1, <1>2, Counting
  <1> QED BY <1>3

LEMMA SumsExist ==
  ASSUME NEW S \in SUBSET Objects, IsFiniteSet(S)
  PROVE  \E g : Sums(g, S)
  <1>1. Cardinality(S) \in Nat
    BY FS_CardinalityType
  <1>2. PICK g \in [Small(Cardinality(S)) -> Nat] :
          \A s \in Small(Cardinality(S)) : g[s] = Summed(g, s)
    BY <1>1, PartialSums
  <1>3. SUBSET S \subseteq Small(Cardinality(S))
    BY FS_Subset DEF Small
  <1> DEFINE h == [s \in SUBSET S |-> g[s]]
  <1>4. ASSUME NEW s \in SUBSET S PROVE h[s] = Summed(h, s)
    BY <1>2, <1>3 DEF Summed
  <1>5. h = [s \in SUBSET S |-> h[s]]
    OBVIOUS
  <1> HIDE DEF h
  <1>6. Sums(h, S)
    BY <1>4, <1>5 DEF Sums
  <1> QED BY <1>6

\* Sums over different sets agree on what they share.
LEMMA SumsAgree ==
  ASSUME NEW S \in SUBSET Objects, NEW R \in SUBSET Objects, NEW g, NEW h, Sums(g, S), Sums(h, R),
         NEW s, s \subseteq S, s \subseteq R, IsFiniteSet(s)
  PROVE  g[s] = h[s] /\ g[s] \in Nat
  <1> USE CacheAssumption
  <1> DEFINE all == {m \in Nat : \A t \in Small(m) : t \subseteq S /\ t \subseteq R => g[t] = h[t] /\ g[t] \in Nat}
  <1>0. /\ \A t \in SUBSET S : g[t] = Summed(g, t)
        /\ \A t \in SUBSET R : h[t] = Summed(h, t)
    BY DEF Sums
  <1>1. 0 \in all
    <2>1. ASSUME NEW t \in Small(0) PROVE t = {}
      BY FS_EmptySet, FS_CardinalityType DEF Small
    <2>2. g[{}] = 0 /\ h[{}] = 0
      BY <1>0 DEF Summed
    <2> QED BY <2>1, <2>2
  <1>2. ASSUME NEW m \in Nat, m \in all PROVE m + 1 \in all
    <2> SUFFICES ASSUME NEW t \in Small(m + 1), t \subseteq S, t \subseteq R
                 PROVE  g[t] = h[t] /\ g[t] \in Nat
      OBVIOUS
    <2>1. g[t] = Summed(g, t) /\ h[t] = Summed(h, t)
      BY <1>0
    <2>2. CASE t = {}
      BY <2>1, <2>2 DEF Summed
    <2>3. CASE t # {}
      <3>1. t \ {First(t)} \in Small(m) /\ First(t) \in Objects
        BY <2>3, Smaller
      <3>2. g[t \ {First(t)}] = h[t \ {First(t)}] /\ g[t \ {First(t)}] \in Nat
        BY <1>2, <3>1
      <3> QED BY <2>1, <2>3, <3>1, <3>2 DEF Summed
    <2> QED BY <2>2, <2>3
  <1>3. Nat \subseteq all
    <2> HIDE DEF all
    <2> QED BY <1>1, <1>2, Counting
  <1>4. Cardinality(s) \in Nat /\ s \in Small(Cardinality(s))
    BY FS_CardinalityType DEF Small
  <1> QED BY <1>3, <1>4

LEMMA CostUnfolds ==
  ASSUME NEW S \in SUBSET Objects, IsFiniteSet(S)
  PROVE  /\ CostOf(S) \in Nat
         /\ S = {} => CostOf(S) = 0
         /\ S # {} => CostOf(S) = Cost[First(S)] + CostOf(S \ {First(S)})
  <1> DEFINE g == CHOOSE f : Sums(f, S)
  <1>1. Sums(g, S)
    BY SumsExist
  <1>2. CostOf(S) = g[S]
    BY CostIs
  <1> HIDE DEF g
  <1>3. g[S] \in Nat
    BY <1>1, SumsAgree
  <1>4. g[S] = Summed(g, S)
    BY <1>1 DEF Sums
  <1>5. ASSUME S # {} PROVE g[S \ {First(S)}] = CostOf(S \ {First(S)})
    <2> DEFINE R == S \ {First(S)}
               h == CHOOSE f : Sums(f, R)
    <2>1. IsFiniteSet(R) /\ R \in SUBSET Objects
      BY FS_RemoveElement
    <2>2. Sums(h, R)
      BY <2>1, SumsExist
    <2>3. CostOf(R) = h[R]
      BY CostIs
    <2> HIDE DEF h
    <2>4. g[R] = h[R]
      <3>1. R \subseteq S /\ R \subseteq R
        OBVIOUS
      <3> HIDE DEF R
      <3> QED BY <1>1, <2>1, <2>2, <3>1, SumsAgree
    <2> QED BY <2>3, <2>4
  <1> QED BY <1>2, <1>3, <1>4, <1>5 DEF Summed

\* The sum over a set and one more.
LEMMA CostAdds ==
  ASSUME NEW S \in SUBSET Objects, IsFiniteSet(S), NEW o \in S
  PROVE  CostOf(S) = Cost[o] + CostOf(S \ {o})
  <1> USE CacheAssumption
  <1> DEFINE all == {m \in Nat : \A t \in Small(m) : \A x \in t : CostOf(t) = Cost[x] + CostOf(t \ {x})}
  <1>1. 0 \in all
    <2>1. ASSUME NEW t \in Small(0) PROVE t = {}
      BY FS_EmptySet, FS_CardinalityType DEF Small
    <2> QED BY <2>1
  <1>2. ASSUME NEW m \in Nat, m \in all PROVE m + 1 \in all
    <2> SUFFICES ASSUME NEW t \in Small(m + 1), NEW x \in t
                 PROVE  CostOf(t) = Cost[x] + CostOf(t \ {x})
      OBVIOUS
    <2>1. PICK c : c = First(t)
      OBVIOUS
    <2>2. c \in t /\ c \in Objects /\ x \in Objects /\ t \in SUBSET Objects /\ IsFiniteSet(t)
          /\ t \ {c} \in Small(m)
      BY <2>1, Smaller DEF Small
    <2>3. CostOf(t) = Cost[c] + CostOf(t \ {c})
      BY <2>1, <2>2, CostUnfolds
    <2>4. CASE x = c
      BY <2>3, <2>4
    <2>5. CASE x # c
      <3>1. CostOf(t \ {c}) = Cost[x] + CostOf((t \ {c}) \ {x})
        BY <1>2, <2>2, <2>5
      <3>2. t \ {x} \in Small(m)
        <4>1. IsFiniteSet(t \ {x}) /\ Cardinality(t \ {x}) = Cardinality(t) - 1
          BY <2>2, FS_RemoveElement
        <4>2. Cardinality(t) \in Nat /\ Cardinality(t) <= m + 1
          BY <2>2, FS_CardinalityType DEF Small
        <4> QED BY <2>2, <4>1, <4>2 DEF Small
      <3>3. CostOf(t \ {x}) = Cost[c] + CostOf((t \ {x}) \ {c})
        BY <1>2, <2>2, <2>5, <3>2
      <3>4. (t \ {c}) \ {x} = (t \ {x}) \ {c}
        OBVIOUS
      <3>5. CostOf((t \ {c}) \ {x}) \in Nat
        <4>1. IsFiniteSet((t \ {c}) \ {x})
          BY <2>2, FS_RemoveElement
        <4> QED BY <2>2, <4>1, CostUnfolds
      <3> QED BY <2>2, <2>3, <3>1, <3>3, <3>4, <3>5
    <2> QED BY <2>4, <2>5
  <1>3. Nat \subseteq all
    <2> HIDE DEF all
    <2> QED BY <1>1, <1>2, Counting
  <1>4. Cardinality(S) \in Nat /\ S \in Small(Cardinality(S))
    BY FS_CardinalityType DEF Small
  <1> QED BY <1>3, <1>4

LEMMA CostShrinks ==
  ASSUME NEW S \in SUBSET Objects, IsFiniteSet(S), NEW R \in SUBSET S
  PROVE  CostOf(R) <= CostOf(S) /\ CostOf(R) \in Nat /\ CostOf(S) \in Nat
  <1> USE CacheAssumption
  <1> DEFINE all == {m \in Nat : \A t \in Small(m) : \A u \in SUBSET t : CostOf(u) <= CostOf(t)}
  <1>0. ASSUME NEW t \in SUBSET Objects, IsFiniteSet(t), NEW u \in SUBSET t
        PROVE  CostOf(u) \in Nat /\ IsFiniteSet(u) /\ u \in SUBSET Objects
    <2>1. IsFiniteSet(u) /\ u \in SUBSET Objects
      BY <1>0, FS_Subset
    <2> QED BY <2>1, CostUnfolds
  <1>1. 0 \in all
    <2>1. ASSUME NEW t \in Small(0) PROVE t = {}
      BY FS_EmptySet, FS_CardinalityType DEF Small
    <2>2. CostOf({}) \in Nat
      BY FS_EmptySet, CostUnfolds
    <2>3. ASSUME NEW t \in Small(0), NEW u \in SUBSET t PROVE CostOf(u) <= CostOf(t)
      <3>1. t = {} /\ u = {}
        BY <2>1
      <3> QED BY <2>2, <3>1
    <2> QED BY <2>3
  <1>2. ASSUME NEW m \in Nat, m \in all PROVE m + 1 \in all
    <2> SUFFICES ASSUME NEW t \in Small(m + 1), NEW u \in SUBSET t
                 PROVE  CostOf(u) <= CostOf(t)
      OBVIOUS
    <2>1. t \in SUBSET Objects /\ IsFiniteSet(t) /\ CostOf(t) \in Nat /\ CostOf(u) \in Nat
      BY <1>0 DEF Small
    <2>2. CASE u = t
      BY <2>1, <2>2
    <2>3. CASE u # t
      <3>1. PICK x \in t : x \notin u
        BY <2>3
      <3>2. IsFiniteSet(t \ {x}) /\ Cardinality(t \ {x}) = Cardinality(t) - 1
        BY <2>1, FS_RemoveElement
      <3>3. Cardinality(t) \in Nat /\ Cardinality(t) <= m + 1
        BY <2>1, FS_CardinalityType DEF Small
      <3>4. t \ {x} \in Small(m)
        BY <2>1, <3>2, <3>3 DEF Small
      <3>5. u \in SUBSET (t \ {x})
        BY <3>1
      <3>6. CostOf(u) <= CostOf(t \ {x})
        BY <1>2, <3>4, <3>5
      <3>7. CostOf(t) = Cost[x] + CostOf(t \ {x}) /\ CostOf(t \ {x}) \in Nat
        <4>1. t \ {x} \in SUBSET t
          OBVIOUS
        <4> QED BY <1>0, <2>1, <4>1, CostAdds
      <3> QED BY <2>1, <3>6, <3>7
    <2> QED BY <2>2, <2>3
  <1>3. Nat \subseteq all
    <2> HIDE DEF all
    <2> QED BY <1>1, <1>2, Counting
  <1>4. Cardinality(S) \in Nat /\ S \in Small(Cardinality(S))
    BY FS_CardinalityType DEF Small
  <1> QED BY <1>0, <1>3, <1>4

Leases == [at : {"out", "scan", "evict", "fill", "pin", "reading"},
           object : Objects \cup {NoObject}, victims : Seq(Objects)]

ShelfTyped == /\ shelf \in Seq(Objects) /\ IsInjective(shelf)
              /\ stale \subseteq ToSet(shelf)
              /\ filling \in Objects \cup {NoObject}

LeasesTyped ==
  /\ reader \in [Readers -> Leases] /\ keeper \in Readers \cup {NoReader}
  /\ \A r \in Readers : /\ reader[r].at \in {"scan", "evict", "fill", "pin"} <=> keeper = r
                        /\ reader[r].at # "out" => reader[r].object \in Objects

\* What the disk holds fits; whoever fills has reserved the room for a new entry.
OnDisk == ToSet(shelf) \cup ({filling} \ {NoObject})
RoomKept ==
  /\ CostOf(OnDisk) <= Cap
  /\ \A r \in Readers :
       /\ In(r, "evict") \/ In(r, "pin") => filling = NoObject
       /\ In(r, "fill") => filling = reader[r].object /\ filling \notin ToSet(shelf)
       /\ In(r, "pin") \/ In(r, "reading") => reader[r].object \in ToSet(shelf)

CacheInv == ShelfTyped /\ LeasesTyped /\ RoomKept

LEMMA ShelfSums ==
  ASSUME ShelfTyped
  PROVE  /\ ToSet(shelf) \in SUBSET Objects /\ IsFiniteSet(ToSet(shelf))
         /\ OnDisk \in SUBSET Objects /\ IsFiniteSet(OnDisk)
         /\ \A S \in SUBSET OnDisk : CostOf(S) <= CostOf(OnDisk) /\ CostOf(S) \in Nat
  <1>1. ToSet(shelf) \in SUBSET Objects /\ IsFiniteSet(ToSet(shelf))
    BY Elements, FiniteElements DEF ShelfTyped
  <1>2. OnDisk \in SUBSET Objects
    BY <1>1 DEF OnDisk, ShelfTyped
  <1>3. IsFiniteSet(OnDisk)
    <2>1. CASE filling = NoObject
      <3>1. OnDisk = ToSet(shelf)
        BY <2>1 DEF OnDisk
      <3> QED BY <1>1, <3>1
    <2>2. CASE filling # NoObject
      <3>1. OnDisk = ToSet(shelf) \cup {filling}
        BY <2>2 DEF OnDisk
      <3> QED BY <1>1, <3>1, FS_AddElement
    <2> QED BY <2>1, <2>2
  <1> QED BY <1>1, <1>2, <1>3, CostShrinks

LEMMA CacheStarts == CacheInit => CacheInv
  <1> SUFFICES ASSUME CacheInit PROVE CacheInv
    OBVIOUS
  <1> USE CacheAssumption DEF CacheInit
  <1>1. <<>> \in Seq(Objects) /\ ToSet(<<>>) = {} /\ IsInjective(<<>>)
    <2>1. <<>> \in Seq(Objects) /\ IsInjective(<<>>)
      BY DEF IsInjective
    <2> QED BY <2>1, Elements
  <1>2. ShelfTyped
    BY <1>1 DEF ShelfTyped
  <1>3. Outside \in Leases /\ Outside.at = "out"
    BY <1>1 DEF Outside, Leases
  <1>4. LeasesTyped
    BY <1>3 DEF LeasesTyped
  <1>5. OnDisk = {}
    BY <1>1 DEF OnDisk
  <1>6. CostOf({}) = 0
    BY FS_EmptySet, CostUnfolds
  <1>7. RoomKept
    BY <1>3, <1>5, <1>6 DEF RoomKept, In
  <1> QED BY <1>2, <1>4, <1>7 DEF CacheInv

\* What a removal leaves.
LEMMA Trimmed ==
  ASSUME ShelfTyped, NEW S, S \subseteq Objects
  PROVE  /\ Only(shelf, S) \in Seq(Objects) /\ IsInjective(Only(shelf, S))
         /\ ToSet(Only(shelf, S)) = ToSet(shelf) \cap S
  <1>1. shelf \in Seq(Objects) /\ IsInjective(shelf)
    BY DEF ShelfTyped
  <1>2. Only(shelf, S) \in Seq(Objects \cap S) /\ ToSet(Only(shelf, S)) = ToSet(shelf) \cap S
    BY <1>1, OnlyKeeps
  <1>3. Objects \cap S \subseteq Objects
    OBVIOUS
  <1>4. Only(shelf, S) \in Seq(Objects)
    BY <1>2, <1>3
  <1> QED BY <1>1, <1>2, <1>4, OnlyInjective

LEMMA ShelfKept ==
  ASSUME CacheInv, CacheNext
  PROVE  ShelfTyped'
  <1> USE CacheAssumption
  <1>1. /\ shelf \in Seq(Objects) /\ IsInjective(shelf) /\ stale \subseteq ToSet(shelf)
        /\ filling \in Objects \cup {NoObject} /\ ShelfTyped
    BY DEF CacheInv, ShelfTyped
  <1>2. ASSUME NEW r \in Readers, Scan(r) PROVE ShelfTyped'
    <2>1. PICK left : left = Only(shelf, Objects \ Expired)
      OBVIOUS
    <2>2. left \in Seq(Objects) /\ IsInjective(left) /\ ToSet(left) = ToSet(shelf) \cap (Objects \ Expired)
      BY <1>1, <2>1, Trimmed
    <2>3. ToSet(shelf) \subseteq Objects
      BY <1>1, Elements
    <2>4. shelf' = left /\ stale' = stale \ Expired /\ filling' = NoObject
      BY <1>2, <2>1 DEF Scan
    <2> QED BY <1>1, <2>2, <2>3, <2>4 DEF ShelfTyped
  <1>3. ASSUME NEW r \in Readers, Evict(r) PROVE ShelfTyped'
    <2>1. PICK o : o = Head(reader[r].victims)
      OBVIOUS
    <2>2. CASE shelf' = Only(shelf, Objects \ {o}) /\ stale' = stale \ {o}
      <3>1. /\ Only(shelf, Objects \ {o}) \in Seq(Objects) /\ IsInjective(Only(shelf, Objects \ {o}))
            /\ ToSet(Only(shelf, Objects \ {o})) = ToSet(shelf) \cap (Objects \ {o})
        BY <1>1, Trimmed
      <3>2. ToSet(shelf) \subseteq Objects
        BY <1>1, Elements
      <3>3. filling' = filling
        BY <1>3 DEF Evict
      <3> HIDE DEF Only
      <3> QED BY <1>1, <2>2, <3>1, <3>2, <3>3 DEF ShelfTyped
    <2>3. CASE UNCHANGED <<shelf, stale>>
      BY <1>1, <1>3, <2>3 DEF Evict, ShelfTyped
    <2> QED BY <1>3, <2>1, <2>2, <2>3 DEF Evict
  <1>4. ASSUME NEW r \in Readers, Reserve(r) PROVE ShelfTyped'
    <2>1. reader[r].object \in Objects
      BY <1>4 DEF CacheInv, LeasesTyped, Reserve, In
    <2> QED BY <1>1, <1>4, <2>1 DEF Reserve, ShelfTyped
  <1>5. ASSUME NEW r \in Readers, Fill(r) PROVE ShelfTyped'
    <2>1. reader[r].object \in Objects /\ reader[r].object \notin ToSet(shelf)
      BY <1>5 DEF CacheInv, LeasesTyped, RoomKept, Fill, In
    <2>2. PICK o : o = reader[r].object
      OBVIOUS
    <2>3. Append(shelf, o) \in Seq(Objects) /\ ToSet(Append(shelf, o)) = ToSet(shelf) \cup {o}
      BY <1>1, <2>1, <2>2, Appended
    <2>4. IsInjective(Append(shelf, o))
      BY <1>1, <2>1, <2>2, InjectiveAppended
    <2>5. shelf' = Append(shelf, o) /\ filling' = NoObject /\ stale' = stale
      BY <1>5, <2>2 DEF Fill
    <2> QED BY <1>1, <2>3, <2>4, <2>5 DEF ShelfTyped
  <1>6. ASSUME NEW r \in Readers, Pin(r) PROVE ShelfTyped'
    <2>1. PICK o : o = reader[r].object
      OBVIOUS
    <2>2. o \in Objects
      BY <1>6, <2>1 DEF CacheInv, LeasesTyped, Pin, In
    <2>3. PICK left : left = Only(shelf, Objects \ {o})
      OBVIOUS
    <2>4. left \in Seq(Objects) /\ IsInjective(left) /\ ToSet(left) = ToSet(shelf) \cap (Objects \ {o})
      BY <1>1, <2>3, Trimmed
    <2>5. Append(left, o) \in Seq(Objects) /\ ToSet(Append(left, o)) = ToSet(left) \cup {o}
      BY <2>2, <2>4, Appended
    <2>6. IsInjective(Append(left, o))
      BY <2>2, <2>4, InjectiveAppended
    <2>7. ToSet(shelf) \subseteq Objects
      BY <1>1, Elements
    <2>8. shelf' = Append(left, o) /\ stale' = stale \ {o} /\ filling' = filling
      BY <1>6, <2>1, <2>3 DEF Pin
    <2> QED BY <1>1, <2>4, <2>5, <2>6, <2>7, <2>8 DEF ShelfTyped
  <1>7. ASSUME NEW o \in Objects, GrowsStale(o) PROVE ShelfTyped'
    BY <1>1, <1>7 DEF GrowsStale, ShelfTyped
  <1>8. ASSUME NEW r \in Readers,
               (\E o \in Objects : Enter(r, o)) \/ NoRoom(r) \/ FillFails(r) \/ Close(r) \/ ReaderKilled(r)
        PROVE  ShelfTyped'
    BY <1>1, <1>8 DEF Enter, NoRoom, FillFails, Close, ReaderKilled, ShelfTyped
  <1> QED BY <1>2, <1>3, <1>4, <1>5, <1>6, <1>7, <1>8 DEF CacheNext

\* No step but those of the lease's own reader touches it.
LEMMA LeaseOf ==
  ASSUME LeasesTyped, NEW r \in Readers, NEW lease \in Leases, reader' = [reader EXCEPT ![r] = lease]
  PROVE  /\ reader' \in [Readers -> Leases] /\ reader'[r] = lease
         /\ \A q \in Readers : q # r => reader'[q] = reader[q]
  BY DEF LeasesTyped

LEMMA LeasesKept ==
  ASSUME CacheInv, CacheNext
  PROVE  LeasesTyped'
  <1> USE CacheAssumption
  <1>1. /\ reader \in [Readers -> Leases] /\ keeper \in Readers \cup {NoReader}
        /\ \A q \in Readers : /\ reader[q].at \in {"scan", "evict", "fill", "pin"} <=> keeper = q
                              /\ reader[q].at # "out" => reader[q].object \in Objects
        /\ LeasesTyped /\ ShelfTyped /\ shelf \in Seq(Objects)
    BY DEF CacheInv, LeasesTyped, ShelfTyped
  <1>2. Outside \in Leases /\ Outside.at = "out"
    <2>1. <<>> \in Seq(Objects)
      OBVIOUS
    <2> QED BY <2>1 DEF Outside, Leases
  <1>3. ASSUME NEW r \in Readers, NEW lease \in Leases, reader' = [reader EXCEPT ![r] = lease],
               lease.at # "out" => lease.object \in Objects,
               \/ keeper' = r /\ keeper \in {r, NoReader} /\ lease.at \in {"scan", "evict", "fill", "pin"}
               \/ keeper' = NoReader /\ keeper \in {r, NoReader} /\ lease.at \in {"out", "reading"}
               \/ keeper' = keeper /\ keeper # r /\ lease.at \in {"out", "reading"}
        PROVE  LeasesTyped'
    <2>1. /\ reader' \in [Readers -> Leases] /\ reader'[r] = lease
          /\ \A q \in Readers : q # r => reader'[q] = reader[q]
      BY <1>1, <1>3, LeaseOf
    <2> QED BY <1>1, <1>3, <2>1 DEF LeasesTyped
  <1>4. ASSUME NEW r \in Readers, NEW o \in Objects, Enter(r, o) PROVE LeasesTyped'
    <2> DEFINE lease == [Outside EXCEPT !.at = "scan", !.object = o]
    <2>1. lease \in Leases /\ lease.at = "scan" /\ lease.object = o
      BY <1>2 DEF Leases
    <2>2. reader' = [reader EXCEPT ![r] = lease] /\ keeper' = r /\ keeper = NoReader
      BY <1>4 DEF Enter
    <2> HIDE DEF lease
    <2> QED BY <1>3, <2>1, <2>2
  <1>5. ASSUME NEW r \in Readers, Scan(r) PROVE LeasesTyped'
    <2>1. PICK left : left = Only(shelf, Objects \ Expired)
      OBVIOUS
    <2>2. left \in Seq(Objects)
      BY <1>1, <2>1, Trimmed
    <2> DEFINE lease == [reader[r] EXCEPT !.at = "evict", !.victims = left]
    <2>3. reader[r].at = "scan" /\ reader[r] \in Leases /\ keeper = r /\ keeper' = r
      BY <1>1, <1>5 DEF Scan, In
    <2>4. lease \in Leases /\ lease.at = "evict" /\ lease.object = reader[r].object
      BY <2>2, <2>3 DEF Leases
    <2>5. reader' = [reader EXCEPT ![r] = lease]
      BY <1>1, <1>5, <2>1 DEF Scan
    <2> HIDE DEF lease
    <2>6. lease.object \in Objects
      BY <1>1, <2>3, <2>4
    <2> QED BY <1>3, <2>3, <2>4, <2>5, <2>6
  <1>6. ASSUME NEW r \in Readers, Evict(r) PROVE LeasesTyped'
    <2> DEFINE lease == [reader[r] EXCEPT !.victims = Tail(reader[r].victims)]
    <2>1. /\ reader[r].at = "evict" /\ reader[r] \in Leases /\ keeper = r /\ keeper' = r
          /\ reader[r].victims # <<>> /\ reader[r].victims \in Seq(Objects)
      BY <1>1, <1>6 DEF Evict, In, Leases
    <2>2. Tail(reader[r].victims) \in Seq(Objects)
      BY <2>1
    <2>3. lease \in Leases /\ lease.at = "evict" /\ lease.object = reader[r].object
      BY <2>1, <2>2 DEF Leases
    <2>4. reader' = [reader EXCEPT ![r] = lease]
      BY <1>1, <1>6 DEF Evict
    <2> HIDE DEF lease
    <2>5. lease.object \in Objects
      BY <1>1, <2>1, <2>3
    <2> QED BY <1>3, <2>1, <2>3, <2>4, <2>5
  <1>7. ASSUME NEW r \in Readers, NEW at \in {"fill", "pin"}, reader[r].at \in {"evict", "fill"},
               Onto(r, at), keeper' = keeper
        PROVE  LeasesTyped'
    <2> DEFINE lease == [reader[r] EXCEPT !.at = at]
    <2>1. reader[r] \in Leases /\ keeper = r /\ keeper' = r /\ reader[r].object \in Objects
      BY <1>1, <1>7
    <2>2. lease \in Leases /\ lease.at = at /\ lease.object = reader[r].object
      BY <2>1 DEF Leases
    <2>3. reader' = [reader EXCEPT ![r] = lease]
      BY <1>1, <1>7 DEF Onto
    <2> HIDE DEF lease
    <2> QED BY <1>3, <2>1, <2>2, <2>3
  <1>8. ASSUME NEW r \in Readers, Reserve(r) \/ Fill(r) PROVE LeasesTyped'
    BY <1>7, <1>8 DEF Reserve, Fill, In
  <1>9. ASSUME NEW r \in Readers, Pin(r) PROVE LeasesTyped'
    <2>1. PICK o : o = reader[r].object
      OBVIOUS
    <2>2. o \in Objects /\ keeper = r
      BY <1>1, <1>9, <2>1 DEF Pin, In
    <2> DEFINE lease == [Outside EXCEPT !.at = "reading", !.object = o]
    <2>3. lease \in Leases /\ lease.at = "reading" /\ lease.object = o
      BY <1>2, <2>2 DEF Leases
    <2>4. reader' = [reader EXCEPT ![r] = lease] /\ keeper' = NoReader
      BY <1>9, <2>1 DEF Pin
    <2> HIDE DEF lease
    <2> QED BY <1>3, <2>2, <2>3, <2>4
  <1>10. ASSUME NEW r \in Readers, NoRoom(r) \/ FillFails(r) PROVE LeasesTyped'
    <2>1. reader' = [reader EXCEPT ![r] = Outside] /\ keeper' = NoReader /\ keeper = r
      BY <1>1, <1>10 DEF NoRoom, FillFails, Released, In
    <2> QED BY <1>2, <1>3, <2>1
  <1>11. ASSUME NEW r \in Readers, Close(r) PROVE LeasesTyped'
    <2>1. reader' = [reader EXCEPT ![r] = Outside] /\ keeper' = keeper /\ keeper # r
      BY <1>1, <1>11 DEF Close, In
    <2> QED BY <1>2, <1>3, <2>1
  <1>12. ASSUME NEW r \in Readers, ReaderKilled(r) PROVE LeasesTyped'
    <2>1. /\ reader' = [reader EXCEPT ![r] = Outside]
          /\ keeper' = (IF keeper = r THEN NoReader ELSE keeper)
      BY <1>12 DEF ReaderKilled
    <2> QED BY <1>2, <1>3, <2>1
  <1>13. ASSUME NEW o \in Objects, GrowsStale(o) PROVE LeasesTyped'
    BY <1>1, <1>13 DEF GrowsStale, LeasesTyped
  <1> QED BY <1>4, <1>5, <1>6, <1>8, <1>9, <1>10, <1>11, <1>12, <1>13 DEF CacheNext

LEMMA CostLater == CostOf(OnDisk)' = CostOf(OnDisk')
  BY DEF CostOf, MapThenSumSet, MapThenFoldSet

\* The room: what is on disk shrinks, or grows by what was found to fit.
LEMMA RoomStays ==
  ASSUME CacheInv, CacheNext, ShelfTyped', LeasesTyped'
  PROVE  CostOf(OnDisk)' <= Cap
  <1> USE CacheAssumption
  <1>1. /\ ShelfTyped /\ LeasesTyped /\ shelf \in Seq(Objects) /\ CostOf(OnDisk) <= Cap
        /\ ToSet(shelf) \subseteq Objects
    BY Elements DEF CacheInv, ShelfTyped, RoomKept
  <1>2. ASSUME OnDisk' \subseteq OnDisk PROVE CostOf(OnDisk)' <= Cap
    <2>1. PICK d : d = OnDisk'
      OBVIOUS
    <2>2. CostOf(d) <= CostOf(OnDisk) /\ CostOf(d) \in Nat /\ CostOf(OnDisk) \in Nat
      BY <1>1, <1>2, <2>1, ShelfSums
    <2>3. CostOf(OnDisk)' = CostOf(d)
      BY <2>1, CostLater
    <2> QED BY <1>1, <2>2, <2>3
  <1>3. ASSUME NEW r \in Readers, Scan(r) PROVE OnDisk' \subseteq OnDisk
    <2>1. PICK left : left = Only(shelf, Objects \ Expired)
      OBVIOUS
    <2>2. ToSet(left) \subseteq ToSet(shelf)
      BY <1>1, <2>1, Trimmed
    <2>3. shelf' = left /\ filling' = NoObject
      BY <1>3, <2>1 DEF Scan
    <2> QED BY <2>2, <2>3 DEF OnDisk
  <1>4. ASSUME NEW r \in Readers, Evict(r) PROVE OnDisk' \subseteq OnDisk
    <2>1. PICK o : o = Head(reader[r].victims)
      OBVIOUS
    <2>2. PICK left : left = Only(shelf, Objects \ {o})
      OBVIOUS
    <2>3. ToSet(left) \subseteq ToSet(shelf)
      BY <1>1, <2>2, Trimmed
    <2>4. shelf' \in {left, shelf} /\ filling' = filling
      BY <1>4, <2>1, <2>2 DEF Evict
    <2> QED BY <2>3, <2>4 DEF OnDisk
  <1>5. ASSUME NEW r \in Readers, Reserve(r) PROVE CostOf(OnDisk)' <= Cap
    <2>1. CASE Hit(r)
      <3>1. OnDisk' = OnDisk
        BY <1>5, <2>1 DEF Reserve, OnDisk
      <3> QED BY <1>2, <3>1
    <2>2. CASE ~Hit(r)
      <3>1. PICK o : o = reader[r].object
        OBVIOUS
      <3>2. PICK s : s = ToSet(shelf)
        OBVIOUS
      <3>3. o \in Objects /\ o \notin s /\ s \in SUBSET Objects /\ IsFiniteSet(s)
        BY <1>1, <1>5, <2>2, <3>1, <3>2, ShelfSums DEF Reserve, In, Hit, LeasesTyped
      <3>4. CostOf(s) + Cost[o] <= Cap
        BY <1>5, <2>2, <3>1, <3>2 DEF Reserve, Fits, Used
      <3>5. shelf' = shelf /\ filling' = o
        BY <1>5, <2>2, <3>1 DEF Reserve
      <3>6. OnDisk' = s \cup {o}
        BY <3>2, <3>3, <3>5 DEF OnDisk
      <3>7. CostOf(s \cup {o}) = Cost[o] + CostOf((s \cup {o}) \ {o})
        <4>1. s \cup {o} \in SUBSET Objects /\ IsFiniteSet(s \cup {o}) /\ o \in s \cup {o}
          BY <3>3, FS_AddElement
        <4> QED BY <4>1, CostAdds
      <3>8. (s \cup {o}) \ {o} = s
        BY <3>3
      <3>9. CostOf(s) \in Nat /\ Cost[o] \in Nat
        BY <3>3, CostUnfolds
      <3>10. CostOf(s \cup {o}) <= Cap
        BY <3>4, <3>7, <3>8, <3>9
      <3>11. CostOf(OnDisk)' = CostOf(OnDisk')
        BY CostLater
      <3> QED BY <3>6, <3>10, <3>11
    <2> QED BY <2>1, <2>2
  <1>6. ASSUME NEW r \in Readers, Fill(r) PROVE OnDisk' \subseteq OnDisk
    <2>1. PICK o : o = reader[r].object
      OBVIOUS
    <2>2. o \in Objects /\ filling = o
      BY <1>6, <2>1 DEF Fill, In, CacheInv, RoomKept, LeasesTyped
    <2>3. ToSet(Append(shelf, o)) = ToSet(shelf) \cup {o}
      BY <1>1, <2>2, Appended
    <2>4. shelf' = Append(shelf, o) /\ filling' = NoObject
      BY <1>6, <2>1 DEF Fill
    <2> QED BY <2>2, <2>3, <2>4 DEF OnDisk
  <1>7. ASSUME NEW r \in Readers, Pin(r) PROVE OnDisk' \subseteq OnDisk
    <2>1. PICK o : o = reader[r].object
      OBVIOUS
    <2>2. o \in Objects /\ o \in ToSet(shelf)
      BY <1>7, <2>1 DEF Pin, In, CacheInv, RoomKept, LeasesTyped
    <2>3. PICK left : left = Only(shelf, Objects \ {o})
      OBVIOUS
    <2>4. left \in Seq(Objects) /\ ToSet(left) \subseteq ToSet(shelf)
      BY <1>1, <2>3, Trimmed
    <2>5. ToSet(Append(left, o)) = ToSet(left) \cup {o}
      BY <2>2, <2>4, Appended
    <2>6. shelf' = Append(left, o) /\ filling' = filling
      BY <1>7, <2>1, <2>3 DEF Pin
    <2> QED BY <2>2, <2>4, <2>5, <2>6 DEF OnDisk
  <1>8. ASSUME NEW r \in Readers,
               (\E o \in Objects : Enter(r, o)) \/ NoRoom(r) \/ FillFails(r) \/ Close(r) \/ ReaderKilled(r)
        PROVE  OnDisk' \subseteq OnDisk
    BY <1>8 DEF Enter, NoRoom, FillFails, Close, ReaderKilled, OnDisk
  <1>9. ASSUME NEW o \in Objects, GrowsStale(o) PROVE OnDisk' \subseteq OnDisk
    BY <1>9 DEF GrowsStale, OnDisk
  <1> QED BY <1>2, <1>3, <1>4, <1>5, <1>6, <1>7, <1>8, <1>9 DEF CacheNext

\* What readers count on, with the entries e and the reserved object f.
Counted(lease, e, f) ==
  /\ lease.at \in {"evict", "pin"} => f = NoObject
  /\ lease.at = "fill" => f = lease.object /\ f \notin e
  /\ lease.at \in {"pin", "reading"} => lease.object \in e

LEMMA RoomCounts ==
  RoomKept <=> CostOf(OnDisk) <= Cap /\ \A r \in Readers : Counted(reader[r], ToSet(shelf), filling)
  BY DEF RoomKept, Counted, In

LEMMA ClaimsKept ==
  ASSUME CacheInv, CacheNext, ShelfTyped', LeasesTyped'
  PROVE  \A r \in Readers : Counted(reader'[r], ToSet(shelf'), filling')
  <1> USE CacheAssumption
  <1>1. /\ reader \in [Readers -> Leases]
        /\ \A q \in Readers : /\ reader[q].at \in {"scan", "evict", "fill", "pin"} <=> keeper = q
                              /\ reader[q].at # "out" => reader[q].object \in Objects
        /\ LeasesTyped /\ ShelfTyped /\ shelf \in Seq(Objects) /\ ToSet(shelf) \subseteq Objects
    BY Elements DEF CacheInv, LeasesTyped, ShelfTyped
  <1>2. \A q \in Readers : Counted(reader[q], ToSet(shelf), filling)
    BY RoomCounts DEF CacheInv
  <1>3. ASSUME NEW r \in Readers, NEW lease, reader' = [reader EXCEPT ![r] = lease],
               NEW e, e = ToSet(shelf'), Counted(lease, e, filling'),
               \/ keeper = r /\ \A q \in Readers \ {r} : reader[q].at = "reading" => reader[q].object \in e
               \/ e = ToSet(shelf) /\ filling' = filling
        PROVE  \A q \in Readers : Counted(reader'[q], ToSet(shelf'), filling')
    <2> SUFFICES ASSUME NEW q \in Readers PROVE Counted(reader'[q], e, filling')
      BY <1>3
    <2>1. CASE q = r
      <3>1. reader'[q] = lease
        BY <1>1, <1>3, <2>1
      <3> QED BY <1>3, <3>1
    <2>2. CASE q # r
      <3>1. reader'[q] = reader[q] /\ Counted(reader[q], ToSet(shelf), filling)
        BY <1>1, <1>2, <1>3, <2>2
      <3>2. CASE keeper = r /\ \A p \in Readers \ {r} : reader[p].at = "reading" => reader[p].object \in e
        <4>1. reader[q].at \notin {"evict", "fill", "pin"}
          BY <1>1, <2>2, <3>2
        <4> QED BY <2>2, <3>1, <3>2, <4>1 DEF Counted
      <3>3. CASE e = ToSet(shelf) /\ filling' = filling
        BY <3>1, <3>3
      <3> QED BY <1>3, <3>2, <3>3
    <2> QED BY <2>1, <2>2
  <1>4. Counted(Outside, ToSet(shelf'), filling')
    BY DEF Counted, Outside
  <1> DEFINE Claims == \A q \in Readers : Counted(reader'[q], ToSet(shelf'), filling')
  <1>5. ASSUME NEW r \in Readers, NEW o \in Objects, Enter(r, o) PROVE Claims
    <2> DEFINE lease == [Outside EXCEPT !.at = "scan", !.object = o]
    <2>1. reader' = [reader EXCEPT ![r] = lease] /\ shelf' = shelf /\ filling' = filling
      BY <1>5 DEF Enter
    <2>2. Counted(lease, ToSet(shelf'), filling')
      BY DEF Counted, Outside
    <2> HIDE DEF lease
    <2> QED BY <1>3, <2>1, <2>2
  <1>6. ASSUME NEW r \in Readers, Scan(r) PROVE Claims
    <2>1. PICK left : left = Only(shelf, Objects \ Expired)
      OBVIOUS
    <2>2. ToSet(left) = ToSet(shelf) \cap (Objects \ Expired)
      BY <1>1, <2>1, Trimmed
    <2> DEFINE lease == [reader[r] EXCEPT !.at = "evict", !.victims = left]
    <2>3. reader[r].at = "scan" /\ reader[r] \in Leases /\ keeper = r
      BY <1>1, <1>6 DEF Scan, In
    <2>4. lease.at = "evict"
      BY <2>3 DEF Leases
    <2>5. reader' = [reader EXCEPT ![r] = lease] /\ shelf' = left /\ filling' = NoObject
      BY <1>1, <1>6, <2>1 DEF Scan
    <2> HIDE DEF lease
    <2>6. Counted(lease, ToSet(shelf'), filling')
      BY <2>4, <2>5 DEF Counted
    <2>7. ASSUME NEW q \in Readers, reader[q].at = "reading" PROVE reader[q].object \in ToSet(shelf')
      <3>1. reader[q].object \in ToSet(shelf)
        BY <1>2, <2>7 DEF Counted
      <3>2. reader[q].object \notin Expired
        BY <2>7 DEF Expired, Unpinned
      <3> QED BY <1>1, <2>2, <2>5, <3>1, <3>2
    <2> QED BY <1>3, <2>3, <2>5, <2>6, <2>7
  <1>7. ASSUME NEW r \in Readers, Evict(r) PROVE Claims
    <2>1. PICK o : o = Head(reader[r].victims)
      OBVIOUS
    <2>2. PICK left : left = Only(shelf, Objects \ {o})
      OBVIOUS
    <2>3. ToSet(left) = ToSet(shelf) \cap (Objects \ {o})
      BY <1>1, <2>2, Trimmed
    <2> DEFINE lease == [reader[r] EXCEPT !.victims = Tail(reader[r].victims)]
    <2>4. reader[r].at = "evict" /\ reader[r] \in Leases /\ keeper = r
      BY <1>1, <1>7 DEF Evict, In
    <2>5. lease.at = "evict" /\ lease.object = reader[r].object
      BY <2>4 DEF Leases
    <2>6. /\ reader' = [reader EXCEPT ![r] = lease] /\ filling' = filling
          /\ (shelf' = left /\ Unpinned(o)) \/ shelf' = shelf
      BY <1>1, <1>7, <2>1, <2>2 DEF Evict
    <2> HIDE DEF lease
    <2>7. filling' = NoObject
      BY <1>2, <2>4, <2>6 DEF Counted
    <2>8. Counted(lease, ToSet(shelf'), filling')
      BY <2>5, <2>7 DEF Counted
    <2>9. ASSUME NEW q \in Readers, reader[q].at = "reading" PROVE reader[q].object \in ToSet(shelf')
      <3>1. reader[q].object \in ToSet(shelf)
        BY <1>2, <2>9 DEF Counted
      <3>2. Unpinned(o) => reader[q].object # o
        BY <2>9 DEF Unpinned
      <3> QED BY <1>1, <2>3, <2>6, <3>1, <3>2
    <2> QED BY <1>3, <2>4, <2>6, <2>8, <2>9
  <1>8. ASSUME NEW r \in Readers, Reserve(r) PROVE Claims
    <2>1. reader[r].at = "evict" /\ reader[r] \in Leases /\ keeper = r /\ reader[r].object \in Objects
      BY <1>1, <1>8 DEF Reserve, In
    <2>2. filling = NoObject /\ shelf' = shelf
      BY <1>2, <1>8, <2>1 DEF Counted, Reserve
    <2>3. PICK at : /\ reader' = [reader EXCEPT ![r] = [reader[r] EXCEPT !.at = at]]
                    /\ \/ at = "pin" /\ filling' = NoObject /\ reader[r].object \in ToSet(shelf)
                       \/ at = "fill" /\ filling' = reader[r].object /\ reader[r].object \notin ToSet(shelf)
      BY <1>1, <1>8, <2>2 DEF Reserve, Onto, Hit
    <2> DEFINE lease == [reader[r] EXCEPT !.at = at]
    <2>4. lease.at = at /\ lease.object = reader[r].object
      BY <2>1 DEF Leases
    <2>5. reader' = [reader EXCEPT ![r] = lease]
      BY <2>3
    <2> HIDE DEF lease
    <2>6. Counted(lease, ToSet(shelf'), filling')
      BY <2>2, <2>3, <2>4 DEF Counted
    <2>7. ASSUME NEW q \in Readers, reader[q].at = "reading" PROVE reader[q].object \in ToSet(shelf')
      BY <1>2, <2>2, <2>7 DEF Counted
    <2> QED BY <1>3, <2>1, <2>5, <2>6, <2>7
  <1>9. ASSUME NEW r \in Readers, Fill(r) PROVE Claims
    <2>1. PICK o : o = reader[r].object
      OBVIOUS
    <2>2. reader[r].at = "fill" /\ reader[r] \in Leases /\ keeper = r /\ o \in Objects
      BY <1>1, <1>9, <2>1 DEF Fill, In
    <2>3. ToSet(Append(shelf, o)) = ToSet(shelf) \cup {o}
      BY <1>1, <2>2, Appended
    <2> DEFINE lease == [reader[r] EXCEPT !.at = "pin"]
    <2>4. lease.at = "pin" /\ lease.object = o
      BY <2>1, <2>2 DEF Leases
    <2>5. reader' = [reader EXCEPT ![r] = lease] /\ shelf' = Append(shelf, o) /\ filling' = NoObject
      BY <1>1, <1>9, <2>1 DEF Fill, Onto
    <2> HIDE DEF lease
    <2>6. Counted(lease, ToSet(shelf'), filling')
      BY <2>3, <2>4, <2>5 DEF Counted
    <2>7. ASSUME NEW q \in Readers, reader[q].at = "reading" PROVE reader[q].object \in ToSet(shelf')
      BY <1>2, <2>3, <2>5, <2>7 DEF Counted
    <2> QED BY <1>3, <2>2, <2>5, <2>6, <2>7
  <1>10. ASSUME NEW r \in Readers, Pin(r) PROVE Claims
    <2>1. PICK o : o = reader[r].object
      OBVIOUS
    <2>2. reader[r].at = "pin" /\ keeper = r /\ o \in Objects /\ o \in ToSet(shelf) /\ filling = NoObject
      BY <1>1, <1>2, <1>10, <2>1 DEF Pin, In, Counted
    <2>3. PICK left : left = Only(shelf, Objects \ {o})
      OBVIOUS
    <2>4. left \in Seq(Objects) /\ ToSet(left) = ToSet(shelf) \cap (Objects \ {o})
      BY <1>1, <2>3, Trimmed
    <2>5. ToSet(Append(left, o)) = ToSet(left) \cup {o}
      BY <2>2, <2>4, Appended
    <2> DEFINE lease == [Outside EXCEPT !.at = "reading", !.object = o]
    <2>6. lease.at = "reading" /\ lease.object = o
      BY DEF Outside
    <2>7. reader' = [reader EXCEPT ![r] = lease] /\ shelf' = Append(left, o) /\ filling' = filling
      BY <1>10, <2>1, <2>3 DEF Pin
    <2> HIDE DEF lease
    <2>8. ToSet(shelf') = ToSet(shelf)
      BY <1>1, <2>2, <2>4, <2>5, <2>7
    <2>9. Counted(lease, ToSet(shelf'), filling')
      BY <2>2, <2>6, <2>8 DEF Counted
    <2>10. ASSUME NEW q \in Readers, reader[q].at = "reading" PROVE reader[q].object \in ToSet(shelf')
      BY <1>2, <2>8, <2>10 DEF Counted
    <2> QED BY <1>3, <2>2, <2>7, <2>9, <2>10
  <1>11. ASSUME NEW r \in Readers, FillFails(r) PROVE Claims
    <2>1. keeper = r /\ reader' = [reader EXCEPT ![r] = Outside] /\ shelf' = shelf
      BY <1>1, <1>11 DEF FillFails, Released, In
    <2>2. ASSUME NEW q \in Readers, reader[q].at = "reading" PROVE reader[q].object \in ToSet(shelf')
      BY <1>2, <2>1, <2>2 DEF Counted
    <2> QED BY <1>3, <1>4, <2>1, <2>2
  <1>12. ASSUME NEW r \in Readers, NoRoom(r) \/ Close(r) \/ ReaderKilled(r) PROVE Claims
    <2>1. reader' = [reader EXCEPT ![r] = Outside] /\ shelf' = shelf /\ filling' = filling
      BY <1>12 DEF NoRoom, Released, Close, ReaderKilled
    <2> QED BY <1>3, <1>4, <2>1
  <1>13. ASSUME NEW o \in Objects, GrowsStale(o) PROVE Claims
    BY <1>2, <1>13 DEF GrowsStale
  <1> HIDE DEF Claims
  <1>14. Claims
    BY <1>5, <1>6, <1>7, <1>8, <1>9, <1>10, <1>11, <1>12, <1>13 DEF CacheNext
  <1> QED BY <1>14 DEF Claims

LEMMA CacheStays == CacheInv /\ [CacheNext]_cacheVars => CacheInv'
  <1> SUFFICES ASSUME CacheInv, [CacheNext]_cacheVars PROVE CacheInv'
    OBVIOUS
  <1>1. CASE CacheNext
    <2>1. ShelfTyped' /\ LeasesTyped'
      BY <1>1, ShelfKept, LeasesKept
    <2>2. CostOf(OnDisk)' <= Cap
      BY <1>1, <2>1, RoomStays
    <2>3. \A r \in Readers : Counted(reader'[r], ToSet(shelf'), filling')
      BY <1>1, <2>1, ClaimsKept
    <2>4. RoomKept'
      BY <2>2, <2>3 DEF RoomKept, Counted, In
    <2> QED BY <2>1, <2>4 DEF CacheInv
  <1>2. CASE UNCHANGED cacheVars
    <2>1. ShelfTyped' /\ LeasesTyped'
      BY <1>2 DEF cacheVars, CacheInv, ShelfTyped, LeasesTyped
    <2>2. RoomKept'
      <3>1. OnDisk' = OnDisk
        BY <1>2 DEF cacheVars, OnDisk
      <3>2. CostOf(OnDisk)' = CostOf(OnDisk')
        BY CostLater
      <3> QED BY <1>2, <3>1, <3>2 DEF cacheVars, CacheInv, RoomKept, In
    <2> QED BY <2>1, <2>2 DEF CacheInv
  <1> QED BY <1>1, <1>2

LEMMA CacheSound == CacheInv => CacheTypeOK /\ CacheKept
  <1> SUFFICES ASSUME CacheInv PROVE CacheTypeOK /\ CacheKept
    OBVIOUS
  <1> USE CacheAssumption DEF CacheInv
  <1>1. ASSUME NEW r \in Readers
        PROVE  /\ reader[r].at \in {"out", "scan", "evict", "fill", "pin", "reading"}
               /\ reader[r].object \in Objects \cup {NoObject} /\ ToSet(reader[r].victims) \subseteq Objects
    <2>1. reader[r] \in Leases
      BY DEF LeasesTyped
    <2>2. reader[r].victims \in Seq(Objects)
      BY <2>1 DEF Leases
    <2>3. ToSet(reader[r].victims) \subseteq Objects
      BY <2>2, Elements
    <2> QED BY <2>1, <2>3 DEF Leases
  <1>2. CacheTypeOK
    BY <1>1 DEF CacheTypeOK, ShelfTyped, LeasesTyped
  <1>3. CacheKept
    BY DEF CacheKept, RoomKept, OnDisk
  <1> QED BY <1>2, <1>3

\* Whatever readers, evictions, fills and kills interleave, and for any number of
\* readers, objects, costs and any cap: what lies in the cache and what a fill has
\* reserved never take more than the cap, and no entry goes while a response is sent
\* from it (acquire, _evict and _remove_idle of blob_cache.py).
THEOREM RoomIsKept == CacheSpec => []CacheKept
  BY CacheStarts, CacheStays, CacheSound, PTL DEF CacheSpec
-----------------------------------------------------------------------------
(* The seven together: a behaviour lets one of them move.                  *)

ContentInv ==
  TreeInv /\ TextInv /\ ImportsInv /\ FilesInv /\ PicturesInv /\ CacheInv /\ MediaInv

\* Every variable of notes and media keeps its type, the cache lists no entry twice
\* and its keeper is the one reader at work, for every value of the constants.
THEOREM ContentTypeCorrect == ContentSpec => []ContentTypeOK
  <1> DEFINE all == <<area, treeVars, textVars, importVars, fileVars, pictureVars, cacheVars, mediaVars>>
  <1>1. ContentInit => ContentInv
    BY TreeStarts, TextStarts, ImportsStart, FilesStart, PicturesStart, CacheStarts, MediaStarts
       DEF ContentInit, ContentInv
  <1>2. ContentInv /\ [ContentNext]_all => ContentInv'
    <2> SUFFICES ASSUME ContentInv, [ContentNext]_all PROVE ContentInv'
      OBVIOUS
    <2>1. TreeInv /\ TextInv /\ ImportsInv /\ FilesInv /\ PicturesInv /\ CacheInv /\ MediaInv
      BY DEF ContentInv
    <2>2. /\ [TreeNext]_treeVars /\ [TextNext]_textVars /\ [ImportsNext]_importVars
          /\ [FilesNext]_fileVars /\ [PicturesNext]_pictureVars /\ [CacheNext]_cacheVars
          /\ [MediaNext]_mediaVars
      BY DEF ContentNext
    <2> QED BY <2>1, <2>2, InvariantKept, TextKept, ImportsKept, FilesKept, PicturesKept,
               CacheStays, MediaKept DEF ContentInv
  <1>3. ContentInv => ContentTypeOK
    BY CacheSound DEF ContentInv, ContentTypeOK, TreeInv, TextInv, ImportsInv, FilesInv,
                      PicturesInv, MediaInv
  <1> QED BY <1>1, <1>2, <1>3, PTL DEF ContentSpec
=============================================================================
