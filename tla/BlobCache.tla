------------------------------ MODULE BlobCache ------------------------------
(***************************************************************************)
(* The disk cache of stored objects that all worker processes of a host    *)
(* share (services/blob_cache.py, filled by blob_store.response).          *)
(*                                                                         *)
(* One flock on .cache.lock covers listing, eviction and filling; a reader *)
(* pins its entry with a shared flock on the file before it lets the       *)
(* global lock go, and unpins it without any lock.  Processes may be       *)
(* killed at every step, also in the middle of a fill.  Entries of a wrong *)
(* size, which only a damaged disk makes, are left out.                    *)
(***************************************************************************)
EXTENDS Naturals, Sequences, SequencesExt, FiniteSetsExt, Subsequences

CONSTANTS
  Readers,  \* requests that want an object, each in a process of its own
  Objects,  \* contents, named by their hash
  Cost,     \* object -> the disk blocks it takes
  Cap,      \* STELLA_BLOB_CACHE_MAX_BYTES, in blocks
  NoObject, NoReader

ASSUME CacheAssumption ==
  /\ Cost \in [Objects -> Nat \ {0}] /\ Cap \in Nat
  /\ NoObject \notin Objects /\ NoReader \notin Readers

VARIABLES
  shelf,    \* the entries, least recently used first
  stale,    \* entries idle for longer than the TTL
  filling,  \* the object a .fill- file on disk was reserved for
  keeper,   \* the reader that holds the global lock
  reader    \* reader -> what it wants, how far it is, entries it may still evict

cacheVars == <<shelf, stale, filling, keeper, reader>>

Outside == [at |-> "out", object |-> NoObject, victims |-> <<>>]

CacheInit ==
  /\ shelf = <<>> /\ stale = {} /\ filling = NoObject /\ keeper = NoReader
  /\ reader = [r \in Readers |-> Outside]

CostOf(S) == MapThenSumSet(LAMBDA o : Cost[o], S)
Used == CostOf(ToSet(shelf))
Hit(r) == reader[r].object \in ToSet(shelf)
Fits(r) == Used + (IF Hit(r) THEN 0 ELSE Cost[reader[r].object]) <= Cap

\* _remove_idle: an exclusive flock succeeds only while no reader shares it.
UnpinnedAssumed(o) == TRUE
Unpinned(o) == \A r \in Readers : ~(reader[r].at = "reading" /\ reader[r].object = o)

In(r, step) == reader[r].at = step
Onto(r, step) == reader' = [reader EXCEPT ![r].at = step]
Released(r) == reader' = [reader EXCEPT ![r] = Outside] /\ keeper' = NoReader

-----------------------------------------------------------------------------
\* acquire: the global lock is waited for.
Enter(r, o) ==
  /\ In(r, "out") /\ keeper = NoReader
  /\ keeper' = r
  /\ reader' = [reader EXCEPT ![r] = [Outside EXCEPT !.at = "scan", !.object = o]]
  /\ UNCHANGED <<shelf, stale, filling>>

\* What a killed fill left is removed, and so is what nobody used for a day.
Expired == {o \in stale : Unpinned(o)}
Scan(r) ==
  /\ In(r, "scan")
  /\ LET left == Only(shelf, Objects \ Expired) IN
       /\ shelf' = left
       /\ reader' = [reader EXCEPT ![r].at = "evict", ![r].victims = left]
  /\ stale' = stale \ Expired
  /\ filling' = NoObject
  /\ UNCHANGED keeper

\* The oldest entries go, one after the other, while the new one does not fit.
Evict(r) ==
  /\ In(r, "evict") /\ ~Fits(r) /\ reader[r].victims # <<>>
  /\ LET o == Head(reader[r].victims) IN
       IF o # reader[r].object /\ Unpinned(o)
       THEN shelf' = Only(shelf, Objects \ {o}) /\ stale' = stale \ {o}
       ELSE UNCHANGED <<shelf, stale>>
  /\ reader' = [reader EXCEPT ![r].victims = Tail(@)]
  /\ UNCHANGED <<filling, keeper>>

\* 503: pinned entries leave no room.
NoRoom(r) ==
  /\ In(r, "evict") /\ ~Fits(r) /\ reader[r].victims = <<>>
  /\ Released(r)
  /\ UNCHANGED <<shelf, stale, filling>>

\* mkstemp and posix_fallocate, unless the object is there.
Reserve(r) ==
  /\ In(r, "evict") /\ Fits(r)
  /\ IF Hit(r) THEN Onto(r, "pin") /\ UNCHANGED filling
     ELSE Onto(r, "fill") /\ filling' = reader[r].object
  /\ UNCHANGED <<shelf, stale, keeper>>

\* Size and digest are right: os.replace.
Fill(r) ==
  /\ In(r, "fill")
  /\ shelf' = Append(shelf, reader[r].object)
  /\ filling' = NoObject
  /\ Onto(r, "pin")
  /\ UNCHANGED <<stale, keeper>>

\* The disk is full, chunks are missing, the digest is another one.
FillFails(r) ==
  /\ In(r, "fill")
  /\ filling' = NoObject
  /\ Released(r)
  /\ UNCHANGED <<shelf, stale>>

\* The shared flock, then utime; only then the global lock goes.
Pin(r) ==
  /\ In(r, "pin")
  /\ LET o == reader[r].object IN
       /\ shelf' = Append(Only(shelf, Objects \ {o}), o)
       /\ stale' = stale \ {o}
       /\ reader' = [reader EXCEPT ![r] = [Outside EXCEPT !.at = "reading", !.object = o]]
  /\ keeper' = NoReader
  /\ UNCHANGED filling

\* The response was sent, or the browser has gone: the lease is closed.
Close(r) ==
  /\ In(r, "reading") /\ reader' = [reader EXCEPT ![r] = Outside]
  /\ UNCHANGED <<shelf, stale, filling, keeper>>

\* A process is killed: the kernel drops its locks, its .fill- file stays.
ReaderKilled(r) ==
  /\ ~In(r, "out") /\ reader' = [reader EXCEPT ![r] = Outside]
  /\ keeper' = IF keeper = r THEN NoReader ELSE keeper
  /\ UNCHANGED <<shelf, stale, filling>>

GrowsStale(o) ==
  /\ o \in ToSet(shelf) \ stale /\ stale' = stale \cup {o}
  /\ UNCHANGED <<shelf, filling, keeper, reader>>

CacheNext ==
  \/ \E r \in Readers :
       \/ \E o \in Objects : Enter(r, o)
       \/ Scan(r) \/ Evict(r) \/ NoRoom(r) \/ Reserve(r) \/ Fill(r) \/ FillFails(r)
       \/ Pin(r) \/ Close(r) \/ ReaderKilled(r)
  \/ \E o \in Objects : GrowsStale(o)

CacheSpec == CacheInit /\ [][CacheNext]_cacheVars

-----------------------------------------------------------------------------
CacheTypeOK ==
  /\ shelf \in Seq(Objects) /\ IsInjective(shelf)
  /\ stale \subseteq ToSet(shelf)
  /\ filling \in Objects \cup {NoObject} /\ keeper \in Readers \cup {NoReader}
  /\ \A r \in Readers :
       /\ reader[r].at \in {"out", "scan", "evict", "fill", "pin", "reading"}
       /\ reader[r].at \in {"scan", "evict", "fill", "pin"} <=> keeper = r
       /\ reader[r].object \in Objects \cup {NoObject}
       /\ ToSet(reader[r].victims) \subseteq Objects

\* Whoever reads, fills, evicts or is killed, the cache never takes more than
\* its share of the disk, fills included, and what a response is being sent from
\* - it opens the file by its name - is not removed under it.
CacheKept ==
  /\ CostOf(ToSet(shelf) \cup ({filling} \ {NoObject})) <= Cap
  /\ \A r \in Readers : In(r, "reading") => reader[r].object \in ToSet(shelf)
=============================================================================
