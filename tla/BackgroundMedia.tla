--------------------------- MODULE BackgroundMedia ---------------------------
(***************************************************************************)
(* Backgrounds kept as files and their smaller versions (routers/homebg.py *)
(* and services/homebg_media.py), by replicas that share the directory.    *)
(*                                                                         *)
(* A POST takes a lock on the source, writes "queued" into its sidecar and *)
(* hands the lock to the one worker thread of its replica, which converts  *)
(* and writes the result before it lets go.  A GET only reads; to tell a   *)
(* job under way from one that died it tries the lock for a moment.        *)
(* Replicas may be killed at any time; the kernel drops their locks.       *)
(***************************************************************************)
EXTENDS Naturals, Sequences, SequencesExt, FiniteSets

CONSTANTS
  Sources,   \* uploaded files; a name is used once
  Replicas,
  Viewers,   \* GET requests
  Admitted,  \* jobs a replica takes, running one included (32)
  Nobody

ASSUME MediaAssumption ==
  /\ Admitted \in Nat \ {0}
  /\ Nobody \notin Sources \cup Replicas \cup Viewers
  /\ Replicas \cap Viewers = {}

VARIABLES
  file,     \* sources whose file is there
  catalog,   \* sources in index.json
  indexing, \* the request inside the lock of the index: what it has yet to do
  sidecar,  \* source -> status in its .media.json, "none" without one
  flock,    \* source -> who holds its .media.lock
  admits,   \* replica -> the source its POST has locked, not yet queued
  jobs,     \* replica -> its executor's queue; the first may be under way
  begun,    \* replica -> the first one is under way, or its result is written
  viewer    \* viewer -> the source it asks for, what it read, its answer

mediaVars == <<file, catalog, indexing, sidecar, flock, admits, jobs, begun, viewer>>

Pending == {"queued", "processing"}
Results == {"ready", "error"}
Watching == [at |-> "out", source |-> Nobody, seen |-> "none"]

MediaInit ==
  /\ file = {} /\ catalog = {} /\ indexing = Nobody
  /\ sidecar = [s \in Sources |-> "none"] /\ flock = [s \in Sources |-> Nobody]
  /\ admits = [p \in Replicas |-> Nobody]
  /\ jobs = [p \in Replicas |-> <<>>] /\ begun = [p \in Replicas |-> "no"]
  /\ viewer = [v \in Viewers |-> Watching]

index == <<file, catalog, indexing>>
work == <<sidecar, flock, admits, jobs, begun>>
Freed(s) == [flock EXCEPT ![s] = Nobody]

-----------------------------------------------------------------------------
(* The index: a file is written before it is listed, and removed before it   *)
(* is taken off the list.                                                   *)

UploadFile(s) ==
  /\ s \notin file /\ sidecar[s] = "none" /\ s \notin catalog /\ flock[s] = Nobody
  /\ file' = file \cup {s}
  /\ UNCHANGED <<catalog, indexing, work, viewer>>
ListUpload(s) ==
  /\ s \in file \ catalog /\ indexing = Nobody /\ sidecar[s] = "none"
  /\ catalog' = catalog \cup {s}
  /\ UNCHANGED <<file, indexing, work, viewer>>
RemoveFile(s) ==
  /\ s \in catalog /\ indexing = Nobody
  /\ file' = file \ {s} /\ indexing' = s
  /\ UNCHANGED <<catalog, work, viewer>>
Unlist ==
  /\ indexing # Nobody
  /\ catalog' = catalog \ {indexing} /\ indexing' = Nobody
  /\ UNCHANGED <<file, work, viewer>>
IndexKilled ==
  /\ indexing # Nobody /\ indexing' = Nobody
  /\ UNCHANGED <<file, catalog, work, viewer>>

-----------------------------------------------------------------------------
(* schedule.                                                                *)

\* A source that is ready, or whose lock is taken, is answered at once.
JobLockFree(s) == flock[s] = Nobody
Admit(p, s) ==
  /\ admits[p] = Nobody /\ s \in file \cap catalog
  /\ sidecar[s] # "ready" /\ JobLockFree(s)
  /\ admits' = [admits EXCEPT ![p] = s] /\ flock' = [flock EXCEPT ![s] = p]
  /\ UNCHANGED <<index, sidecar, jobs, begun, viewer>>

\* Another replica may have finished just before, or there is no slot, or the
\* sidecar cannot be written: the lock goes back.
NoSlot(p) == Len(jobs[p]) >= Admitted
Enqueue(p) ==
  LET s == admits[p] IN
  /\ s # Nobody /\ sidecar[s] # "ready" /\ ~NoSlot(p)
  /\ sidecar' = [sidecar EXCEPT ![s] = "queued"]
  /\ jobs' = [jobs EXCEPT ![p] = Append(@, s)]
  /\ admits' = [admits EXCEPT ![p] = Nobody]
  /\ UNCHANGED <<index, flock, begun, viewer>>
GivesBack(p) ==
  /\ admits[p] # Nobody
  /\ admits' = [admits EXCEPT ![p] = Nobody] /\ flock' = Freed(admits[p])
  /\ UNCHANGED <<index, sidecar, jobs, begun, viewer>>

-----------------------------------------------------------------------------
(* _worker.                                                                 *)

Foremost(p) == Head(jobs[p])
Advances(p, from, to) == jobs[p] # <<>> /\ begun[p] = from /\ begun' = [begun EXCEPT ![p] = to]

\* A source that has been deleted meanwhile, or a sidecar that cannot be written,
\* fails at once.
Work(p) ==
  /\ Advances(p, "no", "yes")
  /\ \/ UNCHANGED sidecar
     \/ Foremost(p) \in file /\ sidecar' = [sidecar EXCEPT ![Foremost(p)] = "processing"]
  /\ UNCHANGED <<index, flock, admits, jobs, viewer>>

\* All conversions went well, or one raised; the sidecar of a deleted source is
\* not written, and the write may fail.
WriteResult(p) ==
  /\ Advances(p, "yes", "written")
  /\ \/ UNCHANGED sidecar
     \/ /\ Foremost(p) \in file
        /\ \E r \in Results : sidecar' = [sidecar EXCEPT ![Foremost(p)] = r]
  /\ UNCHANGED <<index, flock, admits, jobs, viewer>>
LetGo(p) ==
  /\ Advances(p, "written", "no")
  /\ flock' = Freed(Foremost(p)) /\ jobs' = [jobs EXCEPT ![p] = Tail(@)]
  /\ UNCHANGED <<index, sidecar, admits, viewer>>

ReplicaKilled(p) ==
  /\ admits[p] # Nobody \/ jobs[p] # <<>>
  /\ flock' = [s \in Sources |-> IF flock[s] = p THEN Nobody ELSE flock[s]]
  /\ admits' = [admits EXCEPT ![p] = Nobody]
  /\ jobs' = [jobs EXCEPT ![p] = <<>>] /\ begun' = [begun EXCEPT ![p] = "no"]
  /\ UNCHANGED <<index, sidecar, viewer>>

-----------------------------------------------------------------------------
(* metadata, of a source whose sidecar says that a job is pending; any      *)
(* other status is the answer.                                              *)

View(v, s) ==
  /\ viewer[v].at = "out" /\ s \in file /\ sidecar[s] \in Pending
  /\ viewer' = [viewer EXCEPT ![v] = [at |-> "read", source |-> s, seen |-> sidecar[s]]]
  /\ UNCHANGED <<index, work>>

\* The lock is taken: a job is under way, so what was read is the answer.
TryLock(v) ==
  LET s == viewer[v].source IN
  /\ viewer[v].at = "read"
  /\ IF flock[s] = Nobody
     THEN /\ flock' = [flock EXCEPT ![s] = v]
          /\ viewer' = [viewer EXCEPT ![v].at = "locked"]
     ELSE viewer' = [viewer EXCEPT ![v] = Watching] /\ UNCHANGED flock
  /\ UNCHANGED <<index, sidecar, admits, jobs, begun>>

\* The sidecar is read once more: a result written since then is the answer,
\* otherwise the job has died, or the file is gone, and the answer is "missing".
AnswerAsRead(v) == "missing"
Answer(v) == LET s == viewer[v].source IN
             IF s \in file /\ sidecar[s] \in Results THEN sidecar[s] ELSE "missing"
ReadAgain(v) ==
  /\ viewer[v].at = "locked"
  /\ viewer' = [viewer EXCEPT ![v].at = "answer", ![v].seen = Answer(v)]
  /\ UNCHANGED <<index, work>>
LetLockGo(v) ==
  /\ viewer[v].at = "answer"
  /\ flock' = Freed(viewer[v].source) /\ viewer' = [viewer EXCEPT ![v] = Watching]
  /\ UNCHANGED <<index, sidecar, admits, jobs, begun>>

MediaNext ==
  \/ \E s \in Sources : UploadFile(s) \/ ListUpload(s) \/ RemoveFile(s)
  \/ Unlist \/ IndexKilled
  \/ \E p \in Replicas :
       \/ \E s \in Sources : Admit(p, s)
       \/ Enqueue(p) \/ GivesBack(p) \/ Work(p) \/ WriteResult(p) \/ LetGo(p) \/ ReplicaKilled(p)
  \/ \E v \in Viewers :
       \/ \E s \in Sources : View(v, s)
       \/ TryLock(v) \/ ReadAgain(v) \/ LetLockGo(v)

MediaSpec == MediaInit /\ [][MediaNext]_mediaVars

-----------------------------------------------------------------------------
MediaTypeOK ==
  /\ file \subseteq Sources /\ catalog \subseteq Sources
  /\ indexing \in Sources \cup {Nobody}
  /\ sidecar \in [Sources -> Pending \cup Results \cup {"none"}]
  /\ flock \in [Sources -> Replicas \cup Viewers \cup {Nobody}]
  /\ admits \in [Replicas -> Sources \cup {Nobody}]
  /\ jobs \in [Replicas -> BoundedSeq(Sources, Admitted)]
  /\ begun \in [Replicas -> {"no", "yes", "written"}]
  /\ viewer \in [Viewers -> [at : {"out", "read", "locked", "answer"}, source : Sources \cup {Nobody},
                             seen : Pending \cup Results \cup {"none", "missing"}]]

\* Whatever replicas schedule, finish or die of, a source is converted by one of
\* them at a time, and a page is told "missing" - which makes it ask again - only
\* when no job for the source is queued or under way and none left a result.
Converting(s) == {p \in Replicas : s \in ToSet(jobs[p])}
MediaHonest ==
  \A s \in Sources :
    /\ Cardinality(Converting(s)) <= 1
    /\ \A v \in Viewers :
         (viewer[v].at = "answer" /\ viewer[v].source = s /\ viewer[v].seen = "missing")
           => Converting(s) = {} /\ (s \in file => sidecar[s] \notin Results)
=============================================================================
