--------------------------- MODULE TwoNodeRelease ---------------------------
(***************************************************************************)
(* Production releases over the two application nodes.                     *)
(*                                                                         *)
(* production_release.orchestrate probes both nodes, releases the standby  *)
(* of the database first and the primary second, probes again after each,  *)
(* and stops at the first surprise.  The database may change its roles at  *)
(* any time; a node's release (AppSwap has its details) checks the roles   *)
(* it was given around every docker command.  It runs on the node: when    *)
(* its SSH call is given up, the release goes on, and the next pipeline    *)
(* may already run.                                                        *)
(***************************************************************************)
EXTENDS Naturals, FiniteSets

CONSTANTS Nodes,      \* nyarch and nas
          MaxReleases, \* bound: pipelines that run orchestrate
          MaxFailovers \* bound: changes of the primary

ASSUME NodesAssumption ==
  /\ IsFiniteSet(Nodes) /\ Cardinality(Nodes) = 2
  /\ {MaxReleases, MaxFailovers} \subseteq Nat

VARIABLES primary,   \* the node whose database accepts writes
          failovers, \* how often that changed
          app,       \* per node: the application that serves there
          script,    \* the pipeline under way
          remote,    \* per node: the release that runs there, under the host's lock
          results,   \* receipt["nodes"] of the last pipeline
          outcome,   \* receipt["status"]
          count,     \* releases so far: number n installs application n
          overlap    \* history: the last pipeline began while such a release ran

releaseVars == <<primary, failovers, app, script, remote, results, outcome, count, overlap>>

NoScript == [at |-> "idle"]
NoRemote == [at |-> "none"]
NodeResults == {"none", "deployed", "unchanged", "rolledback", "blocked"}
Outcomes == {"none", "deployed", "unchanged", "rolledback", "blocked"}
\* An application: its release and whether it serves.
Apps == [image : 0..MaxReleases, up : BOOLEAN]
Other(n) == CHOOSE m \in Nodes : m # n
Points == {"probe", "release", "wait", "answer"}
Stages == {"begin", "candidate", "stopped", "started", "undo", "back"}
Pipelines == [at : Points, probed : SUBSET Nodes, main : Nodes \cup {"unknown"}, image : 1..MaxReleases]
\* "old" is the application it found, "awaited" whether a pipeline waits for its answer.
Remotes == [at : Stages, image : 1..MaxReleases, main : Nodes, old : 0..MaxReleases, awaited : BOOLEAN]
Running == {n \in Nodes : remote[n] # NoRemote}

ReleaseTypeOK ==
  /\ primary \in Nodes /\ failovers \in 0..MaxFailovers
  /\ app \in [Nodes -> Apps]
  /\ script \in Pipelines \cup {NoScript}
  /\ remote \in [Nodes -> Remotes \cup {NoRemote}]
  /\ results \in [Nodes -> NodeResults] /\ outcome \in Outcomes
  /\ count \in 0..MaxReleases /\ overlap \in BOOLEAN

ReleaseInit ==
  /\ primary \in Nodes /\ failovers = 0
  /\ app = [n \in Nodes |-> [image |-> 0, up |-> TRUE]]
  /\ script = NoScript /\ remote = [n \in Nodes |-> NoRemote]
  /\ results = [n \in Nodes |-> "none"] /\ outcome = "none"
  /\ count = 0 /\ overlap = FALSE

-----------------------------------------------------------------------------
(* The pipeline.                                                            *)

Failover ==
  /\ failovers < MaxFailovers
  /\ primary' = Other(primary) /\ failovers' = failovers + 1
  /\ UNCHANGED <<app, script, remote, results, outcome, count, overlap>>

hosts == <<primary, failovers, app>>

\* The pipeline starts, with the image of a new release or again with the last one.
Start(image) ==
  /\ script = NoScript
  /\ image \in {count, count + 1} \ {0} /\ image <= MaxReleases
  /\ count' = image /\ overlap' = (Running # {})
  /\ script' = [at |-> "probe", probed |-> {}, main |-> "unknown", image |-> image]
  /\ results' = [n \in Nodes |-> "none"] /\ outcome' = "none"
  /\ UNCHANGED <<hosts, remote>>

Reported == {n \in Nodes : results[n] # "none"}
Done == {n \in Nodes : results[n] \in {"deployed", "unchanged"}}

\* The status of the receipt when something raised.
Status ==
  IF Reported # {} /\ \A n \in Reported : results[n] \in {"rolledback", "unchanged"}
  THEN "rolledback" ELSE "blocked"
Stops == script' = NoScript /\ outcome' = Status /\ UNCHANGED <<hosts, results, count, overlap>>

\* snapshot(): each node is probed in turn, under no lock, and reports the roles it
\* sees; the first snapshot fixes them, a later one must find them unchanged.
Probe(n) ==
  /\ script.at = "probe" /\ n \notin script.probed
  /\ app[n].up /\ script.main \in {"unknown", primary}
  /\ script' = [script EXCEPT !.probed = @ \cup {n}, !.main = primary]
  /\ UNCHANGED <<hosts, remote, results, outcome, count, overlap>>

\* Both were probed: the next node, standby first, or the end.
FollowingAny == Nodes \ Done
Following == IF Other(script.main) \in Done THEN {script.main} ELSE {Other(script.main)}
Probed ==
  /\ script.at = "probe" /\ script.probed = Nodes
  /\ IF Done = Nodes
       THEN /\ script' = NoScript
            /\ outcome' = IF \E n \in Nodes : results[n] = "deployed" THEN "deployed" ELSE "unchanged"
       ELSE script' = [script EXCEPT !.at = "release", !.probed = {}] /\ UNCHANGED outcome
  /\ UNCHANGED <<hosts, remote, results, count, overlap>>

\* The SSH call starts the release on the node, unless the host's lock is taken.
Call(n) ==
  /\ script.at = "release" /\ n \in Following
  /\ IF n \in Running
       THEN /\ results' = [results EXCEPT ![n] = "blocked"]
            /\ script' = [script EXCEPT !.at = "answer"]
            /\ UNCHANGED remote
       ELSE /\ script' = [script EXCEPT !.at = "wait"]
            /\ remote' = [remote EXCEPT ![n] =
                 [at |-> "begin", image |-> script.image, main |-> script.main,
                  old |-> app[n].image, awaited |-> TRUE]]
            /\ UNCHANGED results
  /\ UNCHANGED <<hosts, outcome, count, overlap>>

\* A probe fails or finds other roles, or SSH fails before the release began.
Fails == script.at \in {"probe", "release"} /\ Stops /\ UNCHANGED remote

\* 600 seconds passed, or the connection broke: nobody waits for the release any more.
Forsaken(release) == IF release = NoRemote THEN NoRemote ELSE [release EXCEPT !.awaited = FALSE]
Forsake == script.at = "wait" /\ Stops /\ remote' = [n \in Nodes |-> Forsaken(remote[n])]

\* Go on only from "deployed" or "unchanged".
Answered ==
  /\ script.at = "answer" /\ UNCHANGED remote
  /\ IF Reported = Done
       THEN /\ script' = [script EXCEPT !.at = "probe"]
            /\ UNCHANGED <<hosts, results, outcome, count, overlap>>
       ELSE Stops

-----------------------------------------------------------------------------
(* Node.release on node n.  A command is preceded and followed by a look at  *)
(* the roles; it may fail with or without effect, and the release is undone.  *)

Target(n) == [image |-> remote[n].image, up |-> TRUE]
Prior(n) == [image |-> remote[n].old, up |-> TRUE]
Halted(n) == [app[n] EXCEPT !.up = FALSE]
UnderRoles(n) == primary = remote[n].main

Installs(n, apps) == \E a \in apps : app' = [app EXCEPT ![n] = a]
From(n, point) == remote[n].at = point /\ UNCHANGED <<primary, failovers, count, overlap, outcome>>
To(n, point) == remote' = [remote EXCEPT ![n].at = point] /\ UNCHANGED <<script, results>>

\* The release ends, and the lock with it; its answer reaches a pipeline that waits.
Reports(n, status) ==
  /\ remote' = [remote EXCEPT ![n] = NoRemote]
  /\ IF remote[n].awaited
       THEN /\ results' = [results EXCEPT ![n] = status]
            /\ script' = [script EXCEPT !.at = "answer"]
       ELSE UNCHANGED <<results, script>>

Enter(n) ==
  /\ From(n, "begin") /\ UNCHANGED app
  /\ \/ app[n] = Target(n) /\ UnderRoles(n) /\ Reports(n, "unchanged")
     \/ app[n].image # remote[n].image /\ app[n].up /\ UnderRoles(n) /\ To(n, "candidate")
     \/ Reports(n, "blocked")

StopPrior(n) ==
  /\ From(n, "candidate")
  /\ \/ UnderRoles(n) /\ Installs(n, {Halted(n)}) /\ To(n, "stopped")
     \/ Installs(n, {app[n], Halted(n)}) /\ To(n, "undo")
     \/ UNCHANGED app /\ Reports(n, "blocked")

StartTarget(n) ==
  /\ From(n, "stopped")
  /\ \/ UnderRoles(n) /\ Installs(n, {Target(n)}) /\ To(n, "started")
     \/ Installs(n, {app[n], Target(n)}) /\ To(n, "undo")

Commit(n) ==
  /\ From(n, "started") /\ UNCHANGED app
  /\ (UnderRoles(n) /\ Reports(n, "deployed")) \/ To(n, "undo")

\* The roll-back looks at no roles: the new application goes, if it was created, and
\* the old one is started again.
TakeAway(n) ==
  LET gone == IF app[n] = Target(n) THEN [image |-> remote[n].old, up |-> FALSE] ELSE app[n] IN
  /\ From(n, "undo")
  /\ \/ Installs(n, {gone}) /\ To(n, "back")
     \/ Installs(n, {app[n], gone}) /\ Reports(n, "blocked")
GiveBack(n) ==
  /\ From(n, "back")
  /\ \/ Installs(n, {Prior(n)}) /\ Reports(n, "rolledback")
     \/ Installs(n, {app[n], Prior(n)}) /\ Reports(n, "blocked")

\* The process is killed, or its machine stops: no answer comes.
Dies(n) ==
  /\ n \in Running
  /\ remote' = [remote EXCEPT ![n] = NoRemote]
  /\ IF remote[n].awaited THEN Stops
     ELSE UNCHANGED <<hosts, script, results, outcome, count, overlap>>

\* An operator repairs a node that no longer serves, with either application.
Repair(n, image) ==
  /\ script = NoScript /\ n \notin Running
  /\ ~app[n].up /\ image \in {app[n].image, count}
  /\ app' = [app EXCEPT ![n] = [image |-> image, up |-> TRUE]]
  /\ outcome' = "none"
  /\ UNCHANGED <<primary, failovers, script, remote, results, count, overlap>>

ReleaseNext ==
  \/ Failover
  \/ \E image \in 1..MaxReleases : Start(image)
  \/ \E n \in Nodes : Probe(n) \/ Call(n)
  \/ Probed \/ Fails \/ Forsake \/ Answered
  \/ \E n \in Nodes : Enter(n) \/ StopPrior(n) \/ StartTarget(n) \/ Commit(n)
  \/ \E n \in Nodes : TakeAway(n) \/ GiveBack(n) \/ Dies(n)
  \/ \E n \in Nodes, image \in 0..MaxReleases : Repair(n, image)

ReleaseSpec == ReleaseInit /\ [][ReleaseNext]_releaseVars

-----------------------------------------------------------------------------
(* Properties.                                                              *)

\* A release changes a node's application only while the other node serves, and the
\* node whose database was primary when the pipeline looked gets the new one only
\* after the other serves it (orchestrate, Node.release) - also a release nobody
\* waits for any more.  It holds of pipelines begun after the releases that earlier
\* ones left behind had ended, as the operator is told to make sure of.
InOrder(n) ==
  /\ app[Other(n)].up
  /\ remote[n].main = n => app[Other(n)] = Target(n)
StandbyFirst ==
  [][~overlap => \A n \in Running : app'[n] # app[n] => InOrder(n)]_releaseVars

\* No two releases overlap: on one host its lock sees to it, and "CI additionally
\* serializes the entire two-node transaction" (Node.execute).  CI serializes
\* the pipelines, which end before the releases they give up.
Serialized == \A m, n \in Running : m = n
=============================================================================
