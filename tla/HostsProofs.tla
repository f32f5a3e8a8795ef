----------------------------- MODULE HostsProofs -----------------------------
(***************************************************************************)
(* Theorems about the hosts, for any number of processes, releases, stages *)
(* and attempts and of the troubles the models bound: the agent's update   *)
(* of itself, the change of a server's address, the release over two nodes *)
(* and the swap of the container on one, the staging of public assets and  *)
(* their deployment on the edge, the map of the servers.                   *)
(***************************************************************************)
EXTENDS MCHosts, CollectionLemmas

(* The agent's own update.                                                 *)

\* What is put in place has been loaded, and the way back loads too.
FilesSound ==
  /\ me.loads
  /\ step \in {"copy", "compare", "replace"} => staged.loads
  /\ step \in {"compare", "replace", "installed"} => backup.loads
  /\ step \notin {"compare", "replace", "installed"} => backup = Nil

\* Without an installer under way the running script is at its place until it is
\* replaced, and then in the backup, unless an earlier update left it in another.
RunningKept == ~installer =>
  /\ step # "installed" => running \in {me} \cup kept
  /\ step \in {"compare", "replace"} => me = backup
  /\ step = "installed" => running \in {backup} \cup kept

UpdateInv == UpdateTypeOK /\ FilesSound /\ RunningKept

LEMMA UpdateStarts == UpdateInit => UpdateInv
  <1>1. First \in Scripts /\ First.loads
    BY UpdateAssumption DEF First, Scripts
  <1>2. 0 \in 0 .. MaxTrouble
    BY UpdateAssumption
  <1> SUFFICES ASSUME UpdateInit PROVE UpdateInv
    OBVIOUS
  <1>3. UpdateTypeOK
    BY <1>1, <1>2 DEF UpdateInit, UpdateTypeOK, Files
  <1>4. FilesSound /\ RunningKept
    BY <1>1 DEF UpdateInit, FilesSound, RunningKept
  <1> QED BY <1>3, <1>4 DEF UpdateInv

LEMMA UpdateTyped == UpdateInv /\ [UpdateNext]_updateVars => UpdateTypeOK'
  <1> SUFFICES ASSUME UpdateInv, [UpdateNext]_updateVars PROVE UpdateTypeOK'
    OBVIOUS
  <1>0. \A f \in Files : f # Nil => f \in Scripts
    BY DEF Files
  <1>1. ASSUME NEW b \in Files, Leaves(b)
        PROVE  kept' \subseteq Scripts /\ backup' = Nil /\ info' = Nil /\ found' = Nil
    BY <1>0, <1>1 DEF Leaves, UpdateInv, UpdateTypeOK
  <1>2. Nil \in Files /\ Scripts \subseteq Files /\ ~Nil.loads
    BY DEF Files, Nil
  <1>3. me \in Scripts
    BY <1>0, <1>2 DEF UpdateInv, FilesSound, UpdateTypeOK
  <1> USE UpdateAssumption DEF UpdateInv, UpdateTypeOK, Goes
  <1>4. CASE Deploy \/ CheckUpdate \/ Download \/ DownloadFails \/ Stage \/ Written \/ Validate
             \/ Copy \/ Compare \/ Replace
    BY <1>2, <1>4 DEF Deploy, CheckUpdate, Download, DownloadFails, Stage, Written, Validate,
                      Copy, Compare, Replace, Files
  <1>5. CASE Exec
    BY <1>1, <1>2, <1>3, <1>5 DEF Exec
  <1>6. CASE GivesUpEarly
    BY <1>1, <1>2, <1>6 DEF GivesUpEarly
  <1>7. CASE PutsBack
    BY <1>1, <1>2, <1>7 DEF PutsBack
  <1>8. CASE CannotPutBack
    BY <1>1, <1>2, <1>8 DEF CannotPutBack, Remaining
  <1>9. CASE CrashAgent
    BY <1>1, <1>2, <1>3, <1>9 DEF CrashAgent, Starts
  <1>10. CASE MoveInstaller
    BY <1>2, <1>10 DEF MoveInstaller
  <1>11. CASE RestartService
    BY <1>1, <1>2, <1>3, <1>11 DEF RestartService, Starts
  <1>12. CASE UNCHANGED updateVars
    BY <1>12 DEF updateVars
  <1> QED BY <1>4, <1>5, <1>6, <1>7, <1>8, <1>9, <1>10, <1>11, <1>12 DEF UpdateNext

LEMMA UpdateKept == UpdateInv /\ [UpdateNext]_updateVars => UpdateInv'
  <1> SUFFICES ASSUME UpdateInv, [UpdateNext]_updateVars PROVE FilesSound' /\ RunningKept'
    BY UpdateTyped DEF UpdateInv
  <1>0. ~Nil.loads /\ Nil \notin Scripts /\ running # Nil
    BY DEF Nil, Scripts, UpdateInv, UpdateTypeOK
  <1> USE <1>0 DEF UpdateInv, FilesSound, RunningKept, Goes
  <1>1. CASE Deploy \/ CheckUpdate \/ Download \/ DownloadFails \/ Stage \/ Written
    BY <1>1 DEF Deploy, CheckUpdate, Download, DownloadFails, Stage, Written
  <1>2. CASE Validate
    BY <1>2 DEF Validate, Passes
  <1>3. CASE Copy \/ Compare
    BY <1>3 DEF Copy, Compare
  <1>4. CASE Replace
    BY <1>4 DEF Replace
  <1>5. CASE Exec \/ PutsBack
    BY <1>5 DEF Exec, PutsBack, Leaves
  <1>6. CASE GivesUpEarly
    BY <1>6 DEF GivesUpEarly, Leaves
  <1>7. CASE CannotPutBack
    BY <1>7 DEF CannotPutBack, Remaining, Leaves
  <1>8. CASE CrashAgent \/ RestartService
    BY <1>8 DEF CrashAgent, RestartService, Starts, Leaves
  <1>9. CASE MoveInstaller
    BY <1>9 DEF MoveInstaller
  <1>10. CASE UNCHANGED updateVars
    BY <1>10 DEF updateVars
  <1> QED BY <1>1, <1>2, <1>3, <1>4, <1>5, <1>6, <1>7, <1>8, <1>9, <1>10 DEF UpdateNext

\* Wherever an update stops or the machine loses power, and whatever the centre serves
\* by then: the file the service starts loads, and the script that runs is at its place
\* or in a backup (_download_and_restart).
THEOREM AgentAlwaysSurvives == UpdateSpec => []AgentSurvives
  <1>1. UpdateInv => AgentSurvives
    BY DEF UpdateInv, FilesSound, RunningKept, AgentSurvives
  <1> QED BY <1>1, UpdateStarts, UpdateKept, PTL DEF UpdateSpec

-----------------------------------------------------------------------------
(* The change of an address.                                               *)

LEMMA AddressStarts == AddressInit => AddressTypeOK
  <1> SUFFICES ASSUME AddressInit PROVE AddressTypeOK
    OBVIOUS
  <1>1. Before \in Nets
    BY DEF Before, Nets, Sides
  <1>2. outages \in 0 .. MaxOutages /\ doing = "del"
    BY AddressAssumption DEF AddressInit
  <1> QED BY <1>1, <1>2, Zenon DEF AddressInit, AddressTypeOK

\* What the commands may leave the interface with, and the configuration.
LEMMA CommandsTyped ==
  ASSUME AddressTypeOK
  PROVE  /\ \A side \in Sides : Deleted(side) \subseteq Nets /\ Added(side) \subseteq Nets
         /\ RouteDeleted \subseteq Nets /\ RouteAdded \subseteq Nets
         /\ {Empty, Kept} \subseteq Nets
         /\ Tried(boot, {[boot EXCEPT !.addrs = {"new"}]}) \subseteq Nets
         /\ Tried(boot, {[boot EXCEPT !.gateway = "new"]}) \subseteq Nets
         /\ [boot EXCEPT !.addrs = {"new"}] \in Nets
  <1> USE DEF AddressTypeOK, Nets
  <1>1. {Empty, Kept} \subseteq Nets
    BY DEF Empty, Kept, Sides
  <1>2. \A side \in Sides : Deleted(side) \subseteq Nets
    BY <1>1 DEF Deleted, Tried
  <1>3. \A side \in Sides : Added(side) \subseteq Nets
    BY DEF Added, Tried
  <1>4. RouteDeleted \subseteq Nets /\ RouteAdded \subseteq Nets
    BY DEF RouteDeleted, RouteAdded, Tried
  <1>5. [boot EXCEPT !.addrs = {"new"}] \in Nets
    BY DEF Sides
  <1>6. [boot EXCEPT !.gateway = "new"] \in Nets
    OBVIOUS
  <1> QED BY <1>1, <1>2, <1>3, <1>4, <1>5, <1>6 DEF Tried

\* A command of the task, or of its persisting, keeps the types of what it may leave.
LEMMA StepsTyped ==
  ASSUME AddressTypeOK, NEW from, NEW to, NEW timedOut, NEW nets \in SUBSET Nets,
         \/ Runs(from, to, timedOut, nets)
         \/ Persists(from, to, nets) /\ timedOut = "done"
  PROVE  /\ net' \in Nets /\ boot' \in Nets /\ doing' \in {to, timedOut}
         /\ UNCHANGED <<backend, viaNew, samePrefix, outages>>
  BY DEF AddressTypeOK, Runs, Persists, asked

LEMMA AddressKept == AddressTypeOK /\ [AddressNext]_addressVars => AddressTypeOK'
  <1> SUFFICES ASSUME AddressTypeOK, [AddressNext]_addressVars PROVE AddressTypeOK'
    OBVIOUS
  <1> DEFINE steps == TaskEnded \cup {"del", "add", "recover", "delroute", "addroute", "ping", "takeback",
       "giveold", "reroute", "persist", "setgateway", "rewrite", "apply", "killed", "over"}
             Typed == /\ net' \in Nets /\ boot' \in Nets /\ doing' \in steps
                      /\ UNCHANGED <<backend, viaNew, samePrefix, outages>>
  <1>0. "old" \in Sides /\ "new" \in Sides
    BY DEF Sides
  <1>a. Typed => AddressTypeOK'
    BY DEF AddressTypeOK
  <1>1. ASSUME DelOld \/ AddNew \/ Recover PROVE Typed
    <2>1. PICK to \in steps, timedOut \in steps, side \in Sides :
            Runs(doing, to, timedOut, Deleted(side)) \/ Runs(doing, to, timedOut, Added(side))
      BY <1>0, <1>1 DEF DelOld, AddNew, Recover, Runs, TaskEnded
    <2> QED BY <2>1, CommandsTyped, StepsTyped
  <1>2. ASSUME DelRoute \/ AddRoute \/ Reroute PROVE Typed
    <2>1. PICK to \in steps, timedOut \in steps :
            Runs(doing, to, timedOut, RouteDeleted) \/ Runs(doing, to, timedOut, RouteAdded)
      BY <1>2 DEF DelRoute, AddRoute, Reroute, Runs, TaskEnded
    <2> QED BY <2>1, CommandsTyped, StepsTyped
  <1>3. ASSUME TakeBackNew \/ GiveOld PROVE Typed
    <2>1. PICK to \in steps, timedOut \in steps, side \in Sides :
            Runs(doing, to, timedOut, Deleted(side)) \/ Runs(doing, to, timedOut, Added(side))
      BY <1>0, <1>3 DEF TakeBackNew, GiveOld, Runs, TaskEnded, AfterAddresses
    <2> QED BY <2>1, CommandsTyped, StepsTyped
  <1>4. ASSUME SetAddress \/ SetGateway \/ Truncate \/ Rewrite \/ NoBackend PROVE Typed
    <2>1. PICK to \in steps, boots \in SUBSET Nets : Persists(doing, to, boots)
      <3> USE CommandsTyped, AddressAssumption DEF AddressTypeOK
      <3>1. CASE SetAddress
        BY <3>1 DEF SetAddress, Persists
      <3>2. CASE SetGateway
        BY <3>2 DEF SetGateway, Persists
      <3>3. CASE Truncate
        BY <3>3 DEF Truncate, Persists
      <3>4. CASE Rewrite
        BY <3>4 DEF Rewrite, Persists
      <3>5. CASE NoBackend
        BY <3>5 DEF NoBackend, Persists, TaskEnded
      <3> QED BY <1>4, <3>1, <3>2, <3>3, <3>4, <3>5
    <2> QED BY <2>1, StepsTyped DEF TaskEnded
  <1>5. CASE TryPing
    BY <1>5 DEF TryPing, AddressTypeOK, asked
  <1>6. CASE ApplyBoot
    BY <1>6 DEF ApplyBoot, AddressTypeOK, TaskEnded, asked
  <1>7. CASE AgentKilled \/ Boots
    BY <1>7, AddressAssumption DEF AgentKilled, Boots, AddressTypeOK, TaskEnded, asked
  <1>8. CASE UNCHANGED addressVars
    BY <1>8 DEF addressVars, AddressTypeOK, asked
  <1> QED BY <1>a, <1>1, <1>2, <1>3, <1>4, <1>5, <1>6, <1>7, <1>8 DEF AddressNext

-----------------------------------------------------------------------------
(* The releases over two nodes.                                            *)

\* There are two nodes: the other one is another, and there is no third.
LEMMA OtherNode ==
  ASSUME NEW n \in Nodes
  PROVE  Other(n) \in Nodes /\ Other(n) # n /\ Nodes = {n, Other(n)}
  <1>1. IsFiniteSet(Nodes \ {n}) /\ Cardinality(Nodes \ {n}) = 1
    BY NodesAssumption, FS_RemoveElement
  <1>2. PICK m : Nodes \ {n} = {m}
    BY <1>1, FS_Singleton
  <1>3. Other(n) \in Nodes /\ Other(n) # n
    BY <1>2 DEF Other
  <1> QED BY <1>2, <1>3

\* A pipeline waits for the release it called, and for no other.
Awaited ==
  \A n \in Running : remote[n].awaited =>
    /\ script # NoScript /\ script.at = "wait"
    /\ script.image = remote[n].image /\ n \notin Done
    /\ \A m \in Running : remote[m].awaited => m = n

\* The roles are known once a node was probed, and a release follows only for a node
\* that is not done.
MainKnown == script # NoScript =>
  /\ IF script.at = "probe" THEN script.probed # {} => script.main \in Nodes ELSE script.probed = {}
  /\ script.at = "release" => script.main \in Nodes /\ Done # Nodes

\* Without an overlap, what the pipeline has seen is still so: a node it reported
\* done serves the new application, a node it probed serves, before a release both
\* do, and it waits for every release there is.
ScriptSound == (script # NoScript /\ ~overlap) =>
  /\ \A n \in Done : app[n] = [image |-> script.image, up |-> TRUE]
  /\ script.at = "probe" => \A n \in script.probed : app[n].up
  /\ script.at = "release" => \A n \in Nodes : app[n].up
  /\ \A n \in Running : remote[n].awaited

\* Without an overlap a release runs alone, beside a node that serves.
RemoteSound == ~overlap =>
  \A n \in Running : Other(n) \notin Running /\ InOrder(n)

\* A release about to be committed has started its application.
StartedServes == ~overlap => \A n \in Running : remote[n].at = "started" => app[n] = Target(n)

ReleaseInv == ReleaseTypeOK /\ Awaited /\ MainKnown /\ ScriptSound /\ RemoteSound /\ StartedServes

LEMMA ReleaseStarts == ReleaseInit => ReleaseInv
  <1> SUFFICES ASSUME ReleaseInit PROVE ReleaseInv
    OBVIOUS
  <1>1. ReleaseTypeOK
    <2>1. app \in [Nodes -> Apps]
      BY NodesAssumption DEF ReleaseInit, Apps
    <2>2. script \in Pipelines \cup {NoScript} /\ remote \in [Nodes -> Remotes \cup {NoRemote}]
      BY DEF ReleaseInit
    <2>3. results \in [Nodes -> NodeResults] /\ outcome \in Outcomes
      BY DEF ReleaseInit, NodeResults, Outcomes
    <2>4. primary \in Nodes /\ overlap \in BOOLEAN
      BY DEF ReleaseInit
    <2>5. failovers \in 0..MaxFailovers /\ count \in 0..MaxReleases
      BY NodesAssumption DEF ReleaseInit
    <2> QED BY <2>1, <2>2, <2>3, <2>4, <2>5 DEF ReleaseTypeOK
  <1>2. Running = {}
    BY DEF ReleaseInit, Running
  <1>3. script = NoScript
    BY DEF ReleaseInit
  <1> QED BY <1>1, <1>2, <1>3 DEF ReleaseInv, Awaited, MainKnown, ScriptSound, RemoteSound, StartedServes

\* A step of the release on node n: it changes no other node, ends or goes on, and
\* reports done only what serves.
StepOf(n) ==
  /\ n \in Running
  /\ UNCHANGED <<primary, failovers, count, overlap, outcome>>
  /\ \E a \in Apps : app' = [app EXCEPT ![n] = a]
  /\ \/ /\ UNCHANGED <<script, results>>
        /\ \E point \in Stages : remote' = [remote EXCEPT ![n].at = point]
        /\ remote'[n].at = "started" => app'[n] = Target(n)
     \/ \E said \in NodeResults :
          /\ Reports(n, said)
          /\ (said \in {"deployed", "unchanged"} /\ ~overlap) => app'[n] = Target(n)

LEMMA RemoteSteps ==
  ASSUME ReleaseInv, NEW n \in Nodes,
         Enter(n) \/ StopPrior(n) \/ StartTarget(n) \/ Commit(n) \/ TakeAway(n) \/ GiveBack(n)
  PROVE  StepOf(n)
  <1> USE DEF ReleaseInv, ReleaseTypeOK
  <1>1. n \in Running /\ UNCHANGED <<primary, failovers, count, overlap, outcome>>
    <2>1. \A point \in Stages : From(n, point) =>
             n \in Running /\ UNCHANGED <<primary, failovers, count, overlap, outcome>>
      BY DEF From, Running, NoRemote, Stages
    <2>2. \E point \in Stages : From(n, point)
      BY DEF Enter, StopPrior, StartTarget, Commit, TakeAway, GiveBack, Stages
    <2> QED BY <2>1, <2>2
  <1>2. remote[n] \in Remotes /\ app[n] \in Apps
    BY <1>1 DEF Running
  <1>3. {Target(n), Prior(n), Halted(n), app[n], [image |-> remote[n].old, up |-> FALSE]} \subseteq Apps
    <2>1. remote[n].image \in 0..MaxReleases /\ remote[n].old \in 0..MaxReleases
      BY <1>2, NodesAssumption DEF Remotes
    <2>2. Halted(n) \in Apps
      BY <1>2 DEF Apps, Halted
    <2>3. Target(n) \in Apps /\ Prior(n) \in Apps /\ [image |-> remote[n].old, up |-> FALSE] \in Apps
      BY <2>1 DEF Apps, Target, Prior
    <2> QED BY <1>2, <2>2, <2>3
  <1>4. app = [app EXCEPT ![n] = app[n]]
    OBVIOUS
  <1>5. \A point \in Stages : To(n, point) => /\ UNCHANGED <<script, results>>
          /\ remote' = [remote EXCEPT ![n].at = point] /\ remote'[n].at = point
    BY <1>1, <1>2 DEF To, Remotes
  <1>6. CASE Enter(n)
    <2>1. app' = [app EXCEPT ![n] = app[n]]
      BY <1>4, <1>6 DEF Enter
    <2>2. CASE app[n] = Target(n) /\ Reports(n, "unchanged")
      BY <1>1, <1>3, <2>1, <2>2 DEF StepOf, NodeResults
    <2>3. CASE To(n, "candidate")
      BY <1>1, <1>3, <1>5, <2>1, <2>3 DEF StepOf, Stages
    <2>4. CASE Reports(n, "blocked")
      BY <1>1, <1>3, <2>1, <2>4 DEF StepOf, NodeResults
    <2> QED BY <1>6, <2>2, <2>3, <2>4 DEF Enter
  <1>7. CASE StopPrior(n)
    <2>1. CASE Installs(n, {app[n], Halted(n)}) /\ (To(n, "stopped") \/ To(n, "undo"))
      BY <1>1, <1>3, <1>5, <2>1 DEF StepOf, Stages, Installs
    <2>2. CASE UNCHANGED app /\ Reports(n, "blocked")
      BY <1>1, <1>3, <1>4, <2>2 DEF StepOf, NodeResults
    <2> QED BY <1>7, <2>1, <2>2 DEF StopPrior, Installs
  <1>8. CASE StartTarget(n)
    <2>1. CASE Installs(n, {Target(n)}) /\ To(n, "started")
      <3>1. app' = [app EXCEPT ![n] = Target(n)] /\ app'[n] = Target(n)
        BY <2>1 DEF Installs
      <3> QED BY <1>1, <1>3, <1>5, <2>1, <3>1 DEF StepOf, Stages
    <2>2. CASE Installs(n, {app[n], Target(n)}) /\ To(n, "undo")
      BY <1>1, <1>3, <1>5, <2>2 DEF StepOf, Stages, Installs
    <2> QED BY <1>8, <2>1, <2>2 DEF StartTarget
  <1>9. CASE Commit(n)
    <2>1. app' = [app EXCEPT ![n] = app[n]] /\ app'[n] = app[n] /\ remote[n].at = "started"
      BY <1>4, <1>9 DEF Commit, From
    <2>2. CASE Reports(n, "deployed")
      BY <1>1, <1>3, <2>1, <2>2 DEF StepOf, NodeResults, StartedServes
    <2>3. CASE To(n, "undo")
      BY <1>1, <1>3, <1>5, <2>1, <2>3 DEF StepOf, Stages
    <2> QED BY <1>9, <2>2, <2>3 DEF Commit
  <1>10. CASE TakeAway(n)
    <2>1. PICK gone \in Apps :
            \/ Installs(n, {gone}) /\ To(n, "back")
            \/ Installs(n, {app[n], gone}) /\ Reports(n, "blocked")
      BY <1>3, <1>10 DEF TakeAway
    <2>2. CASE Installs(n, {gone}) /\ To(n, "back")
      BY <1>1, <1>5, <2>2 DEF StepOf, Stages, Installs
    <2>3. CASE Installs(n, {app[n], gone}) /\ Reports(n, "blocked")
      BY <1>1, <1>3, <2>3 DEF StepOf, NodeResults, Installs
    <2> QED BY <2>1, <2>2, <2>3
  <1>11. CASE GiveBack(n)
    <2>1. PICK said \in {"rolledback", "blocked"} :
            Installs(n, {app[n], Prior(n)}) /\ Reports(n, said)
      BY <1>11 DEF GiveBack, Installs
    <2> QED BY <1>1, <1>3, <2>1 DEF StepOf, NodeResults, Installs
  <1> QED BY <1>6, <1>7, <1>8, <1>9, <1>10, <1>11

\* What a step leaves of the other releases.
LEMMA StepTyped ==
  ASSUME ReleaseInv, NEW n \in Nodes, StepOf(n)
  PROVE  ReleaseTypeOK'
  <1> USE DEF ReleaseInv, ReleaseTypeOK
  <1>1. app' \in [Nodes -> Apps] /\ UNCHANGED <<primary, failovers, count, overlap, outcome>>
    BY DEF StepOf
  <1>2. remote[n] \in Remotes
    BY DEF StepOf, Running
  <1>3. CASE UNCHANGED <<script, results>> /\ \E point \in Stages : remote' = [remote EXCEPT ![n].at = point]
    <2>1. \A point \in Stages : [remote[n] EXCEPT !.at = point] \in Remotes
      BY <1>2 DEF Remotes
    <2> QED BY <1>1, <1>3, <2>1
  <1>4. CASE \E said \in NodeResults : Reports(n, said)
    <2>1. remote' \in [Nodes -> Remotes \cup {NoRemote}] /\ results' \in [Nodes -> NodeResults]
      BY <1>4 DEF Reports
    <2>2. script' \in Pipelines \cup {NoScript}
      <3>1. CASE UNCHANGED script
        BY <3>1
      <3>2. CASE remote[n].awaited
        <4>1. script \in Pipelines
          BY <3>2 DEF StepOf, Awaited
        <4>2. [script EXCEPT !.at = "answer"] \in Pipelines
          BY <4>1 DEF Pipelines, Points
        <4> QED BY <1>4, <3>2, <4>2 DEF Reports
      <3> QED BY <1>4, <3>1, <3>2 DEF Reports
    <2> QED BY <1>1, <2>1, <2>2
  <1> QED BY <1>3, <1>4 DEF StepOf

LEMMA StepKept ==
  ASSUME ReleaseInv, NEW n \in Nodes, StepOf(n)
  PROVE  ReleaseInv'
  <1>1. ReleaseTypeOK' /\ n \in Running /\ overlap' = overlap
    BY StepTyped DEF StepOf
  <1>2. \A k \in Nodes \ {n} : app'[k] = app[k]
    BY DEF StepOf, ReleaseInv, ReleaseTypeOK
  <1>3. ~overlap => Running = {n}
    <2>1. ~overlap => Other(n) \notin Running
      BY <1>1 DEF ReleaseInv, RemoteSound
    <2> QED BY <1>1, <2>1, OtherNode DEF Running
  <1>4. remote \in [Nodes -> Remotes \cup {NoRemote}] /\ remote[n] \in Remotes
    BY <1>1 DEF ReleaseInv, ReleaseTypeOK, Running
  <1>5. CASE /\ UNCHANGED <<script, results>>
             /\ \E point \in Stages : remote' = [remote EXCEPT ![n].at = point]
             /\ remote'[n].at = "started" => app'[n] = Target(n)
    <2>1. PICK point \in Stages : remote' = [remote EXCEPT ![n].at = point]
      BY <1>5
    <2>2. /\ \A k \in Nodes \ {n} : remote'[k] = remote[k]
          /\ remote'[n] = [remote[n] EXCEPT !.at = point]
      BY <1>4, <2>1
    <2>3. /\ remote'[n] # NoRemote /\ remote[n] # NoRemote
          /\ remote'[n].image = remote[n].image /\ remote'[n].main = remote[n].main
          /\ remote'[n].awaited = remote[n].awaited
      BY <1>1, <1>4, <2>2 DEF Remotes, NoRemote, Running
    <2>4. Running' = Running /\ Done' = Done /\ \A k \in Nodes : Target(k)' = Target(k)
      BY <1>5, <2>2, <2>3 DEF Running, Done, Target
    <2>5. \A k \in Running : remote'[k].awaited = remote[k].awaited /\ remote'[k].image = remote[k].image
      BY <2>2, <2>3 DEF Running
    <2>6. Awaited'
      BY <1>5, <2>4, <2>5 DEF Awaited, ReleaseInv
    <2>7. MainKnown'
      BY <1>5, <2>4 DEF MainKnown, ReleaseInv
    <2>8. ScriptSound'
      <3> SUFFICES ASSUME script # NoScript, ~overlap
                   PROVE  /\ \A k \in Done : app'[k] = [image |-> script.image, up |-> TRUE]
                          /\ script.at = "wait" /\ remote[n].awaited
        BY <1>1, <1>3, <1>5, <2>4, <2>5 DEF ScriptSound
      <3>1. remote[n].awaited
        BY <1>1 DEF ReleaseInv, ScriptSound
      <3>2. script.at = "wait" /\ n \notin Done
        BY <1>1, <3>1 DEF ReleaseInv, Awaited
      <3> QED BY <1>2, <3>1, <3>2 DEF ReleaseInv, ScriptSound, Done
    <2>9. RemoteSound'
      <3> SUFFICES ASSUME ~overlap PROVE Other(n) \notin Running /\ InOrder(n)'
        BY <1>1, <1>3, <2>4 DEF RemoteSound
      <3>1. Other(n) \notin Running /\ InOrder(n)
        BY <1>1 DEF ReleaseInv, RemoteSound
      <3>2. app'[Other(n)] = app[Other(n)]
        BY <1>2, OtherNode
      <3> QED BY <2>3, <2>4, <3>1, <3>2 DEF InOrder
    <2>10. StartedServes'
      BY <1>1, <1>3, <1>5, <2>4 DEF StartedServes
    <2> QED BY <1>1, <2>6, <2>7, <2>8, <2>9, <2>10 DEF ReleaseInv
  <1>6. ASSUME NEW said \in NodeResults, Reports(n, said),
               (said \in {"deployed", "unchanged"} /\ ~overlap) => app'[n] = Target(n)
        PROVE  ReleaseInv'
    <2>1. /\ remote'[n] = NoRemote /\ \A k \in Nodes \ {n} : remote'[k] = remote[k]
      BY <1>4, <1>6 DEF Reports
    <2>2. Running' = Running \ {n} /\ (~overlap => Running' = {})
      BY <1>3, <2>1 DEF Running
    <2>3. RemoteSound' /\ StartedServes'
      <3>1. CASE overlap
        BY <1>1, <3>1 DEF RemoteSound, StartedServes
      <3>2. CASE ~overlap
        BY <1>1, <2>2, <3>2 DEF RemoteSound, StartedServes
      <3> QED BY <3>1, <3>2
    <2>4. CASE remote[n].awaited
      <3>1. script # NoScript /\ script.at = "wait" /\ script.image = remote[n].image /\ n \notin Done
        BY <1>1, <2>4 DEF ReleaseInv, Awaited
      <3>2. script \in Pipelines /\ results \in [Nodes -> NodeResults]
        BY <3>1 DEF ReleaseInv, ReleaseTypeOK
      <3>3. /\ script' = [script EXCEPT !.at = "answer"] /\ results' = [results EXCEPT ![n] = said]
        BY <1>6, <2>4 DEF Reports
      <3>4. script'.at = "answer" /\ script'.image = script.image /\ script'.probed = script.probed
        BY <3>2, <3>3 DEF Pipelines
      <3>5. Awaited'
        BY <1>1, <2>1, <2>2, <2>4 DEF Awaited, ReleaseInv, Running
      <3>6. MainKnown'
        BY <3>1, <3>4 DEF MainKnown, ReleaseInv
      <3>7. ScriptSound'
        <4> SUFFICES ASSUME ~overlap, NEW k \in Done'
                     PROVE  app'[k] = [image |-> script.image, up |-> TRUE]
          BY <1>1, <2>2, <3>4 DEF ScriptSound
        <4>1. CASE k = n
          <5>1. said \in {"deployed", "unchanged"}
            BY <3>2, <3>3, <4>1 DEF Done
          <5> QED BY <1>6, <3>1, <4>1, <5>1 DEF Target
        <4>2. CASE k # n
          <5>1. k \in Done
            BY <3>2, <3>3, <4>2 DEF Done
          <5> QED BY <1>2, <3>1, <4>2, <5>1 DEF ReleaseInv, ScriptSound, Done
        <4> QED BY <4>1, <4>2
      <3> QED BY <1>1, <2>3, <3>5, <3>6, <3>7 DEF ReleaseInv
    <2>5. CASE ~remote[n].awaited
      <3>1. UNCHANGED <<script, results>> /\ Done' = Done
        BY <1>6, <2>5 DEF Reports, Done
      <3>2. Awaited'
        BY <2>1, <2>2, <3>1 DEF Awaited, ReleaseInv, Running
      <3>3. MainKnown'
        BY <3>1 DEF MainKnown, ReleaseInv
      <3>4. script = NoScript \/ overlap
        BY <1>1, <2>5 DEF ReleaseInv, ScriptSound
      <3>5. ScriptSound'
        BY <1>1, <3>1, <3>4 DEF ScriptSound
      <3> QED BY <1>1, <2>3, <3>2, <3>3, <3>5 DEF ReleaseInv
    <2> QED BY <2>4, <2>5
  <1> QED BY <1>5, <1>6 DEF StepOf

\* While the pipeline is elsewhere it waits for no release.
LEMMA NobodyWaits ==
  ASSUME ReleaseInv, script.at # "wait"
  PROVE  /\ \A n \in Running : ~remote[n].awaited
         /\ ~overlap /\ script # NoScript => Running = {}
  BY DEF ReleaseInv, Awaited, ScriptSound

\* A pipeline that ends leaves the releases as they are, or forsakes them.
LEMMA ScriptEnds ==
  ASSUME ReleaseInv, Stops,
         \/ UNCHANGED remote /\ script.at # "wait"
         \/ remote' = [n \in Nodes |-> Forsaken(remote[n])]
  PROVE  ReleaseInv'
  <1> USE DEF ReleaseInv, ReleaseTypeOK
  <1>1. script' = NoScript /\ UNCHANGED <<primary, failovers, app, results, count, overlap>>
        /\ outcome' \in Outcomes
    BY DEF Stops, hosts, Status, Outcomes
  <1>2. /\ Running' = Running /\ remote' \in [Nodes -> Remotes \cup {NoRemote}]
        /\ \A n \in Running : /\ ~remote'[n].awaited /\ remote'[n].at = remote[n].at
                              /\ remote'[n].main = remote[n].main /\ remote'[n].image = remote[n].image
    <2>1. CASE UNCHANGED remote /\ script.at # "wait"
      BY <2>1, NobodyWaits DEF Running
    <2>2. CASE remote' = [n \in Nodes |-> Forsaken(remote[n])]
      <3>1. \A n \in Running :
              /\ remote[n] \in Remotes /\ remote'[n] = [remote[n] EXCEPT !.awaited = FALSE]
        BY <2>2 DEF Forsaken, Running
      <3>2. \A n \in Running :
              /\ remote'[n] \in Remotes /\ remote'[n] # NoRemote
              /\ ~remote'[n].awaited /\ remote'[n].at = remote[n].at
              /\ remote'[n].main = remote[n].main /\ remote'[n].image = remote[n].image
        BY <3>1 DEF Remotes, NoRemote
      <3>3. \A n \in Nodes \ Running : remote'[n] = NoRemote
        BY <2>2 DEF Forsaken, Running
      <3>4. remote' = [n \in Nodes |-> remote'[n]]
        BY <2>2
      <3> QED BY <3>2, <3>3, <3>4 DEF Running
    <2> QED BY <2>1, <2>2
  <1>3. \A n \in Running : Target(n)' = Target(n)
    BY <1>2 DEF Target
  <1>4. ReleaseTypeOK'
    BY <1>1, <1>2
  <1>5. Awaited' /\ MainKnown' /\ ScriptSound'
    BY <1>1, <1>2 DEF Awaited, MainKnown, ScriptSound
  <1>6. RemoteSound' /\ StartedServes'
    BY <1>1, <1>2, <1>3 DEF RemoteSound, StartedServes, InOrder
  <1> QED BY <1>4, <1>5, <1>6

LEMMA CallKept ==
  ASSUME ReleaseInv, NEW n \in Nodes, Call(n)
  PROVE  ReleaseInv'
  <1> USE DEF ReleaseInv, ReleaseTypeOK
  <1>1. /\ script.at = "release" /\ script # NoScript /\ script \in Pipelines
        /\ UNCHANGED <<primary, failovers, app, outcome, count, overlap>>
    BY DEF Call, NoScript, hosts
  <1>2. script.main \in Nodes /\ Done # Nodes /\ n \notin Done /\ n \in Nodes /\ script.probed = {}
    <2>1. script.main \in Nodes /\ Done # Nodes /\ script.probed = {}
      BY <1>1 DEF MainKnown
    <2>2. n \in Following
      BY DEF Call
    <2> QED BY <2>1, <2>2, OtherNode DEF Following, Done
  <1>3. \A m \in Running : ~remote[m].awaited
    BY <1>1, NobodyWaits
  <1>4. ~overlap => Running = {}
    BY <1>1, NobodyWaits
  <1>5. CASE n \in Running
    <2>1. /\ results' = [results EXCEPT ![n] = "blocked"] /\ UNCHANGED remote
          /\ script' = [script EXCEPT !.at = "answer"]
      BY <1>5 DEF Call
    <2>2. script' \in Pipelines /\ script'.at = "answer" /\ script'.probed = {} /\ script' # NoScript
      BY <1>1, <1>2, <2>1 DEF Pipelines, Points, NoScript
    <2>3. results' \in [Nodes -> NodeResults]
      BY <2>1 DEF NodeResults
    <2>4. ReleaseTypeOK'
      BY <1>1, <2>1, <2>2, <2>3
    <2>5. overlap' /\ Running' = Running
      BY <1>1, <1>4, <1>5, <2>1 DEF Running
    <2>6. Awaited' /\ MainKnown'
      BY <1>3, <2>1, <2>2, <2>5 DEF Awaited, MainKnown
    <2> QED BY <2>4, <2>5, <2>6 DEF ScriptSound, RemoteSound, StartedServes
  <1>6. CASE n \notin Running
    <2> DEFINE r == [at |-> "begin", image |-> script.image, main |-> script.main,
                     old |-> app[n].image, awaited |-> TRUE]
    <2>1. /\ script' = [script EXCEPT !.at = "wait"] /\ remote' = [remote EXCEPT ![n] = r]
          /\ UNCHANGED results
      BY <1>6 DEF Call
    <2>2. /\ script' \in Pipelines /\ script'.at = "wait" /\ script'.probed = {} /\ script' # NoScript
          /\ script'.image = script.image
      BY <1>1, <1>2, <2>1 DEF Pipelines, Points, NoScript
    <2>3. r \in Remotes /\ r # NoRemote
      BY <1>1, <1>2 DEF Pipelines, Remotes, Stages, Apps, NoRemote
    <2>4. /\ remote'[n] = r /\ \A m \in Nodes \ {n} : remote'[m] = remote[m]
          /\ remote' \in [Nodes -> Remotes \cup {NoRemote}]
      BY <2>1, <2>3
    <2>5. Running' = Running \cup {n} /\ Done' = Done
      BY <1>2, <2>1, <2>3, <2>4 DEF Running, Done
    <2>6. ReleaseTypeOK'
      BY <1>1, <2>1, <2>2, <2>4
    <2>7. Awaited'
      BY <1>2, <1>3, <1>6, <2>2, <2>4, <2>5 DEF Awaited, Running
    <2>8. MainKnown'
      BY <2>2 DEF MainKnown
    <2>9. CASE overlap
      BY <1>1, <2>6, <2>7, <2>8, <2>9 DEF ScriptSound, RemoteSound, StartedServes
    <2>10. CASE ~overlap
      <3>1. Running' = {n}
        BY <1>4, <2>5, <2>10
      <3>2. /\ \A m \in Done : app[m] = [image |-> script.image, up |-> TRUE]
            /\ \A m \in Nodes : app[m].up
        BY <1>1, <2>10 DEF ScriptSound
      <3>3. ScriptSound'
        <4>1. \A m \in Done' : app'[m] = [image |-> script'.image, up |-> TRUE]
          BY <1>1, <2>2, <2>5, <3>2
        <4>2. \A m \in Running' : remote'[m].awaited
          BY <2>4, <3>1
        <4> QED BY <2>2, <4>1, <4>2 DEF ScriptSound
      <3>4. script.main = n => Other(n) \in Done
        BY <1>2, OtherNode DEF Call, Following
      <3>5. InOrder(n)'
        <4>1. app'[Other(n)].up
          BY <1>1, <3>2, OtherNode
        <4>2. remote'[n].main = n => app'[Other(n)] = [image |-> remote'[n].image, up |-> TRUE]
          <5>1. remote'[n].main = script.main /\ remote'[n].image = script.image
            BY <2>4
          <5> QED BY <1>1, <3>2, <3>4, <5>1
        <4> QED BY <4>1, <4>2 DEF InOrder, Target
      <3>6. Other(n) # n
        BY OtherNode
      <3> QED BY <2>4, <2>6, <2>7, <2>8, <3>1, <3>3, <3>5, <3>6 DEF RemoteSound, StartedServes
    <2> QED BY <2>9, <2>10
  <1> QED BY <1>5, <1>6

LEMMA ReleaseKept == ReleaseInv /\ [ReleaseNext]_releaseVars => ReleaseInv'
  <1> SUFFICES ASSUME ReleaseInv, [ReleaseNext]_releaseVars PROVE ReleaseInv'
    OBVIOUS
  <1> USE DEF ReleaseInv, ReleaseTypeOK
  \* Nothing but the pipeline, the releases and their effects is told apart.
  <1>a. ASSUME UNCHANGED <<app, remote, results, overlap>>
        PROVE  RemoteSound' /\ StartedServes' /\ Running' = Running /\ Done' = Done
    BY <1>a DEF RemoteSound, StartedServes, Running, Done, InOrder, Target
  <1>0. ASSUME UNCHANGED <<app, script, remote, results, overlap>>
        PROVE  Awaited' /\ MainKnown' /\ ScriptSound' /\ RemoteSound' /\ StartedServes'
    BY <1>0, <1>a DEF Awaited, MainKnown, ScriptSound
  <1>1. CASE Failover
    <2>1. primary' \in Nodes
      BY <1>1, OtherNode DEF Failover
    <2>2. failovers' \in 0..MaxFailovers
      BY <1>1, NodesAssumption DEF Failover
    <2> QED BY <1>0, <1>1, <2>1, <2>2 DEF Failover
  <1>2. ASSUME NEW image \in 1 .. MaxReleases, Start(image)
        PROVE  ReleaseInv'
    <2>1. /\ script = NoScript /\ script.at # "wait" /\ overlap' = (Running # {})
          /\ UNCHANGED <<primary, failovers, app, remote>> /\ count' = image
          /\ script' = [at |-> "probe", probed |-> {}, main |-> "unknown", image |-> image]
          /\ results' = [n \in Nodes |-> "none"] /\ outcome' = "none"
      BY <1>2 DEF Start, hosts, NoScript
    <2>2. results' \in [Nodes -> NodeResults] /\ Done' = {} /\ outcome' \in Outcomes
      BY <2>1 DEF NodeResults, Outcomes, Done
    <2>3. script' \in Pipelines /\ count' \in 0..MaxReleases
      BY <2>1 DEF Pipelines, Points
    <2>4. ReleaseTypeOK'
      <3>1. overlap' \in BOOLEAN
        BY <2>1
      <3> QED BY <2>1, <2>2, <2>3, <3>1
    <2>5. \A n \in Running : ~remote[n].awaited
      BY <2>1, NobodyWaits
    <2>6. Running' = Running
      BY <2>1 DEF Running
    <2>7. Awaited' /\ MainKnown'
      BY <2>1, <2>5, <2>6 DEF Awaited, MainKnown
    <2>8. ScriptSound' /\ RemoteSound' /\ StartedServes'
      BY <2>1, <2>2, <2>6 DEF ScriptSound, RemoteSound, StartedServes
    <2> QED BY <2>4, <2>7, <2>8
  <1>3. ASSUME NEW n \in Nodes, Probe(n) PROVE ReleaseInv'
    <2>1. /\ script.at = "probe" /\ script # NoScript /\ script \in Pipelines /\ app[n].up
          /\ script' = [script EXCEPT !.probed = @ \cup {n}, !.main = primary]
          /\ UNCHANGED <<primary, failovers, app, remote, results, outcome, count, overlap>>
      BY <1>3 DEF Probe, hosts, NoScript
    <2>2. /\ script' \in Pipelines /\ script'.at = "probe" /\ script'.main = primary
          /\ script'.probed = script.probed \cup {n} /\ script'.image = script.image /\ script' # NoScript
      BY <2>1 DEF Pipelines, NoScript
    <2>3. ReleaseTypeOK'
      BY <2>1, <2>2
    <2>4. \A m \in Running : ~remote[m].awaited
      BY <2>1, NobodyWaits
    <2>5. RemoteSound' /\ StartedServes' /\ Running' = Running /\ Done' = Done
      BY <1>a, <2>1
    <2>6. Awaited' /\ MainKnown'
      BY <2>1, <2>2, <2>4, <2>5 DEF Awaited, MainKnown
    <2>7. ScriptSound'
      <3> SUFFICES ASSUME ~overlap
                   PROVE  /\ \A m \in Done : app[m] = [image |-> script.image, up |-> TRUE]
                          /\ \A m \in script.probed \cup {n} : app[m].up
                          /\ \A m \in Running : remote[m].awaited
        BY <2>1, <2>2, <2>5 DEF ScriptSound
      <3> QED BY <2>1 DEF ScriptSound
    <2> QED BY <2>3, <2>5, <2>6, <2>7
  <1>4. CASE Probed
    <2>1. /\ script.at = "probe" /\ script # NoScript /\ script \in Pipelines /\ script.probed = Nodes
          /\ UNCHANGED <<primary, failovers, app, remote, results, count, overlap>>
      BY <1>4 DEF Probed, hosts, NoScript
    <2>2. \A m \in Running : ~remote[m].awaited
      BY <2>1, NobodyWaits
    <2>3. RemoteSound' /\ StartedServes' /\ Running' = Running /\ Done' = Done
      BY <1>a, <2>1
    <2>5. CASE Done = Nodes
      <3>1. script' = NoScript /\ outcome' \in Outcomes
        BY <1>4, <2>5 DEF Probed, Outcomes
      <3>2. ReleaseTypeOK'
        BY <2>1, <3>1
      <3> QED BY <2>1, <2>2, <2>3, <3>1, <3>2 DEF Awaited, MainKnown, ScriptSound
    <2>6. CASE Done # Nodes
      <3>1. script' = [script EXCEPT !.at = "release", !.probed = {}] /\ outcome' = outcome
        BY <1>4, <2>6 DEF Probed
      <3>2. script' \in Pipelines /\ script'.at = "release" /\ script'.probed = {}
            /\ script'.main = script.main /\ script'.image = script.image /\ script' # NoScript
        BY <2>1, <3>1 DEF Pipelines, Points, NoScript
      <3>3. ReleaseTypeOK'
        BY <2>1, <3>1, <3>2
      <3>4. script.main \in Nodes
        BY <2>1, NodesAssumption, FS_EmptySet DEF MainKnown
      <3>5. Awaited' /\ MainKnown'
        BY <2>1, <2>2, <2>3, <2>6, <3>2, <3>4 DEF Awaited, MainKnown
      <3>6. ScriptSound'
        <4> SUFFICES ASSUME ~overlap
                     PROVE  /\ \A m \in Done : app[m] = [image |-> script.image, up |-> TRUE]
                            /\ \A m \in Nodes : app[m].up
                            /\ \A m \in Running : remote[m].awaited
          BY <2>1, <2>3, <3>2 DEF ScriptSound
        <4> QED BY <2>1 DEF ScriptSound
      <3> QED BY <2>3, <3>3, <3>5, <3>6
    <2> QED BY <2>5, <2>6
  <1>5. CASE Fails
    BY <1>5, ScriptEnds DEF Fails
  <1>6. CASE Forsake
    BY <1>6, ScriptEnds DEF Forsake
  <1>7. CASE Answered
    <2>1. CASE Reported = Done
      <3>1. /\ script.at = "answer" /\ script # NoScript /\ script \in Pipelines
            /\ script' = [script EXCEPT !.at = "probe"]
            /\ UNCHANGED <<primary, failovers, app, remote, results, outcome, count, overlap>>
        BY <1>7, <2>1 DEF Answered, hosts, NoScript
      <3>2. script' \in Pipelines /\ script'.at = "probe" /\ script'.probed = script.probed
            /\ script'.image = script.image /\ script' # NoScript
        BY <3>1 DEF Pipelines, Points, NoScript
      <3>3. ReleaseTypeOK' /\ script.probed = {}
        BY <3>1, <3>2 DEF MainKnown
      <3>4. \A m \in Running : ~remote[m].awaited
        BY <3>1, NobodyWaits
      <3>5. RemoteSound' /\ StartedServes' /\ Running' = Running /\ Done' = Done
        BY <1>a, <3>1
      <3>6. Awaited' /\ MainKnown'
        BY <3>1, <3>2, <3>3, <3>4, <3>5 DEF Awaited, MainKnown
      <3>7. ScriptSound'
        <4> SUFFICES ASSUME ~overlap
                     PROVE  /\ \A m \in Done : app[m] = [image |-> script.image, up |-> TRUE]
                            /\ \A m \in Running : remote[m].awaited
          BY <3>1, <3>2, <3>3, <3>5 DEF ScriptSound
        <4> QED BY <3>1 DEF ScriptSound
      <3> QED BY <3>3, <3>5, <3>6, <3>7
    <2>2. CASE Reported # Done
      BY <1>7, <2>2, ScriptEnds DEF Answered
    <2> QED BY <2>1, <2>2
  <1>8. ASSUME NEW n \in Nodes, Call(n) PROVE ReleaseInv'
    BY <1>8, CallKept
  <1>9. ASSUME NEW n \in Nodes,
               Enter(n) \/ StopPrior(n) \/ StartTarget(n) \/ Commit(n) \/ TakeAway(n) \/ GiveBack(n)
        PROVE  ReleaseInv'
    BY <1>9, RemoteSteps, StepKept
  <1>10. ASSUME NEW n \in Nodes, Dies(n) PROVE ReleaseInv'
    <2>1. /\ n \in Running /\ remote' = [remote EXCEPT ![n] = NoRemote]
          /\ UNCHANGED <<primary, failovers, app, results, count, overlap>>
      BY <1>10 DEF Dies, Stops, hosts
    <2>2. /\ \A m \in Nodes \ {n} : remote'[m] = remote[m]
          /\ Running' = Running \ {n} /\ Done' = Done
      BY <2>1 DEF Running, Done
    <2>3. outcome' \in Outcomes
      BY <1>10 DEF Dies, Stops, Status, Outcomes
    <2>4. \A m \in Running' : m \in Running /\ remote'[m] = remote[m] /\ Target(m)' = Target(m)
      BY <2>2 DEF Running, Target
    <2>5. RemoteSound' /\ StartedServes'
      BY <2>1, <2>2, <2>4 DEF RemoteSound, StartedServes, InOrder
    <2>6. CASE remote[n].awaited
      <3>1. script' = NoScript
        BY <1>10, <2>6 DEF Dies, Stops
      <3>2. \A m \in Running' : ~remote'[m].awaited
        BY <2>1, <2>2, <2>4, <2>6 DEF Awaited
      <3>3. Awaited' /\ MainKnown' /\ ScriptSound'
        BY <3>1, <3>2 DEF Awaited, MainKnown, ScriptSound
      <3> QED BY <2>1, <2>3, <2>5, <3>1, <3>3
    <2>7. CASE ~remote[n].awaited
      <3>1. UNCHANGED script
        BY <1>10, <2>7 DEF Dies
      <3>2. Awaited' /\ MainKnown' /\ ScriptSound'
        BY <2>1, <2>2, <2>4, <3>1 DEF Awaited, MainKnown, ScriptSound
      <3> QED BY <2>1, <2>3, <2>5, <3>1, <3>2
    <2> QED BY <2>6, <2>7
  <1>11. ASSUME NEW n \in Nodes, NEW image \in 0 .. MaxReleases, Repair(n, image)
         PROVE  ReleaseInv'
    <2>1. /\ script = NoScript /\ n \notin Running /\ ~app[n].up /\ outcome' = "none"
          /\ app' = [app EXCEPT ![n] = [image |-> image, up |-> TRUE]]
          /\ UNCHANGED <<primary, failovers, script, remote, results, count, overlap>>
      BY <1>11 DEF Repair
    <2>2. [image |-> image, up |-> TRUE] \in Apps /\ outcome' \in Outcomes
      BY <2>1 DEF Apps, Outcomes
    <2>3. ReleaseTypeOK' /\ Running' = Running
      BY <2>1, <2>2 DEF Running
    <2>4. ~overlap => Running = {}
      <3> SUFFICES ASSUME ~overlap, NEW m \in Running PROVE FALSE
        OBVIOUS
      <3>1. m \in Nodes /\ Other(m) = n
        BY <2>1, OtherNode DEF Running
      <3> QED BY <2>1, <3>1 DEF RemoteSound, InOrder
    <2>5. Awaited' /\ MainKnown' /\ ScriptSound'
      BY <2>1, <2>3 DEF Awaited, MainKnown, ScriptSound, Done
    <2>6. RemoteSound' /\ StartedServes'
      BY <2>1, <2>3, <2>4 DEF RemoteSound, StartedServes
    <2> QED BY <2>3, <2>5, <2>6
  <1>12. CASE UNCHANGED releaseVars
    BY <1>0, <1>12 DEF releaseVars
  <1> QED BY <1>1, <1>2, <1>3, <1>4, <1>5, <1>6, <1>7, <1>8, <1>9, <1>10, <1>11, <1>12 DEF ReleaseNext

\* Whatever changes of the primary, commands that fail and SSH calls given up: a release
\* changes a node's application only while the other one serves, and the primary's
\* node is changed only after the other one serves the new application, unless a
\* pipeline was begun while a release of an earlier one still ran (orchestrate,
\* Node.release).
THEOREM StandbyIsFirst == ReleaseSpec => StandbyFirst
  <1>1. ReleaseInv /\ [ReleaseNext]_releaseVars =>
        [~overlap => \A n \in Running : app'[n] # app[n] => InOrder(n)]_releaseVars
    BY DEF ReleaseInv, RemoteSound
  <1> QED BY <1>1, ReleaseStarts, ReleaseKept, PTL DEF ReleaseSpec, StandbyFirst

-----------------------------------------------------------------------------
(* The staging of public assets.                                           *)

\* What a stage, published or in the making, may be: its versions agree, and hold
\* those of the stage it continues, which is published.
Continues(record, published) ==
  /\ Agree(record.versions)
  /\ record.previous # NoStage =>
       /\ published[record.previous] # NoStage
       /\ published[record.previous].versions \subseteq record.versions

StagesSound ==
  /\ \A s \in StageIds : stages[s] # NoStage => Continues(stages[s], stages)
  /\ work # NoStage => Continues(work, stages)

\* What is installed is published.
InstallSound == install # NoStage => stages[install] # NoStage

AssetsInv == AssetsTypeOK /\ StagesSound /\ InstallSound

\* A published stage stays, with its versions: only its bytes may be spoiled.
StagesStay ==
  \A s \in StageIds : stages[s] # NoStage =>
    /\ stages'[s] # NoStage
    /\ stages'[s].versions = stages[s].versions
    /\ stages'[s].previous = stages[s].previous

LEMMA AssetsStart == AssetsInit => AssetsInv
  BY AssetsAssumption DEF AssetsInit, AssetsInv, AssetsTypeOK, StagesSound, InstallSound

LEMMA ContinuesStays ==
  ASSUME StagesStay, NEW record \in StageRecords, Continues(record, stages)
  PROVE  Continues(record, stages')
  BY DEF StagesStay, Continues, StageRecords

LEMMA SpoilStageKeeps ==
  ASSUME AssetsInv, NEW s \in StageIds, NEW b \in Bundles, SpoilStage(s, b) PROVE AssetsInv'
  <1> USE AssetsAssumption DEF AssetsInv
  <1> DEFINE spoiled == [stages[s] EXCEPT !.spoiled = @ \cup {b}]
  <1>1. stages[s] \in StageRecords /\ stages[s] # NoStage
    BY DEF SpoilStage, AssetsTypeOK
  <1>2. /\ spoiled \in StageRecords /\ spoiled # NoStage
        /\ spoiled.versions = stages[s].versions /\ spoiled.previous = stages[s].previous
    BY <1>1 DEF StageRecords
  <1>3. /\ stages' = [stages EXCEPT ![s] = spoiled]
        /\ bundle' = bundle /\ work' = work /\ install' = install
    BY DEF SpoilStage
  <1> HIDE DEF spoiled
  <1>4. AssetsTypeOK'
    BY <1>2, <1>3 DEF AssetsTypeOK
  <1>5. /\ stages'[s] = spoiled
        /\ \A t \in StageIds : t # s => stages'[t] = stages[t]
    BY <1>3 DEF AssetsTypeOK
  <1>6. StagesStay
    BY <1>2, <1>5 DEF StagesStay
  <1>7. ASSUME NEW t \in StageIds, stages'[t] # NoStage PROVE Continues(stages'[t], stages')
    <2>1. stages[t] \in StageRecords /\ Continues(stages[t], stages)
      BY <1>1, <1>5, <1>7 DEF StagesSound, AssetsTypeOK
    <2>2. Continues(stages[t], stages')
      BY <1>6, <2>1, ContinuesStays
    <2>3. stages'[t].versions = stages[t].versions /\ stages'[t].previous = stages[t].previous
      BY <1>2, <1>5
    <2> QED BY <2>2, <2>3 DEF Continues
  <1>8. work' # NoStage => Continues(work', stages')
    BY <1>3, <1>6, ContinuesStays DEF StagesSound, AssetsTypeOK
  <1>9. InstallSound'
    BY <1>3, <1>6 DEF InstallSound, StagesStay, AssetsTypeOK
  <1> QED BY <1>4, <1>7, <1>8, <1>9 DEF StagesSound

LEMMA VerifyAllKeeps ==
  ASSUME AssetsInv, NEW B \in SUBSET Bundles, NEW s \in {NoStage} \cup StageIds, VerifyAll(B, s)
  PROVE  AssetsInv'
  <1> USE AssetsAssumption DEF AssetsInv
  <1> DEFINE V == Retained(B, s)
             record == [versions |-> V, previous |-> s, spoiled |-> {}]
  <1>1. /\ work' = record /\ bundle' = bundle /\ stages' = stages /\ install' = install
        /\ Agree(V) /\ Within(V) /\ (s # NoStage => stages[s] # NoStage)
    BY DEF VerifyAll, Whole
  <1>2. s # NoStage => stages[s] \in StageRecords
    BY <1>1 DEF AssetsTypeOK
  <1>3. V \in SUBSET Bundles
    BY <1>2 DEF Retained, StageRecords, Bounded
  <1>4. record \in StageRecords
    BY <1>1, <1>3 DEF StageRecords, Bounded, Within
  <1>5. s # NoStage => stages[s].versions \subseteq V
    BY DEF Retained
  <1>6. Continues(record, stages)
    BY <1>1, <1>5 DEF Continues
  <1> HIDE DEF record
  <1>7. AssetsTypeOK'
    BY <1>1, <1>4 DEF AssetsTypeOK
  <1>8. StagesSound' /\ InstallSound'
    BY <1>1, <1>6 DEF StagesSound, InstallSound
  <1> QED BY <1>7, <1>8

LEMMA PublishKeeps ==
  ASSUME AssetsInv, NEW s \in StageIds, Publish(s) PROVE AssetsInv'
  <1> USE AssetsAssumption DEF AssetsInv
  <1> DEFINE record == [work EXCEPT !.spoiled = Copied]
  <1>1. /\ work \in StageRecords /\ work # NoStage /\ stages[s] = NoStage
        /\ stages' = [stages EXCEPT ![s] = record]
        /\ work' = NoStage /\ bundle' = bundle /\ install' = install
    BY DEF Publish, AssetsTypeOK
  <1>2. /\ record \in StageRecords /\ record # NoStage
        /\ record.versions = work.versions /\ record.previous = work.previous
    <2>1. Copied \in SUBSET Bundles
      BY <1>1 DEF Copied, StageRecords, Bounded
    <2> QED BY <1>1, <2>1 DEF StageRecords
  <1> HIDE DEF record
  <1>3. /\ stages'[s] = record
        /\ \A t \in StageIds : t # s => stages'[t] = stages[t]
    BY <1>1 DEF AssetsTypeOK
  <1>4. AssetsTypeOK'
    BY <1>1, <1>2 DEF AssetsTypeOK
  <1>5. StagesStay
    BY <1>1, <1>3 DEF StagesStay
  <1>6. ASSUME NEW t \in StageIds, stages'[t] # NoStage PROVE Continues(stages'[t], stages')
    <2>1. CASE t = s
      <3>1. Continues(work, stages')
        BY <1>1, <1>5, ContinuesStays DEF StagesSound
      <3> QED BY <1>2, <1>3, <2>1, <3>1 DEF Continues
    <2>2. CASE t # s
      <3>1. stages'[t] = stages[t] /\ stages[t] \in StageRecords /\ Continues(stages[t], stages)
        BY <1>3, <1>6, <2>2 DEF StagesSound, AssetsTypeOK
      <3> QED BY <1>5, <3>1, ContinuesStays
    <2> QED BY <2>1, <2>2
  <1>7. InstallSound'
    BY <1>1, <1>5 DEF InstallSound, StagesStay, AssetsTypeOK
  <1> QED BY <1>1, <1>4, <1>6, <1>7 DEF StagesSound

LEMMA AssetsKept == AssetsInv /\ [AssetsNext]_assetVars => AssetsInv'
  <1> SUFFICES ASSUME AssetsInv, [AssetsNext]_assetVars PROVE AssetsInv'
    OBVIOUS
  <1>1. ASSUME NEW b \in Bundles, Build(b) \/ SpoilBundle(b) PROVE AssetsInv'
    <2>1. /\ bundle' \in [Bundles -> {"none", "whole", "spoiled"}]
          /\ stages' = stages /\ work' = work /\ install' = install
      BY <1>1 DEF Build, SpoilBundle, AssetsInv, AssetsTypeOK
    <2> QED BY <2>1 DEF AssetsInv, AssetsTypeOK, StagesSound, InstallSound
  <1>2. ASSUME NEW s \in StageIds, NEW b \in Bundles, SpoilStage(s, b) PROVE AssetsInv'
    BY <1>2, SpoilStageKeeps
  <1>3. ASSUME NEW B \in SUBSET Bundles, NEW s \in {NoStage} \cup StageIds, VerifyAll(B, s)
        PROVE  AssetsInv'
    BY <1>3, VerifyAllKeeps
  <1>4. ASSUME NEW s \in StageIds, Publish(s) PROVE AssetsInv'
    BY <1>4, PublishKeeps
  <1>5. CASE Abandon
    BY <1>5 DEF Abandon, AssetsInv, AssetsTypeOK, StagesSound, InstallSound
  <1>6. ASSUME NEW s \in StageIds, InstallStage(s) PROVE AssetsInv'
    BY <1>6 DEF InstallStage, Whole, AssetsInv, AssetsTypeOK, StagesSound, InstallSound
  <1>7. CASE UNCHANGED assetVars
    BY <1>7 DEF assetVars, AssetsInv, AssetsTypeOK, StagesSound, InstallSound
  <1> QED BY <1>1, <1>2, <1>3, <1>4, <1>5, <1>6, <1>7 DEF AssetsNext

\* Where the larger of two sets of versions agrees, it serves what the smaller does.
LEMMA LargerServesTheSame ==
  ASSUME NEW s \in StageIds, NEW t \in StageIds, NEW u \in Urls,
         Agree(stages[t].versions), stages[s].versions \subseteq stages[t].versions,
         Served(s, u) # {}
  PROVE  Served(t, u) = Served(s, u)
  <1>1. PICK b \in stages[s].versions : u \in Published(b)
    BY DEF Served
  <1>2. \A c \in stages[t].versions : u \in Published(c) => Content[c][u] = Content[b][u]
    BY <1>1 DEF Agree
  <1> QED BY <1>1, <1>2 DEF Served

\* Bundles, stages, the stage in the making and the installed one keep their types;
\* no stage exceeds MAX_VERSIONS (public_assets.py).
THEOREM AssetsTypeCorrect == AssetsSpec => []AssetsTypeOK
  <1>1. AssetsInv => AssetsTypeOK
    BY DEF AssetsInv
  <1> QED BY <1>1, AssetsStart, AssetsKept, PTL DEF AssetsSpec

\* Whatever bundles are built and whatever changes on disk, installing the next stage
\* keeps every URL with its bytes (stage, verify_stage in public_assets.py).
THEOREM UrlsAreKept == AssetsSpec => UrlsKept
  <1> DEFINE BytesKept == \A u \in Urls :
               (install # install' /\ install # NoStage /\ Served(install, u) # {})
                 => Served(install', u) = Served(install, u)
  <1>1. AssetsInv /\ [AssetsNext]_assetVars => [BytesKept]_assetVars
    <2> SUFFICES ASSUME AssetsInv, AssetsNext, install # install', install # NoStage,
                        NEW u \in Urls, Served(install, u) # {}
                 PROVE  Served(install', u) = Served(install, u)
      OBVIOUS
    <2>1. PICK s \in StageIds : InstallStage(s)
      BY DEF AssetsNext, Build, SpoilBundle, SpoilStage, VerifyAll, Publish, Abandon
    <2>2. install' = s /\ stages[s] # NoStage /\ stages[s].previous = install
      BY <2>1 DEF InstallStage, Whole
    <2>3. Agree(stages[s].versions) /\ stages[install].versions \subseteq stages[s].versions
      BY <2>2 DEF AssetsInv, StagesSound, Continues
    <2>4. install \in StageIds
      BY DEF AssetsInv, AssetsTypeOK
    <2> QED BY <2>2, <2>3, <2>4, LargerServesTheSame
  <1> HIDE DEF BytesKept
  <1>2. AssetsSpec => [][BytesKept]_assetVars
    BY <1>1, AssetsStart, AssetsKept, PTL DEF AssetsSpec
  <1> QED BY <1>2 DEF UrlsKept, BytesKept

-----------------------------------------------------------------------------
(* The edge deployment.                                                    *)

\* The releases of R serve a vhost: all those it lists, without a clash.
Serves(R, c) == c.lists \subseteq R /\ Same(c.lists)

\* They serve every vhost that may be loaded, or come back.
ServeAll(R) ==
  /\ Serves(R, vhost) /\ Serves(R, loaded) /\ Serves(R, good)
  /\ \A t \in TxIds : txs[t] # NoOp => Serves(R, txs[t].previous) /\ Serves(R, txs[t].candidate)

\* What a process has done so far, and that it is alone.
ProcessSound(p) == op[p] # NoOp =>
  /\ \A q \in Operators : op[q] # NoOp => q = p
  /\ op[p].old = good
  /\ op[p].step = "collect" => ServeAll(releases \ op[p].made)
  /\ op[p].step = "prepare" => Same(releases)
  /\ op[p].step \notin {"stage", "collect", "prepare"} => op[p].tx \in TxIds /\ txs[op[p].tx] # NoOp
  /\ op[p].step \notin {"reload", "check", "restore"} => vhost = good
  /\ op[p].step \in {"write", "reload", "check", "restore"} => txs[op[p].tx].previous = good
  /\ op[p].step \in {"reload", "check"} => vhost = txs[op[p].tx].candidate
  /\ op[p].step = "restore" => vhost \in {good, txs[op[p].tx].candidate}

\* The good vhost is in place, or one command away.
WayBack == vhost = good \/ \E t \in TxIds : MayRollBack(t) /\ txs[t].previous = good

EdgeInv ==
  EdgeTypeOK /\ WayBack /\ ServeAll(releases) /\ \A p \in Operators : ProcessSound(p)

LEMMA EdgeStarts == EdgeInit => EdgeInv
  <1> SUFFICES ASSUME EdgeInit PROVE EdgeInv
    OBVIOUS
  <1>1. vhost \in Configs /\ vhost.lists = {}
    BY EdgeAssumption DEF EdgeInit, Configs
  <1>2. EdgeTypeOK
    BY <1>1 DEF EdgeInit, EdgeTypeOK
  <1>3. Serves({}, vhost)
    BY <1>1, EdgeAssumption DEF Serves, Same
  <1>4. ServeAll(releases)
    BY <1>3 DEF EdgeInit, ServeAll
  <1> QED BY <1>2, <1>4 DEF EdgeInit, EdgeInv, WayBack, ProcessSound

\* A process that runs is alone, and is what the type says.
LEMMA AtWork ==
  ASSUME EdgeInv, NEW p \in Operators, op[p] # NoOp
  PROVE  /\ op[p] \in Processes
         /\ \A q \in Operators : q # p => op[q] = NoOp
  BY DEF EdgeInv, EdgeTypeOK, ProcessSound

\* A step of a process that goes on, or ends.
LEMMA GoesOn ==
  ASSUME EdgeInv, NEW p \in Operators, NEW j \in {NoOp} \cup Processes,
         op[p] # NoOp \/ Unlocked, op' = [op EXCEPT ![p] = j]
  PROVE  /\ op' \in [Operators -> {NoOp} \cup Processes]
         /\ op'[p] = j
         /\ \A q \in Operators : q # p => op'[q] = NoOp
  <1>1. op \in [Operators -> {NoOp} \cup Processes]
    BY DEF EdgeInv, EdgeTypeOK
  <1>2. \A q \in Operators : q # p => op[q] = NoOp
    BY AtWork DEF Unlocked
  <1> QED BY <1>1, <1>2

\* A process takes a step and is then j; what j says holds.
LEMMA ProcessGoesOn ==
  ASSUME EdgeInv, NEW p \in Operators, NEW j \in {NoOp} \cup Processes,
         op[p] # NoOp \/ Unlocked, op' = [op EXCEPT ![p] = j],
         j # NoOp => ProcessSound(p)'
  PROVE  \A q \in Operators : ProcessSound(q)'
  BY GoesOn DEF ProcessSound

LEMMA GoTyped ==
  ASSUME EdgeInv, NEW p \in Operators, op[p] # NoOp, NEW s \in Steps, Go(p, s)
  PROVE  \E j \in Processes :
           /\ op' = [op EXCEPT ![p] = j] /\ j = [op[p] EXCEPT !.step = s]
           /\ j.step = s /\ j.old = op[p].old /\ j.tx = op[p].tx /\ j.made = op[p].made
  <1>1. op[p] \in Processes
    BY AtWork
  <1>2. [op[p] EXCEPT !.step = s] \in Processes
    BY <1>1 DEF Processes
  <1>3. op' = [op EXCEPT ![p] = [op[p] EXCEPT !.step = s]]
    BY DEF Go
  <1> QED BY <1>1, <1>2, <1>3 DEF Processes

\* Where the releases stay and so do the transactions, what they serve is served on.
StaysListed(c) ==
  c \in {vhost, loaded, good}
    \/ \E t \in TxIds : txs[t] # NoOp /\ c \in {txs[t].previous, txs[t].candidate}

LEMMA StillServe ==
  ASSUME ServeAll(releases), releases \subseteq releases', UNCHANGED txs,
         StaysListed(vhost'), StaysListed(loaded'), StaysListed(good')
  PROVE  ServeAll(releases)'
  BY DEF ServeAll, Serves, Same, StaysListed

LEMMA SetUpKeeps ==
  ASSUME EdgeInv, NEW p \in Operators, NEW v \in Versions, NEW first \in SUBSET Versions,
         Apply(p, first, v)
  PROVE  EdgeInv'
  <1> DEFINE j == [step |-> "stage", todo |-> first \cup {v}, prior |-> first \ {v},
                   made |-> {}, old |-> vhost, tx |-> 0]
  <1>1. /\ op' = [op EXCEPT ![p] = j] /\ Unlocked /\ good' = vhost
        /\ UNCHANGED <<vhost, loaded, releases, litter, txs, reviewed>>
    BY DEF Apply
  <1>2. j \in Processes
    BY DEF Processes, Steps, EdgeInv, EdgeTypeOK
  <1>3. j.step = "stage" /\ j.old = vhost
    OBVIOUS
  <1> HIDE DEF j
  <1>4. op'[p] = j /\ op' \in [Operators -> {NoOp} \cup Processes]
        /\ \A q \in Operators : q # p => op'[q] = NoOp
    BY <1>1, <1>2, GoesOn
  <1>5. EdgeTypeOK'
    BY <1>1, <1>4 DEF EdgeInv, EdgeTypeOK
  <1>6. WayBack'
    BY <1>1 DEF WayBack
  <1>7. ServeAll(releases)'
    BY <1>1, StillServe DEF StaysListed, EdgeInv
  <1>8. ProcessSound(p)'
    BY <1>1, <1>3, <1>4 DEF ProcessSound
  <1> QED BY <1>1, <1>2, <1>5, <1>6, <1>7, <1>8, ProcessGoesOn DEF EdgeInv

\* A process that puts releases in place, and takes back those it made if they clash.
LEMMA InstallKeeps ==
  ASSUME EdgeInv, NEW p \in Operators, InstallRelease(p)
  PROVE  EdgeInv'
  <1> DEFINE j == [op[p] EXCEPT !.step = "collect", !.made = NextStage(p) \ releases]
  <1>1. /\ op' = [op EXCEPT ![p] = j] /\ op[p] # NoOp /\ op[p].step = "stage"
        /\ releases' = releases \cup NextStage(p)
        /\ UNCHANGED <<vhost, loaded, litter, txs, reviewed, good>>
    BY DEF InstallRelease, At
  <1>2. op[p] \in Processes
    BY <1>1, AtWork
  <1>3. NextStage(p) \subseteq Versions
    BY <1>2 DEF NextStage, Processes
  <1>4. j \in Processes /\ j.step = "collect" /\ j.old = op[p].old /\ j.made = NextStage(p) \ releases
    BY <1>2, <1>3 DEF Processes, Steps
  <1> HIDE DEF j
  <1>5. op'[p] = j /\ op' \in [Operators -> {NoOp} \cup Processes]
        /\ \A q \in Operators : q # p => op'[q] = NoOp
    BY <1>1, <1>4, GoesOn
  <1>6. EdgeTypeOK'
    BY <1>1, <1>3, <1>5 DEF EdgeInv, EdgeTypeOK
  <1>7. WayBack'
    BY <1>1 DEF WayBack, EdgeInv, MayRollBack
  <1>8. ServeAll(releases)'
    BY <1>1, StillServe DEF StaysListed, EdgeInv
  <1>9. ServeAll(releases \ op[p].made)'
    BY <1>1, <1>4, <1>5 DEF EdgeInv, ServeAll, Serves, Same
  <1>10. ProcessSound(p)'
    BY <1>1, <1>4, <1>5, <1>9 DEF ProcessSound, EdgeInv
  <1> QED BY <1>1, <1>4, <1>6, <1>7, <1>8, <1>10, ProcessGoesOn DEF EdgeInv

\* A process ends, in whatever step, and leaves what is there.
LEMMA EndKeeps ==
  ASSUME EdgeInv, NEW p \in Operators, op[p] # NoOp, Leave(p),
         litter' \in BOOLEAN, UNCHANGED <<vhost, loaded, releases, txs, reviewed, good>>
  PROVE  EdgeInv'
  <1>1. op' = [op EXCEPT ![p] = NoOp] /\ op' \in [Operators -> {NoOp} \cup Processes]
    BY GoesOn DEF Leave
  <1>2. EdgeTypeOK'
    BY <1>1 DEF EdgeInv, EdgeTypeOK
  <1>3. WayBack' /\ ServeAll(releases)'
    BY DEF WayBack, ServeAll, Serves, Same, EdgeInv, MayRollBack
  <1> QED BY <1>1, <1>2, <1>3, ProcessGoesOn DEF EdgeInv

LEMMA CollectKeeps ==
  ASSUME EdgeInv, NEW p \in Operators, Collect(p)
  PROVE  EdgeInv'
  <1>1. op[p] # NoOp /\ op[p].step = "collect" /\ op[p] \in Processes
        /\ UNCHANGED <<vhost, loaded, litter, txs, reviewed, good>>
    BY AtWork DEF Collect, At
  <1>2. CASE ~litter /\ Same(releases)
    <2> DEFINE s == IF op[p].todo = NextStage(p) THEN "prepare" ELSE "stage"
               j == [op[p] EXCEPT !.prior = {}, !.made = {}, !.todo = @ \ NextStage(p), !.step = s]
    <2>1. op' = [op EXCEPT ![p] = j] /\ UNCHANGED releases
      BY <1>2 DEF Collect
    <2>2. j \in Processes /\ j.step \in {"prepare", "stage"} /\ j.old = op[p].old
      BY <1>1 DEF Processes, Steps
    <2> HIDE DEF j
    <2>3. op'[p] = j /\ op' \in [Operators -> {NoOp} \cup Processes]
          /\ \A q \in Operators : q # p => op'[q] = NoOp
      BY <1>1, <2>1, <2>2, GoesOn
    <2>4. EdgeTypeOK'
      BY <1>1, <2>1, <2>3 DEF EdgeInv, EdgeTypeOK
    <2>5. WayBack'
      BY <1>1, <2>1 DEF WayBack, EdgeInv, MayRollBack
    <2>6. ServeAll(releases)'
      BY <1>1, <2>1, StillServe DEF StaysListed, EdgeInv
    <2>7. Same(releases)'
      BY <1>2, <2>1 DEF Same
    <2>8. ProcessSound(p)'
      BY <1>1, <2>2, <2>3, <2>7 DEF ProcessSound, EdgeInv
    <2> QED BY <1>1, <2>1, <2>2, <2>4, <2>5, <2>6, <2>8, ProcessGoesOn DEF EdgeInv
  <1>3. CASE ~(~litter /\ Same(releases))
    <2>1. releases' = releases \ op[p].made /\ Leave(p)
      BY <1>3 DEF Collect, Withdrawn
    <2>2. op' = [op EXCEPT ![p] = NoOp] /\ op' \in [Operators -> {NoOp} \cup Processes]
      BY <1>1, <2>1, GoesOn DEF Leave
    <2>3. EdgeTypeOK'
      BY <1>1, <2>1, <2>2 DEF EdgeInv, EdgeTypeOK
    <2>4. ServeAll(releases \ op[p].made)
      BY <1>1 DEF EdgeInv, ProcessSound
    <2>5. ServeAll(releases)'
      BY <1>1, <2>1, <2>4 DEF ServeAll, Serves, Same
    <2>6. WayBack'
      BY <1>1, <2>1 DEF WayBack, EdgeInv, MayRollBack
    <2> QED BY <1>1, <2>2, <2>3, <2>5, <2>6, ProcessGoesOn DEF EdgeInv
  <1> QED BY <1>2, <1>3

\* The transaction is new, and what it holds is served.
LEMMA PrepareKeeps ==
  ASSUME EdgeInv, NEW p \in Operators, Prepare(p)
  PROVE  EdgeInv'
  <1> DEFINE x == Tx(op[p].old, Rendered(op[p].old))
  <1>1. PICK t \in TxIds :
          /\ txs[t] = NoOp /\ txs' = [txs EXCEPT ![t] = x]
          /\ op' = [op EXCEPT ![p].step = "write", ![p].tx = t]
    BY DEF Prepare
  <1>2. op[p] # NoOp /\ op[p].step = "prepare" /\ op[p] \in Processes
        /\ UNCHANGED <<vhost, loaded, releases, litter, reviewed, good>>
    BY AtWork DEF Prepare, At
  <1>3. op[p].old = good /\ vhost = good /\ Same(releases) /\ good \in Configs /\ releases \subseteq Versions
    BY <1>2 DEF EdgeInv, ProcessSound, EdgeTypeOK
  <1>4. x \in Transactions /\ x.previous = good /\ x.candidate.lists = releases /\ x # NoOp
    BY <1>3, EdgeAssumption DEF Tx, Rendered, Transactions, Configs, Statuses
  <1> HIDE DEF x
  <1> DEFINE j == [op[p] EXCEPT !.step = "write", !.tx = t]
  <1>5. op' = [op EXCEPT ![p] = j]
    BY <1>1
  <1>6. j \in Processes /\ j.step = "write" /\ j.old = op[p].old /\ j.tx = t
    BY <1>2 DEF Processes, Steps
  <1> HIDE DEF j
  <1>7. op'[p] = j /\ op' \in [Operators -> {NoOp} \cup Processes]
        /\ \A q \in Operators : q # p => op'[q] = NoOp
    BY <1>2, <1>5, <1>6, GoesOn
  <1>8. txs' \in [TxIds -> {NoOp} \cup Transactions] /\ txs'[t] = x
        /\ \A u \in TxIds : u # t => txs'[u] = txs[u]
    BY <1>1, <1>4 DEF EdgeInv, EdgeTypeOK
  <1>9. EdgeTypeOK'
    BY <1>2, <1>7, <1>8 DEF EdgeInv, EdgeTypeOK
  <1>10. WayBack'
    BY <1>2, <1>3 DEF WayBack
  <1>11. ServeAll(releases)'
    <2>1. Serves(releases, x.previous) /\ Serves(releases, x.candidate)
      BY <1>3, <1>4 DEF EdgeInv, ServeAll, Serves
    <2> QED BY <1>2, <1>8, <2>1 DEF EdgeInv, ServeAll, Serves, Same
  <1>12. ProcessSound(p)'
    BY <1>2, <1>3, <1>4, <1>6, <1>7, <1>8 DEF ProcessSound
  <1> QED BY <1>2, <1>5, <1>6, <1>9, <1>10, <1>11, <1>12, ProcessGoesOn DEF EdgeInv

\* The steps that only go on, from the write of the vhost to the way back.
LEMMA WriteKeeps ==
  ASSUME EdgeInv, NEW p \in Operators, NEW s \in Steps,
         op[p] # NoOp, Go(p, s), UNCHANGED <<releases, litter, txs, reviewed, good>>,
         StaysListed(vhost'), StaysListed(loaded'),
         op[p].tx \in TxIds /\ txs[op[p].tx] # NoOp,
         s \notin {"stage", "collect", "prepare"},
         s \in {"write", "reload", "check", "restore"} => txs[op[p].tx].previous = good,
         s \notin {"reload", "check", "restore"} => vhost' = good,
         s \in {"reload", "check"} => vhost' = txs[op[p].tx].candidate,
         s = "restore" => vhost' \in {good, txs[op[p].tx].candidate}
  PROVE  EdgeInv'
  <1>1. PICK j \in Processes :
           /\ op' = [op EXCEPT ![p] = j] /\ j = [op[p] EXCEPT !.step = s]
           /\ j.step = s /\ j.old = op[p].old /\ j.tx = op[p].tx /\ j.made = op[p].made
    BY GoTyped
  <1>2. op'[p] = j /\ op' \in [Operators -> {NoOp} \cup Processes]
        /\ \A q \in Operators : q # p => op'[q] = NoOp
    BY <1>1, GoesOn
  <1>3. vhost' \in Configs /\ loaded' \in Configs
    BY DEF StaysListed, EdgeInv, EdgeTypeOK, Transactions
  <1>4. EdgeTypeOK'
    BY <1>2, <1>3 DEF EdgeInv, EdgeTypeOK
  <1>5. op[p].old = good
    BY DEF EdgeInv, ProcessSound
  <1>6. ServeAll(releases)'
    BY StillServe DEF StaysListed, EdgeInv
  <1>7. ProcessSound(p)'
    BY <1>1, <1>2, <1>5 DEF ProcessSound
  <1>8. WayBack'
    BY DEF WayBack, MayRollBack, Steps
  <1> QED BY <1>1, <1>4, <1>6, <1>7, <1>8, ProcessGoesOn DEF EdgeInv

\* The ending of a transaction that is on disk is noted, and its process ends.
LEMMA NoteKeeps ==
  ASSUME EdgeInv, NEW p \in Operators, NEW ending \in Statuses, op[p] # NoOp, Leave(p),
         op[p].tx \in TxIds /\ txs[op[p].tx] # NoOp,
         txs' = Marked(op[p].tx, ending), good' = vhost,
         StaysListed(loaded'), UNCHANGED <<vhost, releases, litter, reviewed>>
  PROVE  EdgeInv'
  <1> DEFINE t == op[p].tx
             x == [txs[t] EXCEPT !.status = ending]
  <1>1. op' = [op EXCEPT ![p] = NoOp] /\ op' \in [Operators -> {NoOp} \cup Processes]
    BY GoesOn DEF Leave
  <1>2. txs[t] \in Transactions
    BY DEF EdgeInv, EdgeTypeOK
  <1>3. x \in Transactions /\ x.previous = txs[t].previous /\ x.candidate = txs[t].candidate
    BY <1>2 DEF Transactions
  <1>4. txs' = [txs EXCEPT ![t] = x]
    BY DEF Marked
  <1> HIDE DEF x
  <1>5. txs' \in [TxIds -> {NoOp} \cup Transactions] /\ txs'[t] = x
        /\ \A u \in TxIds : u # t => txs'[u] = txs[u]
    BY <1>3, <1>4 DEF EdgeInv, EdgeTypeOK
  <1>6. loaded' \in Configs
    BY DEF StaysListed, EdgeInv, EdgeTypeOK, Transactions
  <1>7. EdgeTypeOK'
    BY <1>1, <1>5, <1>6 DEF EdgeInv, EdgeTypeOK
  <1>8. \A u \in TxIds : txs'[u] # NoOp =>
          /\ txs[u] # NoOp
          /\ txs'[u].previous = txs[u].previous /\ txs'[u].candidate = txs[u].candidate
    BY <1>3, <1>5
  <1>9. ServeAll(releases)'
    BY <1>8 DEF EdgeInv, ServeAll, Serves, Same, StaysListed
  <1> QED BY <1>1, <1>7, <1>9, ProcessGoesOn DEF EdgeInv, WayBack

LEMMA RollbackKeeps ==
  ASSUME EdgeInv, NEW p \in Operators, NEW t \in TxIds, Rollback(p, t)
  PROVE  EdgeInv'
  <1> DEFINE j == [step |-> "back", todo |-> {}, prior |-> {}, made |-> {},
                   old |-> txs[t].previous, tx |-> t]
  <1>1. /\ op' = [op EXCEPT ![p] = j] /\ Unlocked /\ txs[t] # NoOp
        /\ vhost' = txs[t].previous /\ good' = txs[t].previous
        /\ UNCHANGED <<loaded, releases, litter, txs, reviewed>>
    BY DEF Rollback, MayRollBack
  <1>2. txs[t] \in Transactions
    BY <1>1 DEF EdgeInv, EdgeTypeOK
  <1>3. txs[t].previous \in Configs
    BY <1>2 DEF Transactions
  <1>4. j \in Processes /\ j.step = "back" /\ j.old = txs[t].previous /\ j.tx = t
    BY <1>3 DEF Processes, Steps
  <1> HIDE DEF j
  <1>5. op'[p] = j /\ op' \in [Operators -> {NoOp} \cup Processes]
        /\ \A q \in Operators : q # p => op'[q] = NoOp
    BY <1>1, <1>4, GoesOn
  <1>6. EdgeTypeOK'
    BY <1>1, <1>3, <1>5 DEF EdgeInv, EdgeTypeOK
  <1>7. ServeAll(releases)'
    BY <1>1, StillServe DEF StaysListed, EdgeInv
  <1>8. ProcessSound(p)'
    BY <1>1, <1>4, <1>5 DEF ProcessSound
  <1> QED BY <1>1, <1>4, <1>6, <1>7, <1>8, ProcessGoesOn DEF EdgeInv, WayBack

LEMMA HandKeeps ==
  ASSUME EdgeInv, EditByHand
  PROVE  EdgeInv'
  <1>1. /\ Unlocked /\ vhost' = [vhost EXCEPT !.hand = @ + 1] /\ good' = vhost' /\ vhost.hand < MaxEdits
        /\ UNCHANGED <<loaded, releases, litter, txs, reviewed, op>>
    BY DEF EditByHand
  <1>2. vhost \in Configs
    BY DEF EdgeInv, EdgeTypeOK
  <1>3. vhost' \in Configs /\ vhost'.lists = vhost.lists
    BY <1>1, <1>2, EdgeAssumption DEF Configs
  <1>4. EdgeTypeOK'
    BY <1>1, <1>3 DEF EdgeInv, EdgeTypeOK
  <1>5. ServeAll(releases)'
    BY <1>1, <1>3 DEF EdgeInv, ServeAll, Serves, Same
  <1> QED BY <1>1, <1>4, <1>5 DEF EdgeInv, WayBack, ProcessSound, Unlocked

\* The running nginx or an approval changes, and nothing else.
LEMMA OtherKeeps ==
  ASSUME EdgeInv, loaded' \in {loaded, vhost}, reviewed' \in [Operators -> Configs],
         UNCHANGED <<vhost, releases, litter, txs, op, good>>
  PROVE  EdgeInv'
  <1>1. EdgeTypeOK'
    BY DEF EdgeInv, EdgeTypeOK
  <1>2. ServeAll(releases)' /\ (\A R \in SUBSET Versions : ServeAll(R) => ServeAll(R)')
    BY DEF EdgeInv, ServeAll, Serves, Same
  <1>3. ASSUME NEW p \in Operators PROVE ProcessSound(p)'
    <2>1. op[p] # NoOp /\ op[p].step = "collect" => ServeAll(releases \ op[p].made)'
      BY DEF EdgeInv, ProcessSound, ServeAll, Serves, Same
    <2> QED BY <2>1 DEF EdgeInv, ProcessSound, Same
  <1> QED BY <1>1, <1>2, <1>3 DEF EdgeInv, WayBack, MayRollBack

LEMMA EdgeStaysSound == EdgeInv /\ [EdgeNext]_edgeVars => EdgeInv'
  <1> SUFFICES ASSUME EdgeInv, [EdgeNext]_edgeVars PROVE EdgeInv'
    OBVIOUS
  <1>0. \A p \in Operators : ProcessSound(p)
    BY DEF EdgeInv
  <1>1. ASSUME NEW p \in Operators, NEW v \in Versions, NEW first \in SUBSET Versions, Apply(p, first, v)
        PROVE  EdgeInv'
    BY <1>1, SetUpKeeps
  <1>2. ASSUME NEW p \in Operators, InstallRelease(p) PROVE EdgeInv'
    BY <1>2, InstallKeeps
  <1>3. ASSUME NEW p \in Operators, Collect(p) PROVE EdgeInv'
    BY <1>3, CollectKeeps
  <1>4. ASSUME NEW p \in Operators, Prepare(p) PROVE EdgeInv'
    BY <1>4, PrepareKeeps
  <1>5. ASSUME NEW p \in Operators, CopyFails(p) \/ Killed(p) PROVE EdgeInv'
    BY <1>5, EndKeeps DEF CopyFails, Killed, At, EdgeInv, EdgeTypeOK
  <1>6. ASSUME NEW p \in Operators, WriteVhost(p) PROVE EdgeInv'
    <2>1. /\ op[p] # NoOp /\ op[p].step = "write" /\ Go(p, "reload")
          /\ vhost' = txs[op[p].tx].candidate /\ UNCHANGED <<loaded, releases, litter, txs, reviewed, good>>
      BY <1>6 DEF WriteVhost, At
    <2>2. op[p].tx \in TxIds /\ txs[op[p].tx] # NoOp /\ txs[op[p].tx].previous = good
      BY <1>0, <2>1 DEF ProcessSound
    <2> QED BY <2>1, <2>2, WriteKeeps DEF StaysListed, Steps
  <1>7. ASSUME NEW p \in Operators, Reload(p) PROVE EdgeInv'
    <2>1. /\ op[p] # NoOp /\ op[p].step = "reload" /\ Go(p, "check")
          /\ loaded' = vhost /\ UNCHANGED <<vhost, releases, litter, txs, reviewed, good>>
      BY <1>7 DEF Reload, At
    <2>2. op[p].tx \in TxIds /\ txs[op[p].tx] # NoOp /\ txs[op[p].tx].previous = good
          /\ vhost = txs[op[p].tx].candidate
      BY <1>0, <2>1 DEF ProcessSound
    <2> QED BY <2>1, <2>2, WriteKeeps DEF StaysListed, Steps
  <1>8. ASSUME NEW p \in Operators, Raises(p) PROVE EdgeInv'
    <2>1. /\ op[p] # NoOp /\ op[p].step \in {"write", "reload", "check"} /\ Go(p, "restore")
          /\ UNCHANGED <<vhost, loaded, releases, litter, txs, reviewed, good>>
      BY <1>8 DEF Raises, At
    <2>2. op[p].tx \in TxIds /\ txs[op[p].tx] # NoOp /\ txs[op[p].tx].previous = good
          /\ vhost \in {good, txs[op[p].tx].candidate}
      BY <1>0, <2>1 DEF ProcessSound
    <2> QED BY <2>1, <2>2, WriteKeeps DEF StaysListed, Steps
  <1>9. ASSUME NEW p \in Operators, Restore(p) PROVE EdgeInv'
    <2>1. /\ op[p] # NoOp /\ op[p].step = "restore" /\ Go(p, "recover") /\ vhost' = op[p].old
          /\ UNCHANGED <<loaded, releases, litter, txs, reviewed, good>>
      BY <1>9 DEF Restore, At
    <2>2. op[p].tx \in TxIds /\ txs[op[p].tx] # NoOp /\ op[p].old = good
      BY <1>0, <2>1 DEF ProcessSound
    <2> QED BY <2>1, <2>2, WriteKeeps DEF StaysListed, Steps
  <1>10. ASSUME NEW p \in Operators, RollbackReload(p) PROVE EdgeInv'
    <2>1. /\ op[p] # NoOp /\ op[p].step = "back" /\ Go(p, "backCheck") /\ loaded' = vhost
          /\ UNCHANGED <<vhost, releases, litter, txs, reviewed, good>>
      BY <1>10 DEF RollbackReload, At
    <2>2. op[p].tx \in TxIds /\ txs[op[p].tx] # NoOp /\ vhost = good
      BY <1>0, <2>1 DEF ProcessSound
    <2> QED BY <2>1, <2>2, WriteKeeps DEF StaysListed, Steps
  <1>11. ASSUME NEW p \in Operators, Verified(p) PROVE EdgeInv'
    <2>1. /\ op[p] # NoOp /\ op[p].step = "check" /\ Leave(p) /\ txs' = Marked(op[p].tx, "verified")
          /\ good' = txs[op[p].tx].candidate /\ UNCHANGED <<vhost, loaded, releases, litter, reviewed>>
      BY <1>11 DEF Verified, At
    <2>2. op[p].tx \in TxIds /\ txs[op[p].tx] # NoOp /\ vhost = txs[op[p].tx].candidate
      BY <1>0, <2>1 DEF ProcessSound
    <2> QED BY <2>1, <2>2, NoteKeeps DEF StaysListed, Statuses
  <1>12. ASSUME NEW p \in Operators, NEW ok \in BOOLEAN, Revive(p, ok) PROVE EdgeInv'
    <2> DEFINE ending == IF ok THEN "rolled-back" ELSE "rollback-needs-operator"
    <2>1. /\ op[p] # NoOp /\ op[p].step = "recover" /\ Leave(p) /\ txs' = Marked(op[p].tx, ending)
          /\ loaded' \in {loaded, vhost} /\ UNCHANGED <<vhost, releases, litter, reviewed, good>>
      BY <1>12 DEF Revive, At
    <2>2. op[p].tx \in TxIds /\ txs[op[p].tx] # NoOp /\ vhost = good
      BY <1>0, <2>1 DEF ProcessSound
    <2>3. ending \in Statuses
      BY DEF Statuses
    <2> QED BY <2>1, <2>2, <2>3, NoteKeeps DEF StaysListed
  <1>13. ASSUME NEW p \in Operators, RolledBack(p) PROVE EdgeInv'
    <2>1. /\ op[p] # NoOp /\ op[p].step = "backCheck" /\ Leave(p) /\ txs' = Marked(op[p].tx, "rolled-back")
          /\ UNCHANGED <<vhost, loaded, releases, litter, reviewed, good>>
      BY <1>13 DEF RolledBack, At
    <2>2. op[p].tx \in TxIds /\ txs[op[p].tx] # NoOp /\ vhost = good
      BY <1>0, <2>1 DEF ProcessSound
    <2> QED BY <2>1, <2>2, NoteKeeps DEF StaysListed, Statuses
  <1>14. ASSUME NEW p \in Operators, NEW t \in TxIds, Rollback(p, t) PROVE EdgeInv'
    BY <1>14, RollbackKeeps
  <1>15. CASE EditByHand
    BY <1>15, HandKeeps
  <1>16. CASE NginxStarts
    BY <1>16, OtherKeeps DEF NginxStarts, EdgeInv, EdgeTypeOK
  <1>17. ASSUME NEW p \in Operators, Review(p) PROVE EdgeInv'
    BY <1>17, OtherKeeps DEF Review, EdgeInv, EdgeTypeOK
  <1>18. CASE UNCHANGED edgeVars
    BY <1>18, OtherKeeps DEF edgeVars, EdgeInv, EdgeTypeOK
  <1> QED BY <1>1, <1>2, <1>3, <1>4, <1>5, <1>6, <1>7, <1>8, <1>9, <1>10, <1>11, <1>12, <1>13,
             <1>14, <1>15, <1>16, <1>17, <1>18 DEF EdgeNext

\* Whatever is installed, killed, rolled back or edited by hand: when no process runs,
\* the good vhost is on disk or one rollback away, and the releases that the vhost on
\* disk and the running nginx need are there and agree (deploysafe.py).
THEOREM EdgeIsKept == EdgeSpec => []EdgeKept
  <1>1. EdgeInv => EdgeKept
    BY DEF EdgeInv, WayBack, ServeAll, Serves, EdgeKept
  <1> QED BY <1>1, EdgeStarts, EdgeStaysSound, PTL DEF EdgeSpec

-----------------------------------------------------------------------------
(* The map of the servers.                                                 *)

Probings == UNION {[K -> Probes] : K \in SUBSET Keys}
Lanes == {Idle, [Idle EXCEPT !.at = "read"]}
         \cup [at : {"peers"}, key : Keys, addr : Addrs, peers : SUBSET Keys]

\* A probe of h that found a peer well is no younger than the answer it had.
ReadingSound(h, s) ==
  /\ s \in Readings
  /\ \A k \in DOMAIN s.probes : s.probes[k].health = "ok" => echoed[h][k] <= s.probes[k].at

\* A reading is posted before the targets are asked for.
MapInv ==
  /\ wg \in [Hosts -> Interfaces] /\ lane \in [Hosts -> Lanes]
  /\ echoed \in [Hosts -> [Keys -> Ages]]
  /\ DOMAIN post = Hosts /\ DOMAIN stored = Hosts
  /\ \A h \in Hosts :
       /\ lane[h].at = "read" => post[h] # NoPost
       /\ post[h] # NoPost => ReadingSound(h, post[h])
       /\ stored[h] # NoPost => ReadingSound(h, stored[h])

LEMMA MapStarts == MapInit => MapInv
  BY MapAssumption DEF MapInit, MapInv, Idle, Lanes, Ages, Old

LEMMA InterfacesTyped ==
  ASSUME NEW i \in Interfaces
  PROVE  i.key \in Keys /\ i.addr \in Addrs /\ i.peers \in PeerLists /\ DOMAIN i.peers \subseteq Keys
  BY MapAssumption DEF PeerLists

LEMMA LanesApart == \A l \in Lanes :
  /\ l.at = "peers" => l.key \in Keys /\ l.addr \in Addrs
  /\ l.at \in {"idle", "peers", "read"}
  BY DEF Lanes, Idle

LEMMA ReadingsTyped ==
  ASSUME NEW s \in Readings
  PROVE  /\ s.at \in Ages /\ s.key \in Keys \cup {NoPost} /\ s.addr \in Addrs /\ s.probes \in Probings
         /\ DOMAIN s.probes \subseteq Keys /\ s.probes \in [DOMAIN s.probes -> Probes]
  BY DEF Readings, Probings

\* Everything grows older together.
LEMMA OlderTogether ==
  ASSUME NEW e \in Ages, NEW a \in Ages
  PROVE  /\ Aged(a) \in Ages /\ Ages \subseteq Nat
         /\ e <= a => Aged(e) <= Aged(a)
  BY MapAssumption DEF Ages, Old, Aged

LEMMA ReadingAges ==
  ASSUME MapInv, NEW h \in Hosts, NEW s, s # NoPost, ReadingSound(h, s), MapTick
  PROVE  AgedSnapshot(s) # NoPost /\ ReadingSound(h, AgedSnapshot(s))'
  <1> DEFINE old == [k \in DOMAIN s.probes |-> [s.probes[k] EXCEPT !.at = Aged(@)]]
             t == [s EXCEPT !.at = Aged(@), !.probes = old]
  <1>1. AgedSnapshot(s) = t
    BY DEF AgedSnapshot
  <1>2. s \in Readings /\ DOMAIN s.probes \subseteq Keys /\ s.probes \in [DOMAIN s.probes -> Probes]
    BY ReadingsTyped DEF ReadingSound
  <1>3. \A k \in DOMAIN s.probes :
          /\ old[k] \in Probes /\ old[k].at = Aged(s.probes[k].at)
          /\ old[k].health = s.probes[k].health /\ s.probes[k].at \in Ages
    BY <1>2, OlderTogether DEF Probes
  <1>4. old \in Probings /\ DOMAIN old = DOMAIN s.probes
    BY <1>2, <1>3 DEF Probings
  <1> HIDE DEF old
  <1>5. t \in Readings /\ t.probes = old
    BY <1>2, <1>4, OlderTogether DEF Readings, Probings
  <1>6. \A k \in Keys : echoed[h][k] \in Ages /\ echoed'[h][k] = Aged(echoed[h][k])
    BY DEF MapTick, MapInv
  <1>7. ASSUME NEW k \in DOMAIN old, old[k].health = "ok" PROVE echoed'[h][k] <= old[k].at
    BY <1>2, <1>3, <1>4, <1>6, <1>7, OlderTogether DEF ReadingSound
  <1>8. t # NoPost
    BY <1>5, MapAssumption
  <1> QED BY <1>1, <1>5, <1>7, <1>8 DEF ReadingSound

\* The same, of a snapshot in its place.
LEMMA PlacesAge ==
  ASSUME MapInv, MapTick, NEW h \in Hosts, NEW s, NEW t,
         s # NoPost => ReadingSound(h, s), t = AgedSnapshot(s)
  PROVE  (t # NoPost <=> s # NoPost) /\ (t # NoPost => ReadingSound(h, t)')
  <1>1. s = NoPost => t = NoPost
    BY DEF AgedSnapshot
  <1>2. CASE s # NoPost
    <2>1. AgedSnapshot(s) # NoPost /\ ReadingSound(h, AgedSnapshot(s))'
      BY <1>2, ReadingAges
    <2>2. AgedSnapshot(s)' = t
      OBVIOUS
    <2> QED BY <1>2, <2>1, <2>2
  <1> QED BY <1>1, <1>2

LEMMA MapTickKeeps == MapInv /\ MapTick => MapInv'
  <1> SUFFICES ASSUME MapInv, MapTick PROVE MapInv'
    OBVIOUS
  <1>1. UNCHANGED <<wg, lane>> /\ DOMAIN post' = Hosts /\ DOMAIN stored' = Hosts
    BY DEF MapTick
  <1>2. echoed' \in [Hosts -> [Keys -> Ages]]
    BY OlderTogether DEF MapTick, MapInv
  <1>3. ASSUME NEW h \in Hosts
        PROVE  post'[h] = AgedSnapshot(post[h]) /\ stored'[h] = AgedSnapshot(stored[h])
    BY DEF MapTick
  <1>4. ASSUME NEW h \in Hosts
        PROVE  /\ (post'[h] # NoPost <=> post[h] # NoPost) /\ (post'[h] # NoPost => ReadingSound(h, post[h])')
               /\ stored'[h] # NoPost => ReadingSound(h, stored[h])'
    <2>1. PICK s, t : s = post[h] /\ t = post'[h]
      OBVIOUS
    <2>2. PICK u, v : u = stored[h] /\ v = stored'[h]
      OBVIOUS
    <2>3. (t # NoPost <=> s # NoPost) /\ (t # NoPost => ReadingSound(h, t)')
      BY <1>3, <2>1, PlacesAge DEF MapInv
    <2>4. v # NoPost => ReadingSound(h, v)'
      BY <1>3, <2>2, PlacesAge DEF MapInv
    <2> QED BY <2>1, <2>2, <2>3, <2>4 DEF ReadingSound
  <1> QED BY <1>1, <1>2, <1>4 DEF MapInv

LEMMA PingKeeps ==
  ASSUME MapInv, NEW h \in Hosts, Ping(h)
  PROVE  MapInv'
  <1> DEFINE P == Pinged(h)
  <1>1. PICK well \in SUBSET P :
          /\ post' = [post EXCEPT ![h].probes =
                        [k \in P |-> [at |-> 0, target |-> TargetOf(k),
                                      health |-> IF k \in well THEN "ok" ELSE "failed"]]]
          /\ echoed' = [echoed EXCEPT ![h] = [k \in Keys |-> IF k \in well THEN 0 ELSE @[k]]]
    BY DEF Ping
  <1>2. /\ lane[h].at = "read" /\ lane' = [lane EXCEPT ![h] = Idle] /\ UNCHANGED <<wg, stored>>
    BY DEF Ping
  <1>3. ASSUME NEW k \in P PROVE k \in Keys /\ TargetOf(k) \in Addrs
    <2>1. k \in Targets(h)
      BY DEF Pinged
    <2>2. PICK g \in Hosts : Announcing(k) = {g}
      BY <2>1 DEF Targets
    <2>3. (CHOOSE f \in Hosts : f \in Announcing(k)) \in Announcing(k)
      BY <2>2
    <2>4. stored[g] \in Readings
      BY <2>2 DEF Announcing, Usable, MapInv, ReadingSound
    <2> QED BY <2>1, <2>2, <2>3, <2>4, ReadingsTyped DEF Targets, TargetOf
  <1>4. 0 \in Ages /\ Ages \subseteq Nat
    BY MapAssumption DEF Ages, Old
  <1> HIDE DEF P
  <1> DEFINE probes == [k \in P |-> [at |-> 0, target |-> TargetOf(k),
                                     health |-> IF k \in well THEN "ok" ELSE "failed"]]
             s == [post[h] EXCEPT !.probes = probes]
  <1>5. \A k \in P : probes[k] \in Probes /\ probes[k].at = 0 /\ (probes[k].health = "ok" => k \in well)
    BY <1>3, <1>4 DEF Probes
  <1>6. probes \in Probings /\ DOMAIN probes = P /\ P \subseteq Keys
    BY <1>3, <1>5 DEF Probings
  <1>7. post' = [post EXCEPT ![h] = s]
    BY <1>1
  <1> HIDE DEF probes
  <1>8. post[h] \in Readings
    BY <1>2 DEF MapInv, ReadingSound
  <1>9. s \in Readings /\ s.probes = probes
    BY <1>6, <1>8 DEF Readings, Probings
  <1> HIDE DEF s
  <1>10. /\ echoed' \in [Hosts -> [Keys -> Ages]] /\ \A k \in well : echoed'[h][k] = 0
         /\ \A k \in Keys : echoed'[h][k] <= echoed[h][k]
         /\ \A g \in Hosts : g # h => echoed'[g] = echoed[g]
    <2>1. \A k \in Keys : echoed[h][k] \in Ages
      BY DEF MapInv
    <2> DEFINE e == [k \in Keys |-> IF k \in well THEN 0 ELSE echoed[h][k]]
    <2>2. \A k \in Keys : (k \in well => e[k] = 0) /\ (k \notin well => e[k] = echoed[h][k])
      OBVIOUS
    <2>3. e \in [Keys -> Ages]
      BY <1>4, <2>1
    <2>4. ASSUME NEW k \in Keys PROVE e[k] <= echoed[h][k]
      <3>1. echoed[h][k] \in Nat
        BY <1>4, <2>1
      <3> HIDE DEF e
      <3> QED BY <2>2, <3>1
    <2>5. echoed' = [echoed EXCEPT ![h] = e]
      BY <1>1
    <2> HIDE DEF e
    <2> QED BY <1>6, <2>2, <2>3, <2>4, <2>5 DEF MapInv
  <1>11. /\ post'[h] = s /\ lane'[h] = Idle /\ lane' \in [Hosts -> Lanes] /\ Idle.at = "idle"
         /\ \A g \in Hosts : g # h => post'[g] = post[g] /\ lane'[g] = lane[g]
         /\ DOMAIN post' = Hosts /\ DOMAIN stored' = Hosts
    BY <1>2, <1>7 DEF MapInv, Lanes, Idle
  <1>12. ReadingSound(h, post[h])'
    BY <1>5, <1>6, <1>9, <1>10, <1>11 DEF ReadingSound
  <1>13. ASSUME NEW r, ReadingSound(h, r) PROVE ReadingSound(h, r)'
    <2>1. \A k \in DOMAIN r.probes : r.probes[k].at \in Nat /\ k \in Keys
      BY <1>4, <1>13, ReadingsTyped DEF ReadingSound, Probes
    <2>2. \A k \in Keys : echoed[h][k] \in Nat /\ echoed'[h][k] \in Nat
      BY <1>4, <1>10 DEF MapInv
    <2> QED BY <1>10, <1>13, <2>1, <2>2 DEF ReadingSound
  <1>14. stored[h] # NoPost => ReadingSound(h, stored[h])'
    <2>1. PICK r : r = stored[h]
      OBVIOUS
    <2>2. r # NoPost => ReadingSound(h, r)'
      BY <1>13, <2>1 DEF MapInv
    <2> QED BY <1>2, <2>1, <2>2 DEF ReadingSound
  <1>15. ASSUME NEW g \in Hosts
         PROVE  /\ lane'[g].at = "read" => post'[g] # NoPost
                /\ post'[g] # NoPost => ReadingSound(g, post[g])'
                /\ stored'[g] # NoPost => ReadingSound(g, stored[g])'
    <2>1. CASE g = h
      BY <1>2, <1>11, <1>12, <1>14, <2>1 DEF ReadingSound
    <2>2. CASE g # h
      BY <1>2, <1>10, <1>11, <2>2 DEF MapInv, ReadingSound
    <2> QED BY <2>1, <2>2
  <1> QED BY <1>2, <1>10, <1>11, <1>15 DEF MapInv

LEMMA MapKept == MapInv /\ [MapNext]_mapVars => MapInv'
  <1> SUFFICES ASSUME MapInv, [MapNext]_mapVars PROVE MapInv'
    OBVIOUS
  <1>1. CASE MapTick
    BY <1>1, MapTickKeeps
  <1>2. ASSUME NEW h \in Hosts, Ping(h) PROVE MapInv'
    BY <1>2, PingKeeps
  <1>3. ASSUME NEW h \in Hosts, Reconfigure(h) PROVE MapInv'
    <2>1. PICK i \in Setups[h] : wg' = [wg EXCEPT ![h] = i]
      BY <1>3 DEF Reconfigure
    <2>2. i \in Interfaces
      BY DEF Interfaces
    <2>3. wg' \in [Hosts -> Interfaces]
      BY <2>1, <2>2 DEF MapInv
    <2> QED BY <1>3, <2>3 DEF Reconfigure, MapInv, ReadingSound
  <1>4. ASSUME NEW h \in Hosts, ReadPeers(h) PROVE MapInv'
    <2> DEFINE l == [at |-> "peers", key |-> wg[h].key, addr |-> wg[h].addr, peers |-> DOMAIN wg[h].peers]
    <2>1. wg[h] \in Interfaces
      BY DEF MapInv
    <2>2. l \in Lanes /\ l.at = "peers"
      BY <2>1, InterfacesTyped DEF Lanes
    <2>3. lane' = [lane EXCEPT ![h] = l] /\ UNCHANGED <<wg, post, stored, status, echoed>>
      BY <1>4 DEF ReadPeers
    <2> HIDE DEF l
    <2> QED BY <2>2, <2>3 DEF MapInv, ReadingSound
  <1>5. ASSUME NEW h \in Hosts, ReadDetails(h) PROVE MapInv'
    <2> DEFINE s == IF DOMAIN wg[h].peers = lane[h].peers THEN Snapshot(h, wg[h].peers)
                    ELSE [Snapshot(h, NoPeers) EXCEPT !.key = NoPost]
               l == [Idle EXCEPT !.at = "read"]
    <2>1. lane[h].at = "peers" /\ lane[h] \in Lanes /\ wg[h] \in Interfaces
      BY <1>5 DEF ReadDetails, MapInv
    <2>2. lane[h].key \in Keys /\ lane[h].addr \in Addrs
      BY <2>1, LanesApart
    <2>3. /\ post' = [post EXCEPT ![h] = s] /\ lane' = [lane EXCEPT ![h] = l]
          /\ UNCHANGED <<wg, stored, status, echoed>>
      BY <1>5 DEF ReadDetails
    <2>4. NoPeers \in Probings /\ DOMAIN NoPeers = {} /\ NoPeers \in PeerLists /\ 0 \in Ages
      <3>1. NoPeers \in [{} -> Probes] /\ DOMAIN NoPeers = {}
        BY DEF NoPeers
      <3>2. NoPeers \in Probings
        BY <3>1 DEF Probings
      <3>3. NoPeers \in PeerLists
        BY DEF PeerLists
      <3> QED BY <3>1, <3>2, <3>3, MapAssumption DEF Ages, Old
    <2>5. s \in Readings /\ s.probes = NoPeers
      <3>1. \A q \in PeerLists : Snapshot(h, q) \in Readings /\ Snapshot(h, q).probes = NoPeers
        BY <2>2, <2>4 DEF Snapshot, Readings, Probings
      <3>2. \A q \in PeerLists : [Snapshot(h, q) EXCEPT !.key = NoPost] \in Readings
                                 /\ [Snapshot(h, q) EXCEPT !.key = NoPost].probes = NoPeers
        BY <3>1 DEF Readings
      <3> QED BY <2>1, <2>4, <3>1, <3>2, InterfacesTyped
    <2>6. l \in Lanes
      BY DEF Lanes
    <2> HIDE DEF s, l
    <2>7. s # NoPost
      BY <2>5, MapAssumption
    <2>8. /\ post'[h] = s /\ lane'[h] = l /\ lane' \in [Hosts -> Lanes]
          /\ \A g \in Hosts : g # h => post'[g] = post[g] /\ lane'[g] = lane[g]
          /\ DOMAIN post' = Hosts
      BY <2>3, <2>6 DEF MapInv
    <2>9. ReadingSound(h, post[h])'
      BY <2>4, <2>5, <2>8 DEF ReadingSound
    <2> QED BY <2>3, <2>7, <2>8, <2>9 DEF MapInv, ReadingSound
  <1>6. ASSUME NEW h \in Hosts, NoTargets(h) PROVE MapInv'
    <2>1. lane' = [lane EXCEPT ![h] = Idle] /\ Idle \in Lanes /\ Idle.at = "idle"
          /\ UNCHANGED <<wg, post, stored, status, echoed>>
      BY <1>6 DEF NoTargets, Lanes, Idle
    <2> QED BY <2>1 DEF MapInv, ReadingSound
  <1>7. ASSUME NEW h \in Hosts, PostLost(h) PROVE MapInv'
    BY <1>7 DEF PostLost, MapInv, ReadingSound
  <1>8. ASSUME NEW h \in Hosts, Store(h) PROVE MapInv'
    BY <1>8 DEF Store, MapInv, ReadingSound
  <1>9. ASSUME NEW h \in Hosts, HeartbeatOf(h) \/ FallsSilent(h) \/ RemoveHost(h) PROVE MapInv'
    BY <1>9 DEF HeartbeatOf, FallsSilent, RemoveHost, Becomes, MapInv, ReadingSound
  <1>10. CASE UNCHANGED mapVars
    BY <1>10 DEF mapVars, MapInv, ReadingSound
  <1> QED BY <1>1, <1>2, <1>3, <1>4, <1>5, <1>6, <1>7, <1>8, <1>9, <1>10 DEF MapNext

\* A direction that is shown well has an answered ping behind it, of nodes that are online.
LEMMA WellIsAnswered ==
  ASSUME MapInv, NEW h \in Hosts, NEW g \in Hosts, NEW k, Observed(h, g, k) = "ok"
  PROVE  status[h] = "online" /\ status[g] = "online" /\ echoed[h][k] <= TTL
  <1>1. Fresh(h, g, k)
    BY DEF Observed
  <1>2. ReadingSound(h, stored[h]) /\ status[h] = "online" /\ status[g] = "online"
    BY <1>1 DEF Fresh, FreshSnapshot, Usable, MapInv
  <1>3. stored[h].probes[k].health = "ok" /\ k \in DOMAIN stored[h].probes /\ stored[h].probes[k].at <= TTL
    BY <1>1 DEF Observed, Fresh
  <1>4. echoed[h][k] <= stored[h].probes[k].at
    BY <1>2, <1>3 DEF ReadingSound
  <1>5. stored[h].probes[k].at \in Nat /\ k \in Keys
    BY <1>2, <1>3, ReadingsTyped DEF ReadingSound, Probes, Ages
  <1>6. echoed[h][k] \in Nat
    BY <1>5 DEF MapInv, Ages
  <1> QED BY <1>2, <1>3, <1>4, <1>5, <1>6, MapAssumption

LEMMA ObservedTyped ==
  ASSUME MapInv, NEW h \in Hosts, NEW g \in Hosts, NEW k
  PROVE  Observed(h, g, k) \in {"ok", "failed", "unknown"}
  <1>1. CASE Fresh(h, g, k)
    <2>1. stored[h] \in Readings /\ k \in DOMAIN stored[h].probes
      BY <1>1 DEF Fresh, FreshSnapshot, Usable, MapInv, ReadingSound
    <2> QED BY <1>1, <2>1, ReadingsTyped DEF Observed, Probes
  <1> QED BY <1>1 DEF Observed

\* The worst of some healths is well only if all are.
LEMMA WorstIsWell ==
  ASSUME NEW S \in SUBSET {"ok", "failed", "unknown"}, S # {},
         (CHOOSE s \in S : \A t \in S : Severity(t) <= Severity(s)) = "ok"
  PROVE  S = {"ok"}
  <1>1. Severity("ok") = 0 /\ Severity("unknown") = 1 /\ Severity("failed") = 2
    BY DEF Severity
  <1>2. \A t \in S : t = "ok" \/ t = "failed" \/ t = "unknown"
    OBVIOUS
  <1>3. \A t \in S : Severity(t) <= 2 /\ (t # "failed" => Severity(t) <= 1) /\ 0 <= Severity(t)
    BY <1>1, <1>2
  <1>4. \E s \in S : \A t \in S : Severity(t) <= Severity(s)
    <2>1. CASE "failed" \in S
      BY <1>1, <1>3, <2>1
    <2>2. CASE "failed" \notin S /\ "unknown" \in S
      BY <1>1, <1>3, <2>2
    <2>3. CASE "failed" \notin S /\ "unknown" \notin S
      <3>1. S = {"ok"}
        BY <1>2, <2>3
      <3> QED BY <1>1, <3>1
    <2> QED BY <2>1, <2>2, <2>3
  <1>5. "ok" \in S /\ \A t \in S : Severity(t) <= Severity("ok")
    BY <1>4
  <1>6. ~(2 <= 0) /\ ~(1 <= 0)
    OBVIOUS
  <1>7. "failed" \notin S /\ "unknown" \notin S
    BY <1>1, <1>5, <1>6, Zenon
  <1> QED BY <1>2, <1>5, <1>7

LEMMA GreenNeedsBoth ==
  ASSUME MapInv, NEW h \in Hosts, NEW g \in Hosts, Sees(h, g), Health(h, g) = "ok"
  PROVE  /\ status[h] = "online" /\ status[g] = "online"
         /\ echoed[h][stored[g].key] <= TTL /\ echoed[g][stored[h].key] <= TTL
  <1> DEFINE D == Directions(h, g)
  <1>1. D \subseteq {<<h, g>>, <<g, h>>} /\ <<h, g>> \in D /\ h # g
    BY DEF Directions, Sees
  <1>2. Healths(h, g) = {Observed(d[1], d[2], stored[d[2]].key) : d \in D} \cup Unseen(h, g)
    BY DEF Healths
  <1>3. \A d \in D : Observed(d[1], d[2], stored[d[2]].key) \in {"ok", "failed", "unknown"}
    <2>1. \A d \in D : d[1] \in Hosts /\ d[2] \in Hosts
      BY <1>1
    <2> QED BY <2>1, ObservedTyped
  <1>4. Healths(h, g) \in SUBSET {"ok", "failed", "unknown"} /\ Healths(h, g) # {}
    BY <1>1, <1>2, <1>3 DEF Unseen
  <1>5. Healths(h, g) = {"ok"}
    BY <1>4, WorstIsWell DEF Health
  <1>6. ~(Cardinality(D) < 2)
    BY <1>2, <1>5 DEF Unseen
  <1>7. <<g, h>> \in D
    <2>1. CASE D = {<<h, g>>}
      <3>1. Cardinality(D) = 1
        BY <2>1, FS_Singleton
      <3> QED BY <1>6, <3>1
    <2> QED BY <1>1, <2>1
  <1> HIDE DEF D
  <1>8. \A d \in D : Observed(d[1], d[2], stored[d[2]].key) = "ok"
    BY <1>2, <1>5
  <1>9. Observed(h, g, stored[g].key) = "ok" /\ Observed(g, h, stored[h].key) = "ok"
    BY <1>1, <1>7, <1>8
  <1> QED BY <1>9, WellIsAnswered

\* A tunnel that the map shows healthy was answered in both directions, within the age
\* that counts, whatever was reconfigured, removed, late or lost (server_map.py).
THEOREM GreenIsAlwaysTwoSided == MapSpec => []GreenIsTwoSided
  <1>1. MapInv => GreenIsTwoSided
    BY GreenNeedsBoth DEF GreenIsTwoSided
  <1> QED BY <1>1, MapStarts, MapKept, PTL DEF MapSpec

-----------------------------------------------------------------------------
(* The swap of the application container.                                  *)

\* A container plays a role; what its name and state then are.
Plays(bx, b, role) == bx[b] # Gone /\ bx[b].name.role = role
Fits(c, proved) ==
  c # Gone =>
    /\ c.port = "second" <=> c.name.role = "candidate"
    /\ c.name.role = "stable" => c.name = Stable
    /\ c.name.role \in {"backup", "failed"} => ~c.up
    /\ c.name.role = "candidate" => ~proved

BoxesFit(bx, tested) ==
  /\ bx \in [Boxes -> {Gone} \cup Containers]
  /\ \A b \in Boxes : Fits(bx[b], b \in tested)
  /\ \A a, b \in Boxes : Plays(bx, a, "stable") /\ Plays(bx, b, "stable") => a = b

Jobs == [how : Hows \cup {"given_up"}, undo : BOOLEAN, at : Nat \ {0}, old : Boxes,
         candidate : Boxes \cup {None}, new : Boxes \cup {None},
         stopped : BOOLEAN, renamed : BOOLEAN, unknown : BOOLEAN]
StopAt(j) == IF j.how = "preview" THEN 5 ELSE 4

\* What a script knows of the old container and of those it made.
KnowsOld(bx, j, tested) ==
  /\ bx[j.old] # Gone /\ j.old \in tested /\ bx[j.old].name.role \in {"stable", "backup"}
  /\ \A b \in tested : Plays(bx, b, "stable") => b = j.old
  /\ ~j.stopped => Plays(bx, j.old, "stable") /\ bx[j.old].up
  /\ j.renamed /\ (j.undo => j.at <= 3) => Plays(bx, j.old, "backup")
KnowsNew(bx, j, tested) ==
  /\ j.new # None => /\ j.new \notin tested /\ j.new > j.old
                     /\ bx[j.new] # Gone => bx[j.new].name.role \in {"stable", "failed"}
  /\ j.candidate # None /\ j.how # "preview" /\ bx[j.candidate] # Gone => Plays(bx, j.candidate, "candidate")

\* How far it is.
Forward(bx, j) ==
  ~j.undo =>
    /\ j.at \in 2..4 \/ (j.at \in 5..10 /\ j.how # "preview") =>
         j.candidate # None /\ Plays(bx, j.candidate, "candidate")
    /\ j.at <= StopAt(j) + 2 => j.new = None
    /\ j.stopped <=> j.at > StopAt(j)
    /\ j.at = StopAt(j) + 1 => Plays(bx, j.old, "stable") /\ ~bx[j.old].up
    /\ j.at = StopAt(j) + 3 => j.new # None /\ Plays(bx, j.new, "stable")
    /\ j.at > StopAt(j) + 4 => j.new # None /\ Plays(bx, j.new, "stable") /\ bx[j.new].up
Backward(bx, j) ==
  j.undo =>
    /\ j.how = "normalize" /\ j.at = 2 /\ j.new # None /\ bx[j.new] # Gone => ~bx[j.new].up
    /\ j.at > 5 => Plays(bx, j.old, "stable") /\ bx[j.old].up

JobFits(bx, j, tested, where) ==
  /\ j \in Jobs
  /\ j.how # "given_up" =>
       /\ j.how = "preview" <=> where = "test"
       /\ KnowsOld(bx, j, tested) /\ KnowsNew(bx, j, tested) /\ Forward(bx, j) /\ Backward(bx, j)

\* While a script is under way only what an earlier one has replaced is gone.
FoundStay(bx, tested, where) ==
  \A b \in tested : bx[b] # Gone \/ (where = "test" /\ \E c \in tested : c > b /\ bx[c] # Gone)

SwapInv ==
  /\ host \in {"node", "test"} /\ receipt \in Receipts /\ try \in 0..MaxTries
  /\ proven \subseteq Boxes /\ BoxesFit(box, proven)
  /\ job = NoJob => GoodIsKept /\ ReceiptTrue
  /\ job # NoJob => JobFits(box, job, proven, host) /\ FoundStay(box, proven, host)

-----------------------------------------------------------------------------
\* The commands that a script goes through.
LEMMA CommandLists ==
  /\ job.how = "release" /\ ~job.undo => Commands =
       <<"candidate", "boot", "check_candidate", "stop", "rename", "create", "start", "check",
         "stop_candidate", "drop_candidate">>
  /\ job.how = "normalize" /\ ~job.undo => Commands =
       <<"candidate", "boot", "check_candidate", "stop", "rename", "create", "start", "check",
         "stop_candidate", "check">>
  /\ job.how = "preview" /\ ~job.undo => Commands =
       <<"candidate", "boot", "check_candidate", "drop_candidate", "stop", "rename", "create",
         "start", "check">>
  /\ job.how = "release" /\ job.undo => Commands =
       <<"stop_new", "drop_new", "rename_back", "start_old", "check_old",
         "stop_candidate", "drop_candidate">>
  /\ job.how = "normalize" /\ job.undo => Commands =
       <<"stop_new", "set_aside", "rename_back", "start_old", "check_old", "stop_candidate">>
  /\ job.how = "preview" /\ job.undo => Commands =
       <<"drop_candidate", "drop_new", "rename_back", "start_old", "check_old">>
  <1>1. /\ Plan["release"] = <<"candidate", "boot", "check_candidate", "stop", "rename", "create", "start",
                             "check", "stop_candidate", "drop_candidate">>
        /\ Plan["normalize"] = <<"candidate", "boot", "check_candidate", "stop", "rename", "create", "start",
                             "check", "stop_candidate", "check">>
        /\ Plan["preview"] = <<"candidate", "boot", "check_candidate", "drop_candidate", "stop", "rename",
                             "create", "start", "check">>
    BY Zenon DEF Plan
  <1>2. /\ Undo["release"] = <<"stop_new", "drop_new", "rename_back", "start_old", "check_old",
                               "stop_candidate", "drop_candidate">>
        /\ Undo["normalize"] = <<"stop_new", "set_aside", "rename_back", "start_old", "check_old",
                               "stop_candidate">>
        /\ Undo["preview"] = <<"drop_candidate", "drop_new", "rename_back", "start_old", "check_old">>
    BY Zenon DEF Undo, NormalizeUndo
  <1> QED BY <1>1, <1>2, Zenon DEF Commands

LEMMA CommandCounts ==
  /\ job.how = "release" /\ ~job.undo => Len(Commands) = 10
  /\ job.how = "normalize" /\ ~job.undo => Len(Commands) = 10
  /\ job.how = "preview" /\ ~job.undo => Len(Commands) = 9
  /\ job.how = "release" /\ job.undo => Len(Commands) = 7
  /\ job.how = "normalize" /\ job.undo => Len(Commands) = 6
  /\ job.how = "preview" /\ job.undo => Len(Commands) = 5
  <1> DEFINE len == Len(Commands)
  <1>1. ASSUME job.how = "release", ~job.undo PROVE len = 10
    BY <1>1, CommandLists
  <1>2. ASSUME job.how = "normalize", ~job.undo PROVE len = 10
    BY <1>2, CommandLists
  <1>3. ASSUME job.how = "preview", ~job.undo PROVE len = 9
    BY <1>3, CommandLists
  <1>4. ASSUME job.how = "release", job.undo PROVE len = 7
    BY <1>4, CommandLists
  <1>5. ASSUME job.how = "normalize", job.undo PROVE len = 6
    BY <1>5, CommandLists
  <1>6. ASSUME job.how = "preview", job.undo PROVE len = 5
    BY <1>6, CommandLists
  <1> HIDE DEF len
  <1>7. /\ job.how = "release" /\ ~job.undo => len = 10
        /\ job.how = "normalize" /\ ~job.undo => len = 10
        /\ job.how = "preview" /\ ~job.undo => len = 9
        /\ job.how = "release" /\ job.undo => len = 7
        /\ job.how = "normalize" /\ job.undo => len = 6
        /\ job.how = "preview" /\ job.undo => len = 5
    BY <1>1, <1>2, <1>3, <1>4, <1>5, <1>6
  <1> QED BY <1>7 DEF len

\* Where a script is when it gives a command.
LEMMA CommandPlaces ==
  ASSUME NEW command, Doing(command), job \in Jobs
  PROVE  /\ job.how \in Hows /\ job.at \in 1..10
         /\ command = "candidate" => ~job.undo /\ job.at = 1
         /\ command = "boot" => ~job.undo /\ job.at = 2
         /\ command = "check_candidate" => ~job.undo /\ job.at = 3
         /\ command = "stop" => ~job.undo /\ job.at = StopAt(job)
         /\ command = "rename" => ~job.undo /\ job.at = StopAt(job) + 1
         /\ command = "create" => ~job.undo /\ job.at = StopAt(job) + 2
         /\ command = "start" => ~job.undo /\ job.at = StopAt(job) + 3
         /\ command = "check" => ~job.undo /\ job.at >= StopAt(job) + 4
         /\ command = "stop_candidate" => /\ job.how # "preview"
                                       /\ job.at = IF job.undo THEN 6 ELSE 9
         /\ command = "drop_candidate" =>
              \/ job.how = "release" /\ job.at = IF job.undo THEN 7 ELSE 10
              \/ job.how = "preview" /\ job.at = IF job.undo THEN 1 ELSE 4
         /\ command = "stop_new" => job.undo /\ job.at = 1 /\ job.how # "preview"
         /\ command = "drop_new" => job.undo /\ job.at = 2 /\ job.how # "normalize"
         /\ command = "set_aside" => job.undo /\ job.at = 2 /\ job.how = "normalize"
         /\ command = "rename_back" => job.undo /\ job.at = 3
         /\ command = "start_old" => job.undo /\ job.at = 4
         /\ command = "check_old" => job.undo /\ job.at = 5
  <1>1. job.how \in Hows /\ job.at \in Nat /\ job.at >= 1 /\ job.undo \in BOOLEAN
    BY DEF Doing, Jobs
  <1>2. CASE job.how = "release" /\ ~job.undo
    <2>1. Commands = <<"candidate", "boot", "check_candidate", "stop", "rename", "create", "start", "check",
                       "stop_candidate", "drop_candidate">>
      BY <1>2, CommandLists
    <2>2. job.at <= Len(Commands) /\ Commands[job.at] = command
      BY DEF Doing
    <2>3. Len(Commands) = 10
      BY <1>2, CommandCounts
    <2>4. job.at \in 1..10
      BY <1>1, <2>2, <2>3
    <2> QED BY <1>1, <1>2, <2>1, <2>2, <2>4 DEF StopAt
  <1>3. CASE job.how = "normalize" /\ ~job.undo
    <2>1. Commands = <<"candidate", "boot", "check_candidate", "stop", "rename", "create", "start", "check",
                       "stop_candidate", "check">>
      BY <1>3, CommandLists
    <2>2. job.at <= Len(Commands) /\ Commands[job.at] = command
      BY DEF Doing
    <2>3. Len(Commands) = 10
      BY <1>3, CommandCounts
    <2>4. job.at \in 1..10
      BY <1>1, <2>2, <2>3
    <2> QED BY <1>1, <1>3, <2>1, <2>2, <2>4 DEF StopAt
  <1>4. CASE job.how = "preview" /\ ~job.undo
    <2>1. Commands = <<"candidate", "boot", "check_candidate", "drop_candidate", "stop", "rename", "create",
                       "start", "check">>
      BY <1>4, CommandLists
    <2>2. job.at <= Len(Commands) /\ Commands[job.at] = command
      BY DEF Doing
    <2>3. Len(Commands) = 9
      BY <1>4, CommandCounts
    <2>4. job.at \in 1..9
      BY <1>1, <2>2, <2>3
    <2> QED BY <1>1, <1>4, <2>1, <2>2, <2>4 DEF StopAt
  <1>5. CASE job.how = "release" /\ job.undo
    <2>1. Commands = <<"stop_new", "drop_new", "rename_back", "start_old", "check_old",
                       "stop_candidate", "drop_candidate">>
      BY <1>5, CommandLists
    <2>2. job.at <= Len(Commands) /\ Commands[job.at] = command
      BY DEF Doing
    <2>3. Len(Commands) = 7
      BY <1>5, CommandCounts
    <2>4. job.at \in 1..7
      BY <1>1, <2>2, <2>3
    <2> QED BY <1>1, <1>5, <2>1, <2>2, <2>4 DEF StopAt
  <1>6. CASE job.how = "normalize" /\ job.undo
    <2>1. Commands = <<"stop_new", "set_aside", "rename_back", "start_old", "check_old", "stop_candidate">>
      BY <1>6, CommandLists
    <2>2. job.at <= Len(Commands) /\ Commands[job.at] = command
      BY DEF Doing
    <2>3. Len(Commands) = 6
      BY <1>6, CommandCounts
    <2>4. job.at \in 1..6
      BY <1>1, <2>2, <2>3
    <2> QED BY <1>1, <1>6, <2>1, <2>2, <2>4 DEF StopAt
  <1>7. CASE job.how = "preview" /\ job.undo
    <2>1. Commands = <<"drop_candidate", "drop_new", "rename_back", "start_old", "check_old">>
      BY <1>7, CommandLists
    <2>2. job.at <= Len(Commands) /\ Commands[job.at] = command
      BY DEF Doing
    <2>3. Len(Commands) = 5
      BY <1>7, CommandCounts
    <2>4. job.at \in 1..5
      BY <1>1, <2>2, <2>3
    <2> QED BY <1>1, <1>7, <2>1, <2>2, <2>4 DEF StopAt
  <1> QED BY <1>1, <1>2, <1>3, <1>4, <1>5, <1>6, <1>7 DEF Hows

\* How far it has come when all commands went through.
LEMMA AllThrough ==
  ASSUME job \in Jobs, job.how # "given_up", job.at > Len(Commands)
  PROVE  /\ ~job.undo => job.at > StopAt(job) + 4
         /\ job.undo => job.at > 5
  <1>1. job.how \in Hows /\ job.at \in Nat
    BY DEF Jobs
  <1>2. PICK n : n = Len(Commands)
    OBVIOUS
  <1>3. PICK at : at = job.at
    OBVIOUS
  <1>4. at > n /\ at \in Nat
    BY <1>1, <1>2, <1>3
  <1>5. CASE job.undo
    <2>1. n \in {5, 6, 7}
      BY <1>1, <1>2, <1>5, CommandCounts DEF Hows
    <2> QED BY <1>3, <1>4, <1>5, <2>1
  <1>6. CASE ~job.undo
    <2>1. n >= StopAt(job) + 4 /\ n \in {9, 10}
      BY <1>1, <1>2, <1>6, CommandCounts DEF Hows, StopAt
    <2>2. StopAt(job) \in Nat
      BY DEF StopAt
    <2> QED BY <1>3, <1>4, <1>6, <2>1, <2>2
  <1> QED BY <1>5, <1>6

-----------------------------------------------------------------------------
\* One container is made, started, stopped, renamed or removed.
LEMMA OneBox ==
  ASSUME NEW bx, NEW tested, BoxesFit(bx, tested), NEW b \in Boxes, NEW c \in {Gone} \cup Containers,
         Fits(c, b \in tested),
         c # Gone /\ c.name.role = "stable" => \A a \in Boxes \ {b} : ~Plays(bx, a, "stable")
  PROVE  BoxesFit([bx EXCEPT ![b] = c], tested)
  <1> DEFINE new == [bx EXCEPT ![b] = c]
  <1>1. bx \in [Boxes -> {Gone} \cup Containers]
    BY DEF BoxesFit
  <1>2. new \in [Boxes -> {Gone} \cup Containers] /\ new[b] = c /\ \A a \in Boxes \ {b} : new[a] = bx[a]
    BY <1>1
  <1> HIDE DEF new
  <1>3. \A a \in Boxes : Fits(new[a], a \in tested)
    BY <1>2 DEF BoxesFit
  <1>4. \A x, y \in Boxes : Plays(new, x, "stable") /\ Plays(new, y, "stable") => x = y
    BY <1>2 DEF BoxesFit, Plays
  <1>5. BoxesFit(new, tested)
    BY <1>2, <1>3, <1>4 DEF BoxesFit
  <1> QED BY <1>5 DEF new

LEMMA Going ==
  ASSUME NEW j \in Jobs
  PROVE  /\ Onward(j) \in Jobs /\ Onward(j).at = j.at + 1 /\ Onward(j).how = j.how /\ Onward(j).undo = j.undo
         /\ Onward(j).old = j.old /\ Onward(j).new = j.new /\ Onward(j).candidate = j.candidate
         /\ Onward(j).stopped = j.stopped /\ Onward(j).renamed = j.renamed
         /\ j.at \in Nat /\ j.at >= 1
  <1>1. j.at \in Nat /\ j.at >= 1 /\ j.at + 1 \in Nat \ {0}
    BY DEF Jobs
  <1>2. Onward(j) = [j EXCEPT !.at = j.at + 1]
    BY DEF Onward, Jobs
  <1> QED BY <1>1, <1>2 DEF Jobs

\* A command that succeeds takes what is known along.
LEMMA Comes ==
  ASSUME NEW bx, NEW tested, NEW where, NEW j \in Jobs, j.how = "preview" <=> where = "test",
         KnowsOld(bx, j, tested), KnowsNew(bx, j, tested),
         Forward(bx, Onward(j)), Backward(bx, Onward(j))
  PROVE  JobFits(bx, Onward(j), tested, where)
  <1> PICK k : k = Onward(j)
    OBVIOUS
  <1>1. /\ k \in Jobs /\ k.at = j.at + 1 /\ k.how = j.how /\ k.undo = j.undo /\ k.old = j.old /\ k.new = j.new
        /\ k.candidate = j.candidate /\ k.stopped = j.stopped /\ k.renamed = j.renamed
        /\ j.at \in Nat /\ j.at >= 1
    BY Going
  <1>2. KnowsOld(bx, k, tested)
    BY <1>1 DEF KnowsOld
  <1>3. KnowsNew(bx, k, tested)
    BY <1>1 DEF KnowsNew
  <1> QED BY <1>1, <1>2, <1>3 DEF JobFits

\* An exception in the main part starts the except branch; one there ends it.
LEMMA Falls ==
  ASSUME NEW bx, NEW tested, NEW where, NEW j \in Jobs, j.how = "preview" <=> where = "test",
         KnowsOld(bx, j, tested), KnowsNew(bx, j, tested)
  PROVE  JobFits(bx, Fallen(j), tested, where)
  <1>0. PICK k : k = Fallen(j)
    OBVIOUS
  <1>1. CASE j.undo
    <2>1. k \in Jobs /\ k.how = "given_up"
      BY <1>0, <1>1 DEF Fallen, Jobs
    <2> QED BY <1>0, <2>1 DEF JobFits
  <1>2. CASE ~j.undo
    <2>1. /\ k \in Jobs /\ k.undo = TRUE /\ k.at = 1 /\ k.how = j.how /\ k.old = j.old /\ k.new = j.new
          /\ k.candidate = j.candidate /\ k.stopped = j.stopped /\ k.renamed = j.renamed
      <3>1. k = [j EXCEPT !.undo = TRUE, !.at = 1]
        BY <1>0, <1>2 DEF Fallen
      <3>2. 1 \in Nat \ {0} /\ TRUE \in BOOLEAN
        OBVIOUS
      <3> QED BY <3>1, <3>2 DEF Jobs
    <2>2. KnowsOld(bx, k, tested)
      BY <1>2, <2>1 DEF KnowsOld
    <2>3. KnowsNew(bx, k, tested)
      BY <2>1 DEF KnowsNew
    <2>4. Forward(bx, k) /\ Backward(bx, k)
      BY <2>1 DEF Forward, Backward
    <2> QED BY <1>0, <2>1, <2>2, <2>3, <2>4 DEF JobFits
  <1> QED BY <1>1, <1>2

LEMMA Arrives ==
  ASSUME SwapInv, UNCHANGED <<receipt, proven, try, host>>, NEW j \in Jobs, job' = j,
         NEW bx, box' = bx, BoxesFit(bx, proven), JobFits(bx, j, proven, host), FoundStay(bx, proven, host)
  PROVE  SwapInv'
  <1>1. j # NoJob
    BY DEF Jobs, NoJob, Hows
  <1>2. BoxesFit(box', proven') /\ JobFits(box', job', proven', host') /\ FoundStay(box', proven', host')
    OBVIOUS
  <1> QED BY <1>1, <1>2 DEF SwapInv

LEMMA DoLands ==
  ASSUME SwapInv, NEW b \in Boxes, NEW c \in {Gone} \cup Containers, NEW effect, effect = [box EXCEPT ![b] = c],
         FoundStay(box, proven, host), c = Gone => b \notin proven, Fits(c, b \in proven),
         c # Gone /\ c.name.role = "stable" => \A a \in Boxes \ {b} : ~Plays(box, a, "stable"),
         NEW before, NEW after, JobFits(effect, Onward(after), proven, host),
         JobFits(effect, Fallen(before), proven, host), JobFits(box, Fallen(before), proven, host),
         Do(effect, before, after)
  PROVE  SwapInv'
  <1>1. BoxesFit(box, proven) /\ proven \subseteq Boxes /\ box \in [Boxes -> {Gone} \cup Containers]
    BY DEF SwapInv, BoxesFit
  <1>2. BoxesFit(effect, proven)
    BY <1>1, OneBox
  <1>3. FoundStay(effect, proven, host)
    <2>1. \A a \in proven : box[a] # Gone => effect[a] # Gone
      BY <1>1
    <2> QED BY <2>1 DEF FoundStay
  <1>4. Onward(after) \in Jobs /\ Fallen(before) \in Jobs
    BY DEF JobFits
  <1>5. UNCHANGED <<receipt, proven, try, host>>
    BY DEF Do
  <1>6. \/ box' = effect /\ job' = Onward(after)
        \/ box' = effect /\ job' = Fallen(before)
        \/ box' = box /\ job' = Fallen(before)
    BY DEF Do
  <1>7. CASE box' = effect /\ job' = Onward(after)
    BY <1>2, <1>3, <1>4, <1>5, <1>7, Arrives
  <1>8. CASE box' = effect /\ job' = Fallen(before)
    BY <1>2, <1>3, <1>4, <1>5, <1>8, Arrives
  <1>9. CASE box' = box /\ job' = Fallen(before)
    BY <1>1, <1>4, <1>5, <1>9, Arrives
  <1> QED BY <1>6, <1>7, <1>8, <1>9

LEMMA DoKeeps ==
  ASSUME SwapInv, NEW b \in Boxes, NEW c \in {Gone} \cup Containers, NEW effect, effect = [box EXCEPT ![b] = c],
         NEW before \in Jobs, before.how = "preview" <=> host = "test",
         NEW after \in Jobs, after.how = "preview" <=> host = "test",
         FoundStay(box, proven, host), c = Gone => b \notin proven, Fits(c, b \in proven),
         c # Gone /\ c.name.role = "stable" => \A a \in Boxes \ {b} : ~Plays(box, a, "stable"),
         KnowsOld(box, before, proven), KnowsNew(box, before, proven),
         KnowsOld(effect, before, proven), KnowsNew(effect, before, proven),
         KnowsOld(effect, after, proven), KnowsNew(effect, after, proven),
         Forward(effect, Onward(after)), Backward(effect, Onward(after)),
         Do(effect, before, after)
  PROVE  SwapInv'
  <1>1. JobFits(effect, Onward(after), proven, host)
    BY Comes
  <1>2. JobFits(effect, Fallen(before), proven, host) /\ JobFits(box, Fallen(before), proven, host)
    BY Falls
  <1> QED BY <1>1, <1>2, DoLands

\* What is known of a script under way.
LEMMA Live ==
  ASSUME SwapInv, NEW command, Doing(command)
  PROVE  /\ job \in Jobs /\ job.how \in Hows /\ (job.how = "preview" <=> host = "test")
         /\ KnowsOld(box, job, proven) /\ KnowsNew(box, job, proven)
         /\ Forward(box, job) /\ Backward(box, job) /\ FoundStay(box, proven, host)
         /\ BoxesFit(box, proven) /\ box \in [Boxes -> {Gone} \cup Containers]
         /\ job.old \in Boxes /\ job.at \in Nat /\ job.undo \in BOOLEAN /\ job.stopped \in BOOLEAN
  <1>1. job # NoJob /\ job.how # "given_up"
    BY DEF Doing
  <1>2. JobFits(box, job, proven, host) /\ FoundStay(box, proven, host) /\ BoxesFit(box, proven)
    BY <1>1 DEF SwapInv
  <1>3. job \in Jobs
    BY <1>2 DEF JobFits
  <1> QED BY <1>1, <1>2, <1>3 DEF JobFits, Jobs, BoxesFit

LEMMA SkipKeeps ==
  ASSUME SwapInv, NEW command, Doing(command), Forward(box, Onward(job)), Backward(box, Onward(job)), Skips
  PROVE  SwapInv'
  <1>1. JobFits(box, Onward(job), proven, host) /\ Onward(job) \in Jobs
    BY Live, Comes, Going
  <1> QED BY <1>1, Live, Arrives DEF Skips

LEMMA ThrowKeeps ==
  ASSUME SwapInv, NEW command, Doing(command), Throws
  PROVE  SwapInv'
  <1>1. JobFits(box, Fallen(job), proven, host)
    BY Live, Falls
  <1>2. Fallen(job) \in Jobs
    BY <1>1 DEF JobFits
  <1> QED BY <1>1, <1>2, Live, Arrives DEF Throws

\* What happens to one container leaves what is known of the others.
LEMMA OthersKnown ==
  ASSUME SwapInv, NEW b \in Boxes, NEW c \in {Gone} \cup Containers, NEW effect, effect = [box EXCEPT ![b] = c],
         NEW j \in Jobs, KnowsOld(box, j, proven), KnowsNew(box, j, proven)
  PROVE  /\ effect \in [Boxes -> {Gone} \cup Containers] /\ effect[b] = c
         /\ \A a \in Boxes : a # b => effect[a] = box[a] /\ \A r \in Roles : Plays(effect, a, r) <=> Plays(box, a, r)
         /\ b # j.old /\ (b \in proven => ~Plays(effect, b, "stable")) => KnowsOld(effect, j, proven)
         /\ b # j.new /\ b # j.candidate => KnowsNew(effect, j, proven)
  <1>1. box \in [Boxes -> {Gone} \cup Containers] /\ proven \subseteq Boxes
    BY DEF SwapInv, BoxesFit
  <1>2. effect \in [Boxes -> {Gone} \cup Containers] /\ effect[b] = c /\ \A a \in Boxes : a # b => effect[a] = box[a]
    BY <1>1
  <1>3. /\ j.old \in Boxes /\ j.new \in Boxes \cup {None} /\ j.candidate \in Boxes \cup {None}
    BY DEF Jobs
  <1>4. ASSUME b # j.old, b \in proven => ~Plays(effect, b, "stable") PROVE KnowsOld(effect, j, proven)
    BY <1>1, <1>2, <1>3, <1>4 DEF KnowsOld, Plays
  <1>5. ASSUME b # j.new, b # j.candidate PROVE KnowsNew(effect, j, proven)
    BY <1>1, <1>2, <1>3, <1>5 DEF KnowsNew, Plays
  <1>6. \A a \in Boxes : a # b => \A r \in Roles : Plays(effect, a, r) <=> Plays(box, a, r)
    BY <1>2 DEF Plays
  <1> QED BY <1>2, <1>4, <1>5, <1>6

-----------------------------------------------------------------------------
\* Each command.
LEMMA CandidateMade == ASSUME SwapInv, CreateCandidate PROVE SwapInv'
  <1>1. Doing("candidate")
    BY DEF CreateCandidate, Create
  <1>2. /\ job \in Jobs /\ job.how \in Hows /\ (job.how = "preview" <=> host = "test")
        /\ KnowsOld(box, job, proven) /\ KnowsNew(box, job, proven) /\ Forward(box, job)
        /\ FoundStay(box, proven, host) /\ BoxesFit(box, proven) /\ box \in [Boxes -> {Gone} \cup Containers]
        /\ job.old \in Boxes /\ try \in 0..MaxTries /\ proven \subseteq Boxes
    BY <1>1, Live DEF SwapInv
  <1>3. ~job.undo /\ job.at = 1
    BY <1>1, <1>2, CommandPlaces
  <1> DEFINE before == [job EXCEPT !.unknown = TRUE]
  <1>4. /\ before \in Jobs /\ before.how = job.how /\ before.undo = job.undo /\ before.at = job.at
        /\ before.old = job.old /\ before.new = job.new /\ before.candidate = job.candidate
        /\ before.stopped = job.stopped /\ before.renamed = job.renamed
    BY <1>2 DEF Jobs
  <1> HIDE DEF before
  <1>5. KnowsOld(box, before, proven) /\ KnowsNew(box, before, proven)
    BY <1>2, <1>4 DEF KnowsOld, KnowsNew
  <1>6. CASE job' = Fallen(before) /\ UNCHANGED <<box, receipt, proven, try, host>>
    <2>1. JobFits(box, Fallen(before), proven, host)
      BY <1>2, <1>4, <1>5, Falls
    <2>2. Fallen(before) \in Jobs
      BY <2>1 DEF JobFits
    <2> QED BY <1>2, <1>6, <2>1, <2>2, Arrives
  <1>7. ASSUME NEW b \in Unused, Do(With(b, Named("candidate"), "second"), before, [job EXCEPT !.candidate = b])
        PROVE  SwapInv'
    <2> DEFINE c == [name |-> Named("candidate"), port |-> "second", up |-> FALSE]
               after == [job EXCEPT !.candidate = b]
    <2>1. b \in Boxes /\ b \notin proven /\ box[b] = Gone
      BY DEF Unused, Used, There, Boxes
    <2>2. c \in Containers /\ c.name.role = "candidate" /\ c.port = "second"
      BY <1>2 DEF Containers, Named, Roles
    <2>3. c # Gone
      BY <2>2, GoneAssumption
    <2>4. PICK effect : effect = [box EXCEPT ![b] = c]
      OBVIOUS
    <2>5. Do(effect, before, after)
      BY <1>7, <2>4 DEF With
    <2>6. /\ after \in Jobs /\ after.how = job.how /\ after.undo = job.undo /\ after.at = job.at
          /\ after.old = job.old /\ after.new = job.new /\ after.candidate = b
          /\ after.stopped = job.stopped /\ after.renamed = job.renamed
      BY <1>2, <2>1 DEF Jobs
    <2> HIDE DEF c, after
    <2>7. Fits(c, b \in proven) /\ ~Plays(effect, b, "stable") /\ Plays(effect, b, "candidate")
      BY <1>2, <2>1, <2>2, <2>3, <2>4 DEF Fits, Plays
    <2>8. b # job.old /\ job.new = None
      BY <1>2, <1>3, <2>1 DEF KnowsOld, Forward, StopAt
    <2>9. effect[b] # Gone /\ \A a \in Boxes : a # b => effect[a] = box[a]
      BY <1>2, <2>1, <2>3, <2>4
    <2>10. KnowsOld(effect, job, proven)
      BY <1>2, <2>1, <2>2, <2>4, <2>7, <2>8, OthersKnown
    <2>11. KnowsOld(effect, before, proven) /\ KnowsOld(effect, after, proven)
      BY <1>4, <2>6, <2>10 DEF KnowsOld
    <2>12. KnowsNew(effect, before, proven) /\ KnowsNew(effect, after, proven)
      <3>1. before.candidate \in Boxes \cup {None} /\ before.new = None /\ after.new = None
        BY <1>4, <2>6, <2>8 DEF Jobs
      <3> QED BY <1>4, <1>5, <2>1, <2>6, <2>7, <2>9, <3>1 DEF KnowsNew, Plays
    <2>13. KnowsOld(box, after, proven)
      BY <1>2, <2>6 DEF KnowsOld
    <2>14. PICK k : k = Onward(after)
      OBVIOUS
    <2>15. /\ k.at = 2 /\ k.undo = job.undo /\ k.how = job.how /\ k.candidate = b /\ k.new = None
           /\ k.stopped = job.stopped
      BY <1>3, <2>6, <2>8, <2>14, Going
    <2>16. Forward(effect, k) /\ Backward(effect, k)
      BY <1>2, <1>3, <2>1, <2>7, <2>15 DEF Forward, Backward, StopAt, None, Boxes
    <2> QED BY <1>2, <1>4, <1>5, <2>1, <2>2, <2>3, <2>4, <2>5, <2>6, <2>7, <2>11, <2>12, <2>14, <2>16, DoKeeps
  <1>8. \/ job' = Fallen(before) /\ UNCHANGED <<box, receipt, proven, try, host>>
        \/ \E b \in Unused : Do(With(b, Named("candidate"), "second"), before, [job EXCEPT !.candidate = b])
    <2> DEFINE known == [b \in Boxes |-> [job EXCEPT !.candidate = b]]
    <2>1. \A b \in Unused : known[b] = [job EXCEPT !.candidate = b]
      BY DEF Unused
    <2>2. \/ job' = Fallen(before) /\ UNCHANGED <<box, receipt, proven, try, host>>
          \/ \E b \in Unused : Do(With(b, Named("candidate"), "second"), before, known[b])
      BY Zenon DEF CreateCandidate, Create, before
    <2> HIDE DEF known
    <2> QED BY <2>1, <2>2
  <1> QED BY <1>6, <1>7, <1>8

LEMMA NewMade == ASSUME SwapInv, CreateNew PROVE SwapInv'
  <1>1. Doing("create")
    BY DEF CreateNew, Create
  <1>2. /\ job \in Jobs /\ job.how \in Hows /\ (job.how = "preview" <=> host = "test")
        /\ KnowsOld(box, job, proven) /\ KnowsNew(box, job, proven) /\ Forward(box, job)
        /\ FoundStay(box, proven, host) /\ BoxesFit(box, proven) /\ box \in [Boxes -> {Gone} \cup Containers]
        /\ job.old \in Boxes /\ proven \subseteq Boxes
    BY <1>1, Live DEF SwapInv
  <1>3. ~job.undo /\ job.at = StopAt(job) + 2
    BY <1>1, <1>2, CommandPlaces
  <1> DEFINE before == [job EXCEPT !.unknown = TRUE]
  <1>4. /\ before \in Jobs /\ before.how = job.how /\ before.undo = job.undo /\ before.at = job.at
        /\ before.old = job.old /\ before.new = job.new /\ before.candidate = job.candidate
        /\ before.stopped = job.stopped /\ before.renamed = job.renamed
    BY <1>2 DEF Jobs
  <1> HIDE DEF before
  <1>5. KnowsOld(box, before, proven) /\ KnowsNew(box, before, proven)
    BY <1>2, <1>4 DEF KnowsOld, KnowsNew
  <1>6. CASE job' = Fallen(before) /\ UNCHANGED <<box, receipt, proven, try, host>>
    <2>1. JobFits(box, Fallen(before), proven, host)
      BY <1>2, <1>4, <1>5, Falls
    <2>2. Fallen(before) \in Jobs
      BY <2>1 DEF JobFits
    <2> QED BY <1>2, <1>6, <2>1, <2>2, Arrives
  <1>7. ASSUME NEW b \in Unused, Holder(Stable) = {}, Do(With(b, Stable, "stable"), before, [job EXCEPT !.new = b])
        PROVE  SwapInv'
    <2> DEFINE c == [name |-> Stable, port |-> "stable", up |-> FALSE]
               after == [job EXCEPT !.new = b]
    <2>1. b \in Boxes /\ b \notin proven /\ box[b] = Gone /\ b > job.old
      BY <1>2 DEF Unused, Used, There, Boxes, KnowsOld
    <2>2. c \in Containers /\ c.name.role = "stable" /\ c.port = "stable" /\ c.name = Stable
      BY MaxTriesAssumption DEF Containers, Stable, Roles
    <2>3. c # Gone
      BY <2>2, GoneAssumption
    <2>4. PICK effect : effect = [box EXCEPT ![b] = c]
      OBVIOUS
    <2>5. Do(effect, before, after)
      BY <1>7, <2>4 DEF With
    <2>6. /\ after \in Jobs /\ after.how = job.how /\ after.undo = job.undo /\ after.at = job.at
          /\ after.old = job.old /\ after.new = b /\ after.candidate = job.candidate
          /\ after.stopped = job.stopped /\ after.renamed = job.renamed
      BY <1>2, <2>1 DEF Jobs
    <2> HIDE DEF c, after
    <2>7. Fits(c, b \in proven) /\ Plays(effect, b, "stable")
      BY <1>2, <2>1, <2>2, <2>3, <2>4 DEF Fits, Plays
    <2>8. /\ b # job.old /\ job.new = None /\ job.stopped
          /\ job.how # "preview" => job.candidate # None /\ Plays(box, job.candidate, "candidate")
      BY <1>2, <1>3, <2>1 DEF KnowsOld, Forward, StopAt
    <2>9. effect[b] # Gone /\ \A a \in Boxes : a # b => effect[a] = box[a]
      BY <1>2, <2>1, <2>3, <2>4
    <2>10. KnowsOld(effect, job, proven)
      BY <1>2, <2>1, <2>2, <2>4, <2>7, <2>8, OthersKnown
    <2>11. KnowsOld(effect, before, proven) /\ KnowsOld(effect, after, proven)
      BY <1>4, <2>6, <2>10 DEF KnowsOld
    <2>12. job.how # "preview" => job.candidate \in Boxes /\ Plays(effect, job.candidate, "candidate")
      BY <1>2, <2>1, <2>8, <2>9 DEF Jobs, Plays
    <2>13. KnowsNew(effect, before, proven) /\ KnowsNew(effect, after, proven)
      BY <1>4, <2>1, <2>6, <2>7, <2>8, <2>12 DEF KnowsNew, Plays
    <2>14. PICK k : k = Onward(after)
      OBVIOUS
    <2>15. /\ k.at = job.at + 1 /\ k.undo = job.undo /\ k.how = job.how /\ k.candidate = job.candidate
           /\ k.new = b /\ k.stopped = job.stopped
      BY <1>3, <2>6, <2>8, <2>14, Going
    <2>16. Forward(effect, k) /\ Backward(effect, k)
      BY <1>2, <1>3, <2>1, <2>7, <2>8, <2>12, <2>15 DEF Forward, Backward, StopAt, None, Boxes
    <2>17. \A a \in Boxes \ {b} : ~Plays(box, a, "stable")
      <3>1. \A a \in Boxes : ~(box[a] # Gone /\ box[a].name = Stable)
        BY <1>7 DEF Holder, There
      <3> QED BY <1>2, <3>1 DEF BoxesFit, Fits, Plays
    <2> QED BY <1>2, <1>4, <1>5, <2>1, <2>2, <2>3, <2>4, <2>5, <2>6, <2>7, <2>11, <2>13, <2>14, <2>16, <2>17, DoKeeps
  <1>8. \/ job' = Fallen(before) /\ UNCHANGED <<box, receipt, proven, try, host>>
        \/ /\ Holder(Stable) = {}
           /\ \E b \in Unused : Do(With(b, Stable, "stable"), before, [job EXCEPT !.new = b])
    <2> DEFINE known == [b \in Boxes |-> [job EXCEPT !.new = b]]
    <2>1. \A b \in Unused : known[b] = [job EXCEPT !.new = b]
      BY DEF Unused
    <2>2. \/ job' = Fallen(before) /\ UNCHANGED <<box, receipt, proven, try, host>>
          \/ Holder(Stable) = {} /\ \E b \in Unused : Do(With(b, Stable, "stable"), before, known[b])
      BY Zenon DEF CreateNew, Create, before
    <2> HIDE DEF known
    <2> QED BY <2>1, <2>2
  <1> QED BY <1>6, <1>7, <1>8

\* A command on a container that is not the old one.
LEMMA AsideKeeps ==
  ASSUME SwapInv, NEW command, Doing(command), NEW b \in Boxes, box[b] # Gone, b # job.old,
         NEW c \in {Gone} \cup Containers, NEW effect, effect = [box EXCEPT ![b] = c],
         Fits(c, b \in proven), c = Gone => b \notin proven,
         c # Gone => c.name.role = box[b].name.role \/ (c.name.role = "failed" /\ b = job.new),
         Forward(effect, Onward(job)), Backward(effect, Onward(job)), Do(effect, job, job)
  PROVE  SwapInv'
  <1>1. /\ job \in Jobs /\ (job.how = "preview" <=> host = "test")
        /\ KnowsOld(box, job, proven) /\ KnowsNew(box, job, proven)
        /\ FoundStay(box, proven, host) /\ BoxesFit(box, proven) /\ box \in [Boxes -> {Gone} \cup Containers]
    BY Live
  <1>2. effect[b] = c /\ \A a \in Boxes : a # b => effect[a] = box[a]
    BY <1>1
  <1>3. c # Gone /\ c.name.role = "stable" => \A a \in Boxes \ {b} : ~Plays(box, a, "stable")
    BY <1>1 DEF BoxesFit, Plays
  <1>4. b \in proven => ~Plays(effect, b, "stable")
    BY <1>1, <1>2 DEF KnowsOld, Plays
  <1>5. KnowsOld(effect, job, proven)
    BY <1>1, <1>4, OthersKnown
  <1>6. KnowsNew(effect, job, proven)
    <2>1. job.new \in Boxes \cup {None} /\ job.candidate \in Boxes \cup {None}
      BY <1>1 DEF Jobs
    <2> QED BY <1>1, <1>2, <2>1 DEF KnowsNew, Plays
  <1> QED BY <1>1, <1>3, <1>5, <1>6, DoKeeps

\* A container that is switched on or off, or renamed, is otherwise the same.
LEMMA Switches ==
  ASSUME box \in [Boxes -> {Gone} \cup Containers], NEW b \in Boxes, box[b] # Gone, NEW v \in BOOLEAN
  PROVE  \E c \in Containers :
           /\ c # Gone /\ c.name = box[b].name /\ c.port = box[b].port /\ c.up = v
           /\ [box EXCEPT ![b].up = v] = [box EXCEPT ![b] = c]
  <1> DEFINE c == [box[b] EXCEPT !.up = v]
  <1>1. c \in Containers /\ c.name = box[b].name /\ c.port = box[b].port /\ c.up = v
    BY DEF Containers
  <1>2. c # Gone
    BY <1>1, GoneAssumption
  <1>3. [box EXCEPT ![b].up = v] = [box EXCEPT ![b] = c]
    BY Zenon
  <1> HIDE DEF c
  <1> QED BY <1>1, <1>2, <1>3

LEMMA Renames ==
  ASSUME box \in [Boxes -> {Gone} \cup Containers], NEW b \in Boxes, box[b] # Gone,
         NEW name \in [role : Roles, try : 0..MaxTries]
  PROVE  \E c \in Containers :
           /\ c # Gone /\ c.name = name /\ c.port = box[b].port /\ c.up = box[b].up
           /\ Renamed(b, name) = [box EXCEPT ![b] = c]
  <1> DEFINE c == [box[b] EXCEPT !.name = name]
  <1>1. c \in Containers /\ c.name = name /\ c.port = box[b].port /\ c.up = box[b].up
    BY DEF Containers
  <1>2. c # Gone
    BY <1>1, GoneAssumption
  <1>3. Renamed(b, name) = [box EXCEPT ![b] = c]
    BY Zenon DEF Renamed
  <1> HIDE DEF c
  <1> QED BY <1>1, <1>2, <1>3

LEMMA CandidateBooted == ASSUME SwapInv, StartCandidate PROVE SwapInv'
  <1>1. Doing("boot") /\ Do(Up(job.candidate), job, job)
    BY DEF StartCandidate
  <1>2. /\ job \in Jobs /\ KnowsOld(box, job, proven) /\ Forward(box, job)
        /\ BoxesFit(box, proven) /\ box \in [Boxes -> {Gone} \cup Containers]
    BY <1>1, Live
  <1>3. ~job.undo /\ job.at = 2
    BY <1>1, <1>2, CommandPlaces
  <1>4. PICK b : b = job.candidate
    OBVIOUS
  <1>5. b # None /\ Plays(box, b, "candidate") /\ job.new = None /\ ~job.stopped
    BY <1>2, <1>3, <1>4 DEF Forward, StopAt
  <1>6. b \in Boxes /\ box[b] # Gone /\ b # job.old
    BY <1>2, <1>4, <1>5 DEF Jobs, Plays, KnowsOld
  <1>7. PICK c \in Containers : /\ c # Gone /\ c.name = box[b].name /\ c.port = box[b].port /\ c.up = TRUE
                                /\ [box EXCEPT ![b].up = TRUE] = [box EXCEPT ![b] = c]
    BY <1>2, <1>6, Switches
  <1>8. PICK effect : effect = [box EXCEPT ![b] = c]
    OBVIOUS
  <1>9. Do(effect, job, job)
    BY <1>1, <1>4, <1>7, <1>8 DEF Up
  <1>10. Fits(c, b \in proven)
    BY <1>2, <1>5, <1>6, <1>7 DEF BoxesFit, Fits, Plays
  <1>11. PICK k : k = Onward(job)
    OBVIOUS
  <1>12. k.at = 3 /\ k.undo = job.undo /\ k.how = job.how /\ k.candidate = b /\ k.new = None /\ ~k.stopped
    BY <1>2, <1>3, <1>4, <1>5, <1>11, Going
  <1>13. Plays(effect, b, "candidate")
    BY <1>2, <1>5, <1>6, <1>7, <1>8 DEF Plays
  <1>14. Forward(effect, k) /\ Backward(effect, k)
    BY <1>3, <1>5, <1>12, <1>13 DEF Forward, Backward, StopAt
  <1> QED BY <1>1, <1>6, <1>7, <1>8, <1>9, <1>10, <1>11, <1>14, AsideKeeps

LEMMA NewBooted == ASSUME SwapInv, StartNew PROVE SwapInv'
  <1>1. Doing("start") /\ Do(Up(job.new), job, job)
    BY DEF StartNew
  <1>2. /\ job \in Jobs /\ KnowsOld(box, job, proven) /\ KnowsNew(box, job, proven) /\ Forward(box, job)
        /\ BoxesFit(box, proven) /\ box \in [Boxes -> {Gone} \cup Containers] /\ job.old \in Boxes
    BY <1>1, Live
  <1>3. ~job.undo /\ job.at = StopAt(job) + 3
    BY <1>1, <1>2, CommandPlaces
  <1>4. PICK b : b = job.new
    OBVIOUS
  <1>5. /\ b # None /\ Plays(box, b, "stable") /\ job.stopped
        /\ job.how # "preview" => job.candidate # None /\ Plays(box, job.candidate, "candidate")
    BY <1>2, <1>3, <1>4 DEF Forward, StopAt
  <1>6. b \in Boxes /\ box[b] # Gone /\ b # job.old
    BY <1>2, <1>4, <1>5 DEF Jobs, Plays, KnowsNew, Boxes
  <1>7. PICK c \in Containers : /\ c # Gone /\ c.name = box[b].name /\ c.port = box[b].port /\ c.up = TRUE
                                /\ [box EXCEPT ![b].up = TRUE] = [box EXCEPT ![b] = c]
    BY <1>2, <1>6, Switches
  <1>8. PICK effect : effect = [box EXCEPT ![b] = c]
    OBVIOUS
  <1>9. Do(effect, job, job)
    BY <1>1, <1>4, <1>7, <1>8 DEF Up
  <1>10. Fits(c, b \in proven)
    BY <1>2, <1>5, <1>6, <1>7 DEF BoxesFit, Fits, Plays
  <1>11. PICK k : k = Onward(job)
    OBVIOUS
  <1>12. /\ k.at = job.at + 1 /\ k.undo = job.undo /\ k.how = job.how /\ k.candidate = job.candidate
         /\ k.new = b /\ k.stopped = job.stopped
    BY <1>2, <1>3, <1>4, <1>5, <1>11, Going
  <1>13. Plays(effect, b, "stable") /\ \A a \in Boxes : a # b => effect[a] = box[a]
    BY <1>2, <1>5, <1>6, <1>7, <1>8 DEF Plays
  <1>14. job.how # "preview" => job.candidate \in Boxes /\ Plays(effect, job.candidate, "candidate")
    BY <1>2, <1>5, <1>13 DEF Jobs, Plays
  <1>15. effect[b].up
    BY <1>2, <1>6, <1>7, <1>8
  <1>16. Forward(effect, k) /\ Backward(effect, k)
    BY <1>3, <1>5, <1>12, <1>13, <1>14, <1>15 DEF Forward, Backward, StopAt
  <1> QED BY <1>1, <1>6, <1>7, <1>8, <1>9, <1>10, <1>11, <1>16, AsideKeeps

LEMMA CandidateStopped == ASSUME SwapInv, StopCandidate PROVE SwapInv'
  <1>1. Doing("stop_candidate")
    BY DEF StopCandidate, OnEach
  <1>2. /\ job \in Jobs /\ KnowsOld(box, job, proven) /\ KnowsNew(box, job, proven)
        /\ Forward(box, job) /\ Backward(box, job) /\ job.old \in Boxes
        /\ BoxesFit(box, proven) /\ box \in [Boxes -> {Gone} \cup Containers]
    BY <1>1, Live
  <1>3. job.how # "preview" /\ job.at = IF job.undo THEN 6 ELSE 9
    BY <1>1, <1>2, CommandPlaces
  <1>4. PICK k : k = Onward(job)
    OBVIOUS
  <1>5. /\ k.at = job.at + 1 /\ k.undo = job.undo /\ k.how = job.how /\ k.candidate = job.candidate
        /\ k.new = job.new /\ k.stopped = job.stopped /\ k.old = job.old
    BY <1>2, <1>4, Going
  <1>6. CASE Skips
    <2>1. Forward(box, k) /\ Backward(box, k)
      BY <1>2, <1>3, <1>5 DEF Forward, Backward, StopAt
    <2> QED BY <1>1, <1>4, <1>6, <2>1, SkipKeeps
  <1>7. ASSUME NEW b \in {job.candidate} \ {None}, There(b), Do(Down(b), job, job) PROVE SwapInv'
    <2>1. b = job.candidate /\ b \in Boxes /\ box[b] # Gone /\ Plays(box, b, "candidate") /\ b # job.old
      BY <1>2, <1>3, <1>7 DEF Jobs, There, KnowsNew, KnowsOld, Plays
    <2>2. PICK c \in Containers : /\ c # Gone /\ c.name = box[b].name /\ c.port = box[b].port /\ c.up = FALSE
                                  /\ [box EXCEPT ![b].up = FALSE] = [box EXCEPT ![b] = c]
      BY <1>2, <2>1, Switches
    <2>3. PICK effect : effect = [box EXCEPT ![b] = c]
      OBVIOUS
    <2>4. Do(effect, job, job)
      BY <1>7, <2>2, <2>3 DEF Down
    <2>5. Fits(c, b \in proven)
      BY <1>2, <2>1, <2>2 DEF BoxesFit, Fits, Plays
    <2>6. Plays(effect, b, "candidate") /\ \A a \in Boxes : a # b => effect[a] = box[a]
      BY <1>2, <2>1, <2>2, <2>3 DEF Plays
    <2>7. Forward(effect, k)
      <3>1. ~job.undo => job.new \in Boxes /\ job.new # b /\ job.new # None
                         /\ Plays(box, job.new, "stable") /\ box[job.new].up /\ job.stopped
        BY <1>2, <1>3, <2>1 DEF Forward, StopAt, Jobs, Plays
      <3> QED BY <1>3, <1>5, <2>1, <2>6, <3>1 DEF Forward, StopAt, Plays, Boxes, None
    <2>8. Backward(effect, k)
      BY <1>2, <1>3, <1>5, <2>1, <2>6 DEF Backward, Plays
    <2> QED BY <1>1, <1>4, <2>1, <2>2, <2>3, <2>4, <2>5, <2>7, <2>8, AsideKeeps
  <1>8. CASE Throws
    BY <1>1, <1>8, ThrowKeeps
  <1>9. \/ Skips \/ Throws
        \/ \E b \in {job.candidate} \ {None} : There(b) /\ Do(Down(b), job, job)
    <2> DEFINE f == [b \in Existing |-> Down(b)]
    <2>1. \A b \in MadeCandidate : There(b) => f[b] = Down(b)
      BY <1>2, <1>3 DEF MadeCandidate, Existing, There, Jobs
    <2>2. Skips \/ Throws \/ \E b \in MadeCandidate : There(b) /\ Do(f[b], job, job)
      BY Zenon DEF StopCandidate, OnEach
    <2> HIDE DEF f
    <2>3. MadeCandidate = {job.candidate} \ {None}
      BY <1>3 DEF MadeCandidate
    <2> QED BY <2>1, <2>2, <2>3
  <1> QED BY <1>6, <1>7, <1>8, <1>9

LEMMA CandidateDropped == ASSUME SwapInv, DropCandidate PROVE SwapInv'
  <1>1. Doing("drop_candidate")
    BY DEF DropCandidate, OnEach
  <1>2. /\ job \in Jobs /\ KnowsOld(box, job, proven) /\ KnowsNew(box, job, proven)
        /\ Forward(box, job) /\ Backward(box, job) /\ job.old \in Boxes
        /\ BoxesFit(box, proven) /\ box \in [Boxes -> {Gone} \cup Containers]
    BY <1>1, Live
  <1>3. \/ job.how = "release" /\ job.at = IF job.undo THEN 7 ELSE 10
        \/ job.how = "preview" /\ job.at = IF job.undo THEN 1 ELSE 4
    BY <1>1, <1>2, CommandPlaces
  <1>4. PICK k : k = Onward(job)
    OBVIOUS
  <1>5. /\ k.at = job.at + 1 /\ k.undo = job.undo /\ k.how = job.how /\ k.candidate = job.candidate
        /\ k.new = job.new /\ k.stopped = job.stopped /\ k.old = job.old
    BY <1>2, <1>4, Going
  <1>6. CASE Skips
    <2>1. Forward(box, k) /\ Backward(box, k)
      BY <1>2, <1>3, <1>5 DEF Forward, Backward, StopAt
    <2> QED BY <1>1, <1>4, <1>6, <2>1, SkipKeeps
  <1>7. ASSUME NEW b \in MadeCandidate, There(b), Do(Without(b), job, job) PROVE SwapInv'
    <2>1. b \in Boxes /\ box[b] # Gone /\ Plays(box, b, "candidate")
      <3>1. CASE job.how = "release"
        <4>1. b = job.candidate /\ b # None
          BY <1>7, <3>1 DEF MadeCandidate
        <4> QED BY <1>2, <1>7, <3>1, <4>1 DEF Jobs, There, KnowsNew, Plays
      <3>2. CASE job.how = "preview"
        <4>1. b \in Boxes /\ There(b) /\ box[b].name = Named("candidate")
          BY <3>2 DEF MadeCandidate, Holder
        <4> QED BY <4>1 DEF Named, Plays, There
      <3> QED BY <1>3, <3>1, <3>2
    <2>2. b # job.old /\ b \notin proven
      BY <1>2, <2>1 DEF KnowsOld, Plays, BoxesFit, Fits
    <2>3. PICK effect : effect = [box EXCEPT ![b] = Gone]
      OBVIOUS
    <2>4. Do(effect, job, job)
      BY <1>7, <2>3 DEF Without
    <2>5. \A a \in Boxes : a # b => effect[a] = box[a]
      BY <1>2, <2>1, <2>3
    <2>6. Forward(effect, k)
      <3>1. ~job.undo /\ job.how = "release" => job.new \in Boxes /\ job.new # b /\ job.new # None
                         /\ Plays(box, job.new, "stable") /\ box[job.new].up /\ job.stopped
        BY <1>2, <1>3, <2>1 DEF Forward, StopAt, Jobs, Plays
      <3>2. ~job.undo /\ job.how = "preview" => job.new = None /\ ~job.stopped
        BY <1>2, <1>3 DEF Forward, StopAt
      <3> QED BY <1>3, <1>5, <2>1, <2>5, <3>1, <3>2 DEF Forward, StopAt, Plays, Boxes, None
    <2>7. Backward(effect, k)
      BY <1>2, <1>3, <1>5, <2>2, <2>5 DEF Backward, Plays
    <2>8. Gone \in {Gone} \cup Containers /\ Fits(Gone, b \in proven)
      BY DEF Fits
    <2> QED BY <1>1, <1>4, <2>1, <2>2, <2>3, <2>4, <2>6, <2>7, <2>8, AsideKeeps
  <1>8. CASE Throws
    BY <1>1, <1>8, ThrowKeeps
  <1>9. \/ Skips \/ Throws
        \/ \E b \in MadeCandidate : There(b) /\ Do(Without(b), job, job)
    <2> DEFINE f == [b \in Existing |-> Without(b)]
    <2>1. \A b \in MadeCandidate : There(b) => f[b] = Without(b)
      BY <1>2 DEF MadeCandidate, Existing, There, Jobs, Holder
    <2>2. Skips \/ Throws \/ \E b \in MadeCandidate : There(b) /\ Do(f[b], job, job)
      BY Zenon DEF DropCandidate, OnEach
    <2> HIDE DEF f
    <2> QED BY <2>1, <2>2
  <1> QED BY <1>6, <1>7, <1>8, <1>9

LEMMA NewStopped == ASSUME SwapInv, StopNew PROVE SwapInv'
  <1>1. Doing("stop_new")
    BY DEF StopNew, OnEach
  <1>2. /\ job \in Jobs /\ KnowsOld(box, job, proven) /\ KnowsNew(box, job, proven) /\ job.old \in Boxes
        /\ BoxesFit(box, proven) /\ box \in [Boxes -> {Gone} \cup Containers]
    BY <1>1, Live
  <1>3. job.undo /\ job.at = 1 /\ job.how # "preview"
    BY <1>1, <1>2, CommandPlaces
  <1>4. PICK k : k = Onward(job)
    OBVIOUS
  <1>5. k.at = 2 /\ k.undo /\ k.new = job.new
    BY <1>2, <1>3, <1>4, Going
  <1>6. CASE Skips /\ job.new = None
    <2>1. Forward(box, k) /\ Backward(box, k)
      BY <1>5, <1>6 DEF Forward, Backward
    <2> QED BY <1>1, <1>4, <1>6, <2>1, SkipKeeps
  <1>7. ASSUME NEW b \in {job.new} \ {None}, There(b), Do(Down(b), job, job) PROVE SwapInv'
    <2>1. b = job.new /\ b \in Boxes /\ box[b] # Gone /\ b # job.old
      BY <1>2, <1>7 DEF Jobs, There, KnowsNew, Boxes
    <2>2. PICK c \in Containers : /\ c # Gone /\ c.name = box[b].name /\ c.port = box[b].port /\ c.up = FALSE
                                  /\ [box EXCEPT ![b].up = FALSE] = [box EXCEPT ![b] = c]
      BY <1>2, <2>1, Switches
    <2>3. PICK effect : effect = [box EXCEPT ![b] = c]
      OBVIOUS
    <2>4. Do(effect, job, job)
      BY <1>7, <2>2, <2>3 DEF Down
    <2>5. Fits(c, b \in proven)
      BY <1>2, <2>1, <2>2 DEF BoxesFit, Fits
    <2>6. effect[b] = c
      BY <1>2, <2>1, <2>3
    <2>7. Forward(effect, k) /\ Backward(effect, k)
      BY <1>5, <2>1, <2>2, <2>6 DEF Forward, Backward
    <2> QED BY <1>1, <1>4, <2>1, <2>2, <2>3, <2>4, <2>5, <2>7, AsideKeeps
  <1>8. CASE Throws
    BY <1>1, <1>8, ThrowKeeps
  <1>9. \/ (Skips /\ job.new = None) \/ Throws
        \/ \E b \in {job.new} \ {None} : There(b) /\ Do(Down(b), job, job)
    <2> DEFINE f == [b \in Existing |-> Down(b)]
    <2>1. MadeNew = {job.new} \ {None}
      BY <1>3 DEF MadeNew
    <2>2. \A b \in MadeNew : There(b) => f[b] = Down(b)
      BY <1>2, <2>1 DEF Existing, There, Jobs
    <2>3. (Skips /\ MadeNew = {}) \/ Throws \/ \E b \in MadeNew : There(b) /\ Do(f[b], job, job)
      BY Zenon DEF StopNew, OnEach
    <2> HIDE DEF f
    <2> QED BY <2>1, <2>2, <2>3
  <1> QED BY <1>6, <1>7, <1>8, <1>9

LEMMA NewDropped == ASSUME SwapInv, DropNew PROVE SwapInv'
  <1>1. Doing("drop_new")
    BY DEF DropNew, OnEach
  <1>2. /\ job \in Jobs /\ KnowsOld(box, job, proven) /\ KnowsNew(box, job, proven) /\ job.old \in Boxes
        /\ BoxesFit(box, proven) /\ box \in [Boxes -> {Gone} \cup Containers]
    BY <1>1, Live
  <1>3. job.undo /\ job.at = 2 /\ job.how # "normalize"
    BY <1>1, <1>2, CommandPlaces
  <1>4. PICK k : k = Onward(job)
    OBVIOUS
  <1>5. k.at = 3 /\ k.undo
    BY <1>2, <1>3, <1>4, Going
  <1>6. \A x : Forward(x, k) /\ Backward(x, k)
    BY <1>5 DEF Forward, Backward
  <1>7. CASE Skips
    BY <1>1, <1>4, <1>6, <1>7, SkipKeeps
  <1>8. ASSUME NEW b \in MadeNew, There(b), Do(Without(b), job, job) PROVE SwapInv'
    <2>1. b \in Boxes /\ box[b] # Gone /\ b # job.old /\ b \notin proven
      <3>1. CASE job.how # "preview"
        <4>1. b = job.new /\ b # None
          BY <1>8, <3>1 DEF MadeNew
        <4> QED BY <1>2, <1>8, <4>1 DEF Jobs, There, KnowsNew, Boxes
      <3>2. CASE job.how = "preview"
        <4>1. job.renamed /\ b \in Boxes /\ There(b) /\ box[b].name = Stable
          BY <1>8, <3>2 DEF MadeNew, Holder
        <4>2. Plays(box, b, "stable") /\ Plays(box, job.old, "backup")
          BY <1>2, <1>3, <4>1 DEF Plays, There, Stable, KnowsOld
        <4> QED BY <1>2, <4>1, <4>2 DEF KnowsOld, Plays
      <3> QED BY <3>1, <3>2
    <2>2. PICK effect : effect = [box EXCEPT ![b] = Gone]
      OBVIOUS
    <2>3. Do(effect, job, job)
      BY <1>8, <2>2 DEF Without
    <2>4. Gone \in {Gone} \cup Containers /\ Fits(Gone, b \in proven)
      BY DEF Fits
    <2> QED BY <1>1, <1>4, <1>6, <2>1, <2>2, <2>3, <2>4, AsideKeeps
  <1>9. CASE Throws
    BY <1>1, <1>9, ThrowKeeps
  <1>10. Skips \/ Throws \/ \E b \in MadeNew : There(b) /\ Do(Without(b), job, job)
    <2> DEFINE f == [b \in Existing |-> Without(b)]
    <2>1. \A b \in MadeNew : There(b) => f[b] = Without(b)
      BY <1>2 DEF MadeNew, Existing, There, Jobs, Holder
    <2>2. Skips \/ Throws \/ \E b \in MadeNew : There(b) /\ Do(f[b], job, job)
      BY Zenon DEF DropNew, OnEach
    <2> HIDE DEF f
    <2> QED BY <2>1, <2>2
  <1> QED BY <1>7, <1>8, <1>9, <1>10

LEMMA NewSetAside == ASSUME SwapInv, SetAside PROVE SwapInv'
  <1>1. Doing("set_aside")
    BY DEF SetAside, OnEach
  <1>2. /\ job \in Jobs /\ KnowsOld(box, job, proven) /\ KnowsNew(box, job, proven) /\ Backward(box, job)
        /\ job.old \in Boxes /\ BoxesFit(box, proven) /\ box \in [Boxes -> {Gone} \cup Containers]
        /\ try \in 0..MaxTries
    BY <1>1, Live DEF SwapInv
  <1>3. job.undo /\ job.at = 2 /\ job.how = "normalize"
    BY <1>1, <1>2, CommandPlaces
  <1>4. PICK k : k = Onward(job)
    OBVIOUS
  <1>5. k.at = 3 /\ k.undo
    BY <1>2, <1>3, <1>4, Going
  <1>6. \A x : Forward(x, k) /\ Backward(x, k)
    BY <1>5 DEF Forward, Backward
  <1>7. CASE Skips
    BY <1>1, <1>4, <1>6, <1>7, SkipKeeps
  <1>8. ASSUME NEW b \in {job.new} \ {None}, There(b), Do(Renamed(b, Named("failed")), job, job)
        PROVE  SwapInv'
    <2>1. b = job.new /\ b \in Boxes /\ box[b] # Gone /\ b # job.old /\ ~box[b].up
          /\ box[b].name.role \in {"stable", "failed"}
      BY <1>2, <1>3, <1>8 DEF Jobs, There, KnowsNew, Boxes, Backward
    <2>0. PICK name \in [role : Roles, try : 0..MaxTries] : name = Named("failed") /\ name.role = "failed"
      <3>1. Named("failed") \in [role : Roles, try : 0..MaxTries] /\ Named("failed").role = "failed"
        BY <1>2 DEF Named, Roles
      <3> QED BY <3>1, Zenon
    <2>2. PICK c \in Containers : /\ c # Gone /\ c.name = name /\ c.port = box[b].port /\ c.up = box[b].up
                                  /\ Renamed(b, name) = [box EXCEPT ![b] = c]
      BY <1>2, <2>1, Renames
    <2>3. PICK effect : effect = [box EXCEPT ![b] = c]
      OBVIOUS
    <2>4. Do(effect, job, job)
      BY <1>8, <2>0, <2>2, <2>3
    <2>5. Fits(c, b \in proven) /\ c.name.role = "failed"
      BY <1>2, <2>0, <2>1, <2>2 DEF BoxesFit, Fits
    <2> QED BY <1>1, <1>4, <1>6, <2>1, <2>2, <2>3, <2>4, <2>5, AsideKeeps
  <1>9. CASE Throws
    BY <1>1, <1>9, ThrowKeeps
  <1>10. \/ Skips \/ Throws
         \/ \E b \in {job.new} \ {None} : There(b) /\ Do(Renamed(b, Named("failed")), job, job)
    <2> DEFINE f == [b \in Existing |-> Renamed(b, Named("failed"))]
    <2>1. MadeNew = {job.new} \ {None}
      BY <1>3 DEF MadeNew
    <2>2. \A b \in MadeNew : There(b) => f[b] = Renamed(b, Named("failed"))
      BY <1>2, <2>1 DEF Existing, There, Jobs
    <2>3. Skips \/ Throws \/ \E b \in MadeNew : There(b) /\ Do(f[b], job, job)
      BY Zenon DEF SetAside, OnEach
    <2> HIDE DEF f
    <2> QED BY <2>1, <2>2, <2>3
  <1> QED BY <1>7, <1>8, <1>9, <1>10

LEMMA CandidateChecked == ASSUME SwapInv, CheckCandidate PROVE SwapInv'
  <1>1. Doing("check_candidate") /\ (Skips \/ Throws)
    BY DEF CheckCandidate, MayPass
  <1>2. job \in Jobs /\ Forward(box, job)
    BY <1>1, Live
  <1>3. ~job.undo /\ job.at = 3
    BY <1>1, <1>2, CommandPlaces
  <1>4. PICK k : k = Onward(job)
    OBVIOUS
  <1>5. /\ k.at = 4 /\ k.undo = job.undo /\ k.how = job.how /\ k.candidate = job.candidate
        /\ k.new = job.new /\ k.stopped = job.stopped
    BY <1>2, <1>3, <1>4, Going
  <1>6. Forward(box, k) /\ Backward(box, k)
    BY <1>2, <1>3, <1>5 DEF Forward, Backward, StopAt
  <1> QED BY <1>1, <1>4, <1>6, SkipKeeps, ThrowKeeps

LEMMA NewChecked == ASSUME SwapInv, CheckNew PROVE SwapInv'
  <1>1. Doing("check") /\ ((Skips /\ job.new \in Holder(Stable) /\ box[job.new].up) \/ Throws)
    BY DEF CheckNew, MayPass
  <1>2. job \in Jobs /\ Forward(box, job)
    BY <1>1, Live
  <1>3. ~job.undo /\ job.at >= StopAt(job) + 4 /\ job.at \in 1..10
    BY <1>1, <1>2, CommandPlaces
  <1>4. PICK k : k = Onward(job)
    OBVIOUS
  <1>5. /\ k.at = job.at + 1 /\ k.undo = job.undo /\ k.how = job.how /\ k.candidate = job.candidate
        /\ k.new = job.new /\ k.stopped = job.stopped
    BY <1>2, <1>3, <1>4, Going
  <1>6. CASE Skips /\ job.new \in Holder(Stable) /\ box[job.new].up
    <2>1. job.new # None /\ Plays(box, job.new, "stable")
      BY <1>6 DEF Holder, There, Plays, Stable, Boxes, None
    <2>2. /\ job.stopped
          /\ job.how # "preview" => job.candidate # None /\ Plays(box, job.candidate, "candidate")
      BY <1>2, <1>3 DEF Forward, StopAt
    <2>3. Forward(box, k) /\ Backward(box, k)
      BY <1>3, <1>5, <1>6, <2>1, <2>2 DEF Forward, Backward, StopAt
    <2> QED BY <1>1, <1>4, <1>6, <2>3, SkipKeeps
  <1> QED BY <1>1, <1>6, ThrowKeeps

LEMMA OldChecked == ASSUME SwapInv, CheckOld PROVE SwapInv'
  <1>1. /\ Doing("check_old")
        /\ \/ Skips /\ (~job.stopped \/ (job.old \in Holder(Stable) /\ box[job.old].up))
           \/ Throws
    BY DEF CheckOld, MayPass
  <1>2. job \in Jobs /\ KnowsOld(box, job, proven)
    BY <1>1, Live
  <1>3. job.undo /\ job.at = 5
    BY <1>1, <1>2, CommandPlaces
  <1>4. PICK k : k = Onward(job)
    OBVIOUS
  <1>5. k.at = 6 /\ k.undo /\ k.old = job.old
    BY <1>2, <1>3, <1>4, Going
  <1>6. CASE Skips /\ (~job.stopped \/ (job.old \in Holder(Stable) /\ box[job.old].up))
    <2>1. Plays(box, job.old, "stable") /\ box[job.old].up
      BY <1>2, <1>6 DEF KnowsOld, Holder, There, Plays, Stable
    <2>2. Forward(box, k) /\ Backward(box, k)
      BY <1>5, <2>1 DEF Forward, Backward
    <2> QED BY <1>1, <1>4, <1>6, <2>2, SkipKeeps
  <1> QED BY <1>1, <1>6, ThrowKeeps

LEMMA OldStopped == ASSUME SwapInv, StopOld PROVE SwapInv'
  <1> DEFINE j == [job EXCEPT !.stopped = TRUE]
  <1>1. Doing("stop") /\ Do(Down(job.old), j, j)
    BY DEF StopOld
  <1>2. /\ job \in Jobs /\ job.how \in Hows /\ (job.how = "preview" <=> host = "test")
        /\ KnowsOld(box, job, proven) /\ KnowsNew(box, job, proven) /\ Forward(box, job)
        /\ FoundStay(box, proven, host) /\ BoxesFit(box, proven)
        /\ box \in [Boxes -> {Gone} \cup Containers] /\ job.old \in Boxes
    BY <1>1, Live
  <1>3. ~job.undo /\ job.at = StopAt(job)
    BY <1>1, <1>2, CommandPlaces
  <1>4. /\ j \in Jobs /\ j.how = job.how /\ j.undo = job.undo /\ j.at = job.at
        /\ j.old = job.old /\ j.new = job.new /\ j.candidate = job.candidate
        /\ j.stopped = TRUE /\ j.renamed = job.renamed
    BY <1>2 DEF Jobs
  <1> HIDE DEF j
  <1>5. PICK b : b = job.old
    OBVIOUS
  <1>6. /\ b \in Boxes /\ box[b] # Gone /\ Plays(box, b, "stable") /\ job.new = None /\ ~job.stopped
        /\ job.how # "preview" => job.candidate # None /\ Plays(box, job.candidate, "candidate")
    BY <1>2, <1>3, <1>5 DEF KnowsOld, Forward, StopAt
  <1>7. PICK c \in Containers : /\ c # Gone /\ c.name = box[b].name /\ c.port = box[b].port /\ c.up = FALSE
                                /\ [box EXCEPT ![b].up = FALSE] = [box EXCEPT ![b] = c]
    BY <1>2, <1>6, Switches
  <1>8. PICK effect : effect = [box EXCEPT ![b] = c]
    OBVIOUS
  <1>9. Do(effect, j, j)
    BY <1>1, <1>5, <1>7, <1>8 DEF Down
  <1>10. /\ effect[b] = c /\ \A a \in Boxes : a # b => effect[a] = box[a]
         /\ \A a \in Boxes : \A r : Plays(effect, a, r) <=> Plays(box, a, r)
    BY <1>2, <1>6, <1>7, <1>8 DEF Plays
  <1>11. Fits(c, b \in proven)
    BY <1>2, <1>6, <1>7 DEF BoxesFit, Fits, Plays
  <1>12. \A a \in Boxes \ {b} : ~Plays(box, a, "stable")
    BY <1>2, <1>6 DEF BoxesFit
  <1>13. KnowsOld(box, j, proven) /\ KnowsNew(box, j, proven)
    BY <1>2, <1>4 DEF KnowsOld, KnowsNew
  <1>14. KnowsOld(effect, j, proven)
    <2>1. proven \subseteq Boxes
      BY DEF SwapInv
    <2>2. effect[b].name = box[b].name /\ effect[b] # Gone
      BY <1>7, <1>10
    <2> QED BY <1>2, <1>4, <1>5, <1>6, <1>10, <1>13, <2>1, <2>2 DEF KnowsOld
  <1>15. KnowsNew(effect, j, proven)
    <2>1. j.candidate \in Boxes \cup {None}
      BY <1>4 DEF Jobs
    <2> QED BY <1>4, <1>6, <1>10, <1>13, <2>1 DEF KnowsNew, Plays
  <1>16. PICK k : k = Onward(j)
    OBVIOUS
  <1>17. /\ k.at = StopAt(job) + 1 /\ k.undo = job.undo /\ k.how = job.how /\ k.candidate = job.candidate
         /\ k.new = None /\ k.stopped = TRUE /\ k.old = b
    BY <1>3, <1>4, <1>5, <1>6, <1>16, Going
  <1>18. job.how # "preview" => Plays(effect, job.candidate, "candidate")
    BY <1>2, <1>6, <1>10 DEF Jobs
  <1>19. Forward(effect, k) /\ Backward(effect, k)
    BY <1>3, <1>6, <1>7, <1>10, <1>17, <1>18 DEF Forward, Backward, StopAt
  <1> QED BY <1>2, <1>4, <1>6, <1>7, <1>8, <1>9, <1>11, <1>12, <1>13, <1>14, <1>15, <1>16, <1>19, DoKeeps

LEMMA OldRenamed == ASSUME SwapInv, RenameOld PROVE SwapInv'
  <1> DEFINE after == [job EXCEPT !.renamed = TRUE]
  <1>1. Doing("rename") /\ Do(Renamed(job.old, Named("backup")), job, after)
    BY DEF RenameOld
  <1>2. /\ job \in Jobs /\ job.how \in Hows /\ (job.how = "preview" <=> host = "test")
        /\ KnowsOld(box, job, proven) /\ KnowsNew(box, job, proven) /\ Forward(box, job)
        /\ FoundStay(box, proven, host) /\ BoxesFit(box, proven)
        /\ box \in [Boxes -> {Gone} \cup Containers] /\ job.old \in Boxes
        /\ try \in 0..MaxTries /\ proven \subseteq Boxes
    BY <1>1, Live DEF SwapInv
  <1>3. ~job.undo /\ job.at = StopAt(job) + 1
    BY <1>1, <1>2, CommandPlaces
  <1>4. /\ after \in Jobs /\ after.how = job.how /\ after.undo = job.undo /\ after.at = job.at
        /\ after.old = job.old /\ after.new = job.new /\ after.candidate = job.candidate
        /\ after.stopped = job.stopped
    BY <1>2 DEF Jobs
  <1> HIDE DEF after
  <1>5. PICK b : b = job.old
    OBVIOUS
  <1>6. /\ b \in Boxes /\ box[b] # Gone /\ Plays(box, b, "stable") /\ ~box[b].up
        /\ job.new = None /\ job.stopped
        /\ job.how # "preview" => job.candidate # None /\ Plays(box, job.candidate, "candidate")
    BY <1>2, <1>3, <1>5 DEF KnowsOld, Forward, StopAt
  <1>7. PICK name \in [role : Roles, try : 0..MaxTries] : name = Named("backup") /\ name.role = "backup"
    <2>1. Named("backup") \in [role : Roles, try : 0..MaxTries] /\ Named("backup").role = "backup"
      BY <1>2 DEF Named, Roles
    <2> QED BY <2>1, Zenon
  <1>8. PICK c \in Containers : /\ c # Gone /\ c.name = name /\ c.port = box[b].port /\ c.up = box[b].up
                                /\ Renamed(b, name) = [box EXCEPT ![b] = c]
    BY <1>2, <1>6, Renames
  <1>9. PICK effect : effect = [box EXCEPT ![b] = c]
    OBVIOUS
  <1>10. Do(effect, job, after)
    BY <1>1, <1>5, <1>7, <1>8, <1>9
  <1>11. /\ effect[b] = c /\ \A a \in Boxes : a # b => effect[a] = box[a]
         /\ Plays(effect, b, "backup") /\ ~Plays(effect, b, "stable")
    BY <1>2, <1>6, <1>7, <1>8, <1>9 DEF Plays
  <1>12. Fits(c, b \in proven)
    BY <1>2, <1>6, <1>7, <1>8 DEF BoxesFit, Fits, Plays
  <1>13. KnowsOld(effect, job, proven)
    <2>1. \A a \in proven : Plays(effect, a, "stable") => a = b
      BY <1>2, <1>5, <1>11 DEF KnowsOld, Plays
    <2>2. effect[b] # Gone /\ b \in proven /\ effect[b].name.role = "backup"
      BY <1>2, <1>5, <1>7, <1>8, <1>11 DEF KnowsOld
    <2> QED BY <1>5, <1>6, <1>11, <2>1, <2>2 DEF KnowsOld
  <1>14. KnowsOld(effect, after, proven)
    <2>1. \A a \in proven : Plays(effect, a, "stable") => a = b
      BY <1>5, <1>13 DEF KnowsOld
    <2>2. effect[b] # Gone /\ b \in proven /\ effect[b].name.role = "backup"
      BY <1>2, <1>5, <1>7, <1>8, <1>11 DEF KnowsOld
    <2> QED BY <1>4, <1>5, <1>6, <1>11, <2>1, <2>2 DEF KnowsOld
  <1>15. job.candidate \in Boxes \cup {None}
    BY <1>2 DEF Jobs
  <1>16. job.how # "preview" => Plays(effect, job.candidate, "candidate")
    BY <1>6, <1>11, <1>15 DEF Plays
  <1>17. KnowsNew(effect, job, proven) /\ KnowsNew(effect, after, proven)
    BY <1>2, <1>4, <1>6, <1>16 DEF KnowsNew
  <1>18. PICK k : k = Onward(after)
    OBVIOUS
  <1>19. /\ k.at = StopAt(job) + 2 /\ k.undo = job.undo /\ k.how = job.how /\ k.candidate = job.candidate
         /\ k.new = None /\ k.stopped
    <2>1. k.at = job.at + 1
      BY <1>4, <1>18, Going
    <2>2. k.at = StopAt(job) + 2
      BY <1>3, <2>1 DEF StopAt
    <2> QED BY <1>4, <1>6, <1>18, <2>2, Going
  <1>20. Forward(effect, k) /\ Backward(effect, k)
    BY <1>3, <1>6, <1>16, <1>19 DEF Forward, Backward, StopAt
  <1>21. c.name.role # "stable"
    BY <1>7, <1>8
  <1> QED BY <1>2, <1>4, <1>6, <1>8, <1>9, <1>10, <1>12, <1>13, <1>14, <1>17, <1>18, <1>20, <1>21, DoKeeps

LEMMA OldRenamedBack == ASSUME SwapInv, RenameBack PROVE SwapInv'
  <1>1. Doing("rename_back")
    BY DEF RenameBack
  <1>2. /\ job \in Jobs /\ job.how \in Hows /\ (job.how = "preview" <=> host = "test")
        /\ KnowsOld(box, job, proven) /\ KnowsNew(box, job, proven)
        /\ FoundStay(box, proven, host) /\ BoxesFit(box, proven)
        /\ box \in [Boxes -> {Gone} \cup Containers] /\ job.old \in Boxes /\ proven \subseteq Boxes
    BY <1>1, Live DEF SwapInv
  <1>3. job.undo /\ job.at = 3
    BY <1>1, <1>2, CommandPlaces
  <1>4. PICK k : k = Onward(job)
    OBVIOUS
  <1>5. /\ k \in Jobs /\ k.at = 4 /\ k.undo /\ k.old = job.old /\ k.new = job.new /\ k.how = job.how
        /\ k.candidate = job.candidate /\ k.stopped = job.stopped
    BY <1>2, <1>3, <1>4, Going
  <1>6. \A x : Forward(x, k) /\ Backward(x, k)
    BY <1>5 DEF Forward, Backward
  <1>7. CASE Skips
    BY <1>1, <1>4, <1>6, <1>7, SkipKeeps
  <1>8. CASE Throws
    BY <1>1, <1>8, ThrowKeeps
  <1>9. CASE job.stopped /\ Holder(Stable) = {} /\ Do(Renamed(job.old, Stable), job, job)
    <2>1. PICK b : b = job.old
      OBVIOUS
    <2>2. /\ b \in Boxes /\ b \in proven /\ box[b] # Gone /\ box[b].name.role \in {"stable", "backup"}
      BY <1>2, <2>1 DEF KnowsOld
    <2>3. PICK name \in [role : Roles, try : 0..MaxTries] : name = Stable /\ name.role = "stable"
      <3>1. Stable \in [role : Roles, try : 0..MaxTries] /\ Stable.role = "stable"
        BY MaxTriesAssumption DEF Stable, Roles
      <3> QED BY <3>1, Zenon
    <2>4. PICK c \in Containers : /\ c # Gone /\ c.name = name /\ c.port = box[b].port /\ c.up = box[b].up
                                  /\ Renamed(b, name) = [box EXCEPT ![b] = c]
      BY <1>2, <2>2, Renames
    <2>5. PICK effect : effect = [box EXCEPT ![b] = c]
      OBVIOUS
    <2>6. Do(effect, job, job)
      BY <1>9, <2>1, <2>3, <2>4, <2>5
    <2>7. /\ effect[b] = c /\ \A a \in Boxes : a # b => effect[a] = box[a]
          /\ Plays(effect, b, "stable")
      BY <1>2, <2>2, <2>3, <2>4, <2>5 DEF Plays
    <2>8. Fits(c, b \in proven)
      BY <1>2, <2>2, <2>3, <2>4 DEF BoxesFit, Fits
    <2>9. \A a \in Boxes \ {b} : ~Plays(box, a, "stable")
      <3>1. \A a \in Boxes : ~(box[a] # Gone /\ box[a].name = Stable)
        BY <1>9 DEF Holder, There
      <3> QED BY <1>2, <3>1 DEF BoxesFit, Fits, Plays
    <2>10. KnowsOld(effect, k, proven)
      <3>1. \A a \in proven : Plays(effect, a, "stable") => a = b
        BY <1>2, <2>1, <2>7 DEF KnowsOld, Plays
      <3>2. effect[b] # Gone /\ effect[b].name.role = "stable"
        BY <2>3, <2>4, <2>7
      <3> QED BY <1>5, <1>9, <2>1, <2>2, <3>1, <3>2 DEF KnowsOld
    <2>11. KnowsNew(effect, k, proven)
      <3>1. job.new \in Boxes \cup {None} /\ job.candidate \in Boxes \cup {None}
        BY <1>2 DEF Jobs
      <3>2. job.new # None => job.new # b
        BY <1>2, <2>1 DEF KnowsNew, Boxes
      <3>3. job.candidate = b => job.how = "preview" \/ job.candidate = None
        BY <1>2, <2>2 DEF KnowsNew, Plays
      <3> QED BY <1>2, <1>5, <2>7, <3>1, <3>2, <3>3 DEF KnowsNew, Plays
    <2>12. JobFits(effect, Onward(job), proven, host)
      BY <1>2, <1>4, <1>5, <1>6, <2>10, <2>11 DEF JobFits
    <2>13. Fallen(job) \in Jobs /\ Fallen(job).how = "given_up"
      BY <1>2, <1>3 DEF Fallen, Jobs
    <2>14. JobFits(effect, Fallen(job), proven, host) /\ JobFits(box, Fallen(job), proven, host)
      BY <2>13 DEF JobFits
    <2> QED BY <1>2, <2>2, <2>4, <2>5, <2>6, <2>8, <2>9, <2>12, <2>14, DoLands
  <1>10. Skips \/ Throws \/ (job.stopped /\ Holder(Stable) = {} /\ Do(Renamed(job.old, Stable), job, job))
    BY Zenon DEF RenameBack
  <1> QED BY <1>7, <1>8, <1>9, <1>10

LEMMA OldBooted == ASSUME SwapInv, StartOld PROVE SwapInv'
  <1>1. Doing("start_old")
    BY DEF StartOld
  <1>2. /\ job \in Jobs /\ job.how \in Hows /\ (job.how = "preview" <=> host = "test")
        /\ KnowsOld(box, job, proven) /\ KnowsNew(box, job, proven)
        /\ FoundStay(box, proven, host) /\ BoxesFit(box, proven)
        /\ box \in [Boxes -> {Gone} \cup Containers] /\ job.old \in Boxes /\ proven \subseteq Boxes
    BY <1>1, Live DEF SwapInv
  <1>3. job.undo /\ job.at = 4
    BY <1>1, <1>2, CommandPlaces
  <1>4. PICK k : k = Onward(job)
    OBVIOUS
  <1>5. k.at = 5 /\ k.undo
    BY <1>2, <1>3, <1>4, Going
  <1>6. \A x : Forward(x, k) /\ Backward(x, k)
    BY <1>5 DEF Forward, Backward
  <1>7. CASE Skips
    BY <1>1, <1>4, <1>6, <1>7, SkipKeeps
  <1>8. CASE Throws
    BY <1>1, <1>8, ThrowKeeps
  <1>9. CASE job.stopped /\ Holder(Stable) = {job.old} /\ Do(Up(job.old), job, job)
    <2>1. PICK b : b = job.old
      OBVIOUS
    <2>2. b \in Boxes /\ b \in proven /\ box[b] # Gone /\ Plays(box, b, "stable")
      <3>1. b \in Holder(Stable)
        BY <1>9, <2>1
      <3> QED BY <1>2, <2>1, <3>1 DEF KnowsOld, Holder, There, Plays, Stable
    <2>3. PICK c \in Containers : /\ c # Gone /\ c.name = box[b].name /\ c.port = box[b].port /\ c.up = TRUE
                                  /\ [box EXCEPT ![b].up = TRUE] = [box EXCEPT ![b] = c]
      BY <1>2, <2>2, Switches
    <2>4. PICK effect : effect = [box EXCEPT ![b] = c]
      OBVIOUS
    <2>5. Do(effect, job, job)
      BY <1>9, <2>1, <2>3, <2>4 DEF Up
    <2>6. /\ effect[b] = c /\ \A a \in Boxes : a # b => effect[a] = box[a]
          /\ \A a \in Boxes : \A r : Plays(effect, a, r) <=> Plays(box, a, r)
      BY <1>2, <2>2, <2>3, <2>4 DEF Plays
    <2>7. Fits(c, b \in proven)
      BY <1>2, <2>2, <2>3 DEF BoxesFit, Fits, Plays
    <2>8. \A a \in Boxes \ {b} : ~Plays(box, a, "stable")
      BY <1>2, <2>2 DEF BoxesFit
    <2>9. KnowsOld(effect, job, proven)
      <3>1. effect[b].name = box[b].name /\ effect[b] # Gone
        BY <2>3, <2>6
      <3> QED BY <1>2, <1>9, <2>1, <2>2, <2>6, <3>1 DEF KnowsOld
    <2>10. KnowsNew(effect, job, proven)
      <3>1. job.new \in Boxes \cup {None} /\ job.candidate \in Boxes \cup {None}
        BY <1>2 DEF Jobs
      <3>2. job.new # None => job.new # b
        BY <1>2, <2>1 DEF KnowsNew, Boxes
      <3> QED BY <1>2, <2>6, <3>1, <3>2 DEF KnowsNew, Plays
    <2> QED BY <1>2, <1>4, <1>6, <2>2, <2>3, <2>4, <2>5, <2>7, <2>8, <2>9, <2>10, DoKeeps
  <1>10. Skips \/ Throws \/ (job.stopped /\ Holder(Stable) = {job.old} /\ Do(Up(job.old), job, job))
    BY Zenon DEF StartOld
  <1> QED BY <1>7, <1>8, <1>9, <1>10

\* What stays while a script is under way is kept when it ends.
LEMMA Stayed ==
  ASSUME SwapInv, FoundStay(box, proven, host) PROVE GoodIsKept
  BY DEF SwapInv, FoundStay, GoodIsKept, There, Holder

LEMMA Ended ==
  ASSUME SwapInv, job # NoJob, job' = NoJob, UNCHANGED <<proven, try, host, box>>,
         receipt' \in Receipts, ReceiptTrue'
  PROVE  SwapInv'
  <1>1. GoodIsKept
    BY Stayed DEF SwapInv
  <1>2. GoodIsKept'
    BY <1>1 DEF GoodIsKept, There, Holder
  <1>3. BoxesFit(box', proven')
    BY DEF SwapInv
  <1> QED BY <1>2, <1>3 DEF SwapInv

LEMMA SwapBegun ==
  ASSUME SwapInv, NEW how \in Hows, NEW old \in Boxes, NEW same \in BOOLEAN, Begin(how, old, same)
  PROVE  SwapInv'
  <1>1. /\ job = NoJob /\ GoodIsKept /\ try < MaxTries /\ try \in 0..MaxTries
        /\ box' = box /\ host' = host /\ proven' = proven \cup {old}
        /\ BoxesFit(box, proven) /\ proven \subseteq Boxes /\ box \in [Boxes -> {Gone} \cup Containers]
        /\ how = "preview" <=> host = "test"
    BY DEF Begin, SwapInv, BoxesFit
  <1>2. box[old] # Gone /\ Plays(box, old, "stable") /\ box[old].up /\ box[old].name = Stable
    BY DEF Begin, Holder, There, Plays, Stable
  <1>3. PICK tested : tested = proven'
    OBVIOUS
  <1>4. tested = proven \cup {old} /\ tested \subseteq Boxes
    BY <1>1, <1>3
  <1>5. BoxesFit(box, tested)
    <2>1. \A b \in Boxes : Fits(box[b], b \in tested)
      <3>1. SUFFICES ASSUME NEW b \in Boxes PROVE Fits(box[b], b \in tested)
        OBVIOUS
      <3>2. CASE b = old
        BY <1>1, <1>2, <3>2 DEF BoxesFit, Fits, Plays
      <3>3. CASE b # old
        BY <1>1, <1>4, <3>3 DEF BoxesFit, Fits
      <3> QED BY <3>2, <3>3
    <2> QED BY <1>1, <2>1 DEF BoxesFit
  <1>6. host' \in {"node", "test"}
    BY <1>1 DEF SwapInv
  <1>7. CASE same /\ how # "normalize"
    <2>1. job' = NoJob /\ try' = try /\ receipt' = "unchanged"
      BY <1>7 DEF Begin
    <2>2. GoodIsKept'
      BY <1>1, <1>2 DEF GoodIsKept, There, Holder
    <2>3. ReceiptTrue' /\ receipt' \in Receipts
      BY <2>1 DEF ReceiptTrue, Receipts
    <2>4. BoxesFit(box', proven') /\ proven' \subseteq Boxes
      BY <1>1, <1>3, <1>4, <1>5
    <2> QED BY <1>1, <1>6, <2>1, <2>2, <2>3, <2>4 DEF SwapInv
  <1>8. CASE ~(same /\ how # "normalize")
    <2>1. PICK j : j = job'
      OBVIOUS
    <2>2. /\ j = [how |-> how, undo |-> FALSE, at |-> 1, old |-> old, candidate |-> None, new |-> None,
                  stopped |-> FALSE, renamed |-> FALSE, unknown |-> FALSE]
          /\ try' = try + 1 /\ receipt' = "none"
      BY <1>8, <2>1 DEF Begin
    <2>3. /\ j.how = how /\ j.undo = FALSE /\ j.at = 1 /\ j.old = old /\ j.candidate = None /\ j.new = None
          /\ j.stopped = FALSE /\ j.renamed = FALSE
      BY <2>2
    <2>4. j \in Jobs
      <3>1. 1 \in Nat \ {0}
        OBVIOUS
      <3> QED BY <2>2, <3>1 DEF Jobs
    <2>5. KnowsOld(box, j, tested)
      <3>1. \A b \in tested : Plays(box, b, "stable") => b = old
        BY <1>1, <1>2, <1>4 DEF BoxesFit
      <3>2. box[old].name.role = "stable" /\ old \in tested
        BY <1>2, <1>4 DEF Plays
      <3> QED BY <1>2, <2>3, <3>1, <3>2 DEF KnowsOld
    <2>6. KnowsNew(box, j, tested) /\ Forward(box, j) /\ Backward(box, j)
      BY <2>3 DEF KnowsNew, Forward, Backward, StopAt
    <2>7. JobFits(box, j, tested, host)
      BY <1>1, <2>3, <2>4, <2>5, <2>6 DEF JobFits
    <2>8. FoundStay(box, tested, host)
      <3>1. \A c \in Holder(Stable) : c = old
        BY <1>1, <1>2 DEF Holder, There, BoxesFit, Plays, Stable
      <3>2. \A b \in proven : box[b] # Gone \/ (host = "test" /\ \E c \in proven \cup Holder(Stable) : c > b /\ box[c] # Gone)
        BY <1>1 DEF GoodIsKept, There
      <3> QED BY <1>2, <1>4, <3>1, <3>2 DEF FoundStay
    <2>9. j # NoJob
      BY <2>4 DEF Jobs, NoJob, Hows
    <2>10. try' \in 0..MaxTries /\ receipt' \in Receipts
      BY <1>1, <2>2, MaxTriesAssumption DEF Receipts
    <2>11. /\ BoxesFit(box', proven') /\ JobFits(box', job', proven', host')
           /\ FoundStay(box', proven', host') /\ proven' \subseteq Boxes
      BY <1>1, <1>3, <1>4, <1>5, <2>1, <2>7, <2>8
    <2> QED BY <1>6, <2>1, <2>9, <2>10, <2>11 DEF SwapInv
  <1> QED BY <1>7, <1>8

LEMMA Committed == ASSUME SwapInv, Commits PROVE SwapInv'
  <1>1. job # NoJob /\ job.how # "given_up" /\ ~job.undo /\ job.at > Len(Commands)
    BY DEF Commits
  <1>2. /\ JobFits(box, job, proven, host) /\ FoundStay(box, proven, host) /\ BoxesFit(box, proven)
        /\ proven \subseteq Boxes /\ box \in [Boxes -> {Gone} \cup Containers]
    BY <1>1 DEF SwapInv, BoxesFit
  <1>3. /\ job \in Jobs /\ KnowsOld(box, job, proven) /\ KnowsNew(box, job, proven)
        /\ Forward(box, job) /\ (job.how = "preview" <=> host = "test")
    BY <1>1, <1>2 DEF JobFits
  <1>4. job.at > StopAt(job) + 4
    BY <1>1, <1>3, AllThrough
  <1>5. PICK new : new = job.new
    OBVIOUS
  <1>6. new # None /\ Plays(box, new, "stable") /\ box[new].up
    BY <1>1, <1>3, <1>4, <1>5 DEF Forward
  <1>7. new \in Boxes /\ new \notin proven /\ new > job.old
    BY <1>3, <1>5, <1>6 DEF KnowsNew, Jobs
  <1>8. box[new].name = Stable
    BY <1>2, <1>6, <1>7 DEF BoxesFit, Fits, Plays
  <1>9. job' = NoJob /\ UNCHANGED <<proven, try, host>> /\ receipt' \in Receipts
    BY DEF Commits, Ends, Receipts
  <1>10. CASE box' = box
    <2>1. ReceiptTrue'
      <3>1. new \in Holder(Stable)' /\ new \notin proven' /\ box'[new].up
        BY <1>6, <1>7, <1>8, <1>9, <1>10 DEF Holder, There, Plays
      <3>2. receipt' \in {"deployed", "backup_left"}
        BY DEF Commits, Ends
      <3> QED BY <3>1, <3>2 DEF ReceiptTrue
    <2> QED BY <1>1, <1>9, <1>10, <2>1, Ended
  <1>11. CASE box' = Without(job.old) /\ job.how = "preview"
    <2>1. PICK b : b = job.old
      OBVIOUS
    <2>2. PICK left : left = [box EXCEPT ![b] = Gone]
      OBVIOUS
    <2>3. box' = left
      BY <1>11, <2>1, <2>2 DEF Without
    <2>4. b \in Boxes
      BY <1>3, <2>1 DEF Jobs
    <2>5. left[b] = Gone /\ \A a \in Boxes : a # b => left[a] = box[a]
      BY <1>2, <2>2, <2>4
    <2>6. new # b /\ left[new] = box[new] /\ left[new] # Gone
      BY <1>6, <1>7, <2>1, <2>4, <2>5 DEF Plays, Boxes
    <2>7. BoxesFit(left, proven)
      <3>1. Fits(Gone, b \in proven)
        BY DEF Fits
      <3> QED BY <1>2, <2>2, <2>4, <3>1, OneBox
    <2>8. new \in Holder(Stable)' /\ new \notin proven' /\ box'[new].up
      BY <1>6, <1>7, <1>8, <1>9, <2>3, <2>6 DEF Holder, There
    <2>9. ReceiptTrue'
      <3>1. receipt' \in {"deployed", "backup_left"}
        BY DEF Commits, Ends
      <3> QED BY <2>8, <3>1 DEF ReceiptTrue
    <2>10. GoodIsKept'
      <3>1. SUFFICES ASSUME NEW a \in proven, left[a] = Gone
                     PROVE  host = "test" /\ \E c \in proven' \cup Holder(Stable)' : c > a /\ left[c] # Gone
        BY <1>9, <2>3 DEF GoodIsKept, There
      <3>2. host = "test"
        BY <1>3, <1>11
      <3>3. CASE a = b
        BY <1>7, <2>1, <2>6, <2>8, <3>2, <3>3
      <3>4. CASE a # b
        <4>1. PICK c \in proven : c > a /\ box[c] # Gone
          BY <1>2, <2>5, <3>1, <3>4 DEF FoundStay
        <4>2. CASE c = b
          BY <1>2, <1>7, <2>1, <2>4, <2>6, <2>8, <3>2, <4>1, <4>2 DEF Boxes
        <4>3. CASE c # b
          BY <1>2, <1>9, <2>5, <3>2, <4>1, <4>3
        <4> QED BY <4>2, <4>3
      <3> QED BY <3>3, <3>4
    <2>11. BoxesFit(box', proven') /\ proven' \subseteq Boxes
      BY <1>2, <1>9, <2>3, <2>7
    <2> QED BY <1>9, <2>9, <2>10, <2>11 DEF SwapInv
  <1> QED BY <1>10, <1>11 DEF Commits

LEMMA OldPutBack == ASSUME SwapInv, Undone PROVE SwapInv'
  <1>1. job # NoJob /\ job.how # "given_up" /\ job.undo /\ job.at > Len(Commands)
    BY DEF Undone
  <1>2. JobFits(box, job, proven, host) /\ BoxesFit(box, proven) /\ proven \subseteq Boxes
    BY <1>1 DEF SwapInv
  <1>3. job \in Jobs /\ KnowsOld(box, job, proven) /\ Backward(box, job)
    BY <1>1, <1>2 DEF JobFits
  <1>4. job.at > 5
    BY <1>1, <1>3, AllThrough
  <1>5. PICK old : old = job.old
    OBVIOUS
  <1>6. old \in Boxes /\ old \in proven /\ Plays(box, old, "stable") /\ box[old].up
    BY <1>1, <1>3, <1>4, <1>5 DEF Backward, KnowsOld, Jobs
  <1>7. box[old].name = Stable
    BY <1>2, <1>6 DEF BoxesFit, Fits, Plays
  <1>8. /\ job' = NoJob /\ UNCHANGED <<proven, try, host, box>>
        /\ receipt' \in {"rolled_back", "blocked", "candidate_failed"}
    BY DEF Undone, Ends
  <1>9. ReceiptTrue'
    <2>1. old \in (Holder(Stable) \cap proven)' /\ box'[old].up
      BY <1>6, <1>7, <1>8 DEF Holder, There, Plays
    <2> QED BY <1>8, <2>1 DEF ReceiptTrue
  <1>10. receipt' \in Receipts
    BY <1>8 DEF Receipts
  <1> QED BY <1>1, <1>8, <1>9, <1>10, Ended

LEMMA Stopped == ASSUME SwapInv, GivesUp \/ ScriptDies PROVE SwapInv'
  <1>1. /\ job # NoJob /\ job' = NoJob /\ UNCHANGED <<proven, try, host, box>>
        /\ receipt' \in {"blocked", "none"}
    BY DEF GivesUp, ScriptDies, Ends
  <1>2. ReceiptTrue' /\ receipt' \in Receipts
    BY <1>1 DEF ReceiptTrue, Receipts
  <1> QED BY <1>1, <1>2, Ended

-----------------------------------------------------------------------------
LEMMA SwapStarts == SwapInit => SwapInv
  <1>1. SUFFICES ASSUME SwapInit PROVE SwapInv
    OBVIOUS
  <1> DEFINE first == [name |-> Stable, port |-> "stable", up |-> TRUE]
  <1>2. first \in Containers /\ first.name = Stable /\ first.port = "stable" /\ Stable.role = "stable"
    BY MaxTriesAssumption DEF Containers, Stable, Roles
  <1>3. box = [b \in Boxes |-> IF b = 1 THEN first ELSE Gone]
    BY <1>1 DEF SwapInit
  <1> HIDE DEF first
  <1>4. box \in [Boxes -> {Gone} \cup Containers]
    BY <1>2, <1>3
  <1>5. \A b \in Boxes : Fits(box[b], b \in proven)
    BY <1>2, <1>3 DEF Fits
  <1>6. \A a, b \in Boxes : Plays(box, a, "stable") /\ Plays(box, b, "stable") => a = b
    BY <1>3 DEF Plays
  <1>7. BoxesFit(box, proven)
    BY <1>4, <1>5, <1>6 DEF BoxesFit
  <1>8. /\ job = NoJob /\ GoodIsKept /\ ReceiptTrue /\ receipt \in Receipts /\ try \in 0..MaxTries
        /\ host \in {"node", "test"} /\ proven \subseteq Boxes
    BY <1>1, MaxTriesAssumption DEF SwapInit, GoodIsKept, ReceiptTrue, Receipts
  <1> QED BY <1>7, <1>8 DEF SwapInv

LEMMA SwapKept == SwapInv /\ [SwapNext]_swapVars => SwapInv'
  <1>1. SUFFICES ASSUME SwapInv, [SwapNext]_swapVars PROVE SwapInv'
    OBVIOUS
  <1>2. CASE UNCHANGED swapVars
    <2>1. /\ box' = box /\ job' = job /\ proven' = proven /\ host' = host /\ receipt' = receipt /\ try' = try
      BY <1>2 DEF swapVars
    <2>2. job = NoJob => GoodIsKept' /\ ReceiptTrue'
      BY <1>1, <2>1 DEF SwapInv, GoodIsKept, ReceiptTrue, There, Holder
    <2> QED BY <1>1, <2>1, <2>2 DEF SwapInv
  <1>3. CASE SwapNext
    BY <1>1, <1>3, SwapBegun, CandidateMade, CandidateBooted, CandidateChecked, OldStopped, OldRenamed, NewMade,
       NewBooted, NewChecked, CandidateStopped, CandidateDropped, NewStopped, NewDropped, NewSetAside,
       OldRenamedBack, OldBooted, OldChecked, Committed, OldPutBack, Stopped DEF SwapNext
  <1> QED BY <1>1, <1>2, <1>3

LEMMA SwapHolds == SwapSpec => []SwapInv
  BY SwapStarts, SwapKept, PTL DEF SwapSpec

LEMMA SwapInvTyped == SwapInv => SwapTypeOK
  <1>1. SUFFICES ASSUME SwapInv PROVE SwapTypeOK
    OBVIOUS
  <1>2. BoxesFit(box, proven)
    BY <1>1 DEF SwapInv
  <1>3. \A b \in Bound("stable") : b \in Boxes /\ Plays(box, b, "stable")
    BY <1>2 DEF Bound, There, BoxesFit, Fits, Plays, Containers, Roles
  <1>4. \A a, b \in Bound("stable") : a = b
    BY <1>2, <1>3 DEF BoxesFit
  <1>5. Cardinality(Bound("stable")) <= 1
    <2>1. PICK S : S = Bound("stable")
      OBVIOUS
    <2>2. \A a, b \in S : a = b
      BY <1>4, <2>1
    <2> QED BY <2>1, <2>2, AtMostOne
  <1>6. job # NoJob => /\ job.how \in Hows \cup {"given_up"} /\ job.undo \in BOOLEAN
                       /\ job.old \in Boxes
                       /\ {job.candidate, job.new} \subseteq Boxes \cup {None}
    BY <1>1 DEF SwapInv, JobFits, Jobs
  <1> QED BY <1>1, <1>2, <1>5, <1>6 DEF SwapInv, BoxesFit, SwapTypeOK

\* Whichever command fails, acts and then fails, or is the last before the script is
\* killed: a container found serving stays, unless a newer one replaced it on the test
\* host (node_production.py, normalize_manual_runtime.py, preview_release.py).
THEOREM ServingIsKept == SwapSpec => []GoodIsKept
  <1>1. SwapInv => GoodIsKept
    BY Stayed DEF SwapInv
  <1> QED BY <1>1, SwapHolds, PTL

\* A script that reports that it put the old container back, or that the new one is
\* deployed, leaves that container running under the stable name.
THEOREM ReceiptsAreTrue == SwapSpec => []ReceiptTrue
  <1>1. SwapInv => ReceiptTrue
    BY DEF SwapInv, ReceiptTrue
  <1> QED BY <1>1, SwapHolds, PTL

-----------------------------------------------------------------------------
(* The seven together: a behaviour lets one of them move.                  *)

\* What the map's own invariant leaves open: a host has one of its set-ups, and an
\* unusable reading is not stored.
MapPlain ==
  /\ \A h \in Hosts : wg[h] \in Setups[h] /\ (stored[h] # NoPost => stored[h].key # NoPost)
  /\ status \in [Hosts -> {"online", "silent", "removed"}]

LEMMA MapStartsPlain == MapInit => MapPlain
  BY DEF MapInit, MapPlain

LEMMA MapStaysPlain == MapInv /\ MapPlain /\ [MapNext]_mapVars => MapPlain'
  <1> SUFFICES ASSUME MapInv, MapPlain, [MapNext]_mapVars PROVE MapPlain'
    OBVIOUS
  <1>1. CASE MapTick
    <2>1. ASSUME NEW h \in Hosts, stored'[h] # NoPost PROVE stored'[h].key # NoPost
      <3>1. PICK s : s = stored[h]
        OBVIOUS
      <3>2. stored'[h] = AgedSnapshot(s)
        BY <1>1, <3>1 DEF MapTick
      <3>3. s # NoPost
        BY <2>1, <3>2 DEF AgedSnapshot
      <3>4. s \in Readings /\ s.key # NoPost
        BY <3>1, <3>3 DEF MapInv, MapPlain, ReadingSound
      <3>5. AgedSnapshot(s).key = s.key
        BY <3>3, <3>4 DEF AgedSnapshot, Readings
      <3> QED BY <3>2, <3>4, <3>5
    <2>2. UNCHANGED <<wg, status>>
      BY <1>1 DEF MapTick
    <2> QED BY <2>1, <2>2 DEF MapPlain
  <1>2. ASSUME NEW h \in Hosts, Reconfigure(h) PROVE MapPlain'
    BY <1>2 DEF Reconfigure, MapPlain, MapInv
  <1>3. ASSUME NEW h \in Hosts, Store(h) PROVE MapPlain'
    <2>1. \/ stored' = [stored EXCEPT ![h] = post[h]] /\ post[h].key # NoPost
          \/ stored' = [stored EXCEPT ![h] = NoPost]
      BY <1>3 DEF Store
    <2>2. /\ \A g \in Hosts : stored'[g] # NoPost => stored'[g].key # NoPost
          /\ wg' = wg /\ status' = [status EXCEPT ![h] = "online"]
      BY <1>3, <2>1 DEF Store, MapPlain, MapInv
    <2> QED BY <2>2 DEF MapPlain
  <1>4. ASSUME NEW h \in Hosts, HeartbeatOf(h) \/ FallsSilent(h) \/ RemoveHost(h) PROVE MapPlain'
    BY <1>4 DEF HeartbeatOf, FallsSilent, RemoveHost, Becomes, MapPlain
  <1>5. CASE UNCHANGED <<wg, stored, status>>
    BY <1>5 DEF MapPlain
  <1> QED BY <1>1, <1>2, <1>3, <1>4, <1>5
          DEF MapNext, ReadPeers, ReadDetails, Ping, NoTargets, PostLost, mapVars

LEMMA MapTyped == MapInv /\ MapPlain => MapTypeOK
  BY LanesApart DEF MapInv, MapPlain, ReadingSound, MapTypeOK

HostsInv ==
  /\ MapInv /\ MapPlain /\ UpdateInv /\ AddressTypeOK /\ SwapInv /\ ReleaseInv
  /\ EdgeInv /\ AssetsInv

\* Every variable of the hosts keeps its type, wherever a script, an installer or a
\* deployment is interrupted, and no two containers run on one port, for every value
\* of the constants.
THEOREM HostsTypeCorrect == HostsSpec => []HostsTypeOK
  <1>1. HostsInit => HostsInv
    BY MapStarts, MapStartsPlain, UpdateStarts, AddressStarts, SwapStarts, ReleaseStarts, EdgeStarts, AssetsStart
       DEF HostsInit, HostsInv
  <1>2. HostsInv /\ [HostsNext]_rest => HostsInv'
    <2> SUFFICES ASSUME HostsInv, [HostsNext]_rest PROVE HostsInv'
      OBVIOUS
    <2>1. /\ MapInv /\ MapPlain /\ UpdateInv /\ AddressTypeOK /\ SwapInv /\ ReleaseInv
          /\ EdgeInv /\ AssetsInv
      BY DEF HostsInv
    <2>2. /\ [MapNext]_mapVars /\ [UpdateNext]_updateVars /\ [AddressNext]_addressVars
          /\ [SwapNext]_swapVars /\ [ReleaseNext]_releaseVars /\ [EdgeNext]_edgeVars
          /\ [AssetsNext]_assetVars
      BY DEF HostsNext, rest
    <2> QED BY <2>1, <2>2, MapKept, MapStaysPlain, UpdateKept, AddressKept, SwapKept, ReleaseKept,
               EdgeStaysSound, AssetsKept DEF HostsInv
  <1>3. HostsInv => HostsTypeOK
    BY MapTyped, SwapInvTyped
       DEF HostsInv, HostsTypeOK, UpdateInv, ReleaseInv, EdgeInv, AssetsInv
  <1> QED BY <1>1, <1>2, <1>3, PTL DEF HostsSpec
=============================================================================
