---------------------------- MODULE PublicAssets ----------------------------
(***************************************************************************)
(* Offline staging of public assets (public_assets.py).                    *)
(*                                                                         *)
(* "build" publishes a bundle of files under its content hash; "stage"     *)
(* publishes a directory with the union of some bundles and of everything  *)
(* a previous stage retained; "verify" and "verify-stage" check a          *)
(* directory against the version the operator reviewed.  Only what passed  *)
(* verify-stage is installed.  Directories are published by a rename and   *)
(* never overwritten, but what is on disk may change under a command.      *)
(***************************************************************************)
EXTENDS Naturals, FiniteSets

CONSTANTS Bundles,     \* versions of bundles
          Urls,        \* asset URLs
          Content,     \* Content[b][u]: what bundle b publishes at u, or Missing
          Missing,
          MaxVersions, \* MAX_VERSIONS, 16 in the code
          MaxStages,   \* bound: stages built
          NoStage

VARIABLES bundle,  \* per bundle directory: "none", "whole" or "spoiled"
          stages,  \* published stages, by number: NoStage or a record
          work,    \* the stage being put together: NoStage or a record
          install  \* history: the last stage that passed verify-stage, and those before it

assetVars == <<bundle, stages, work, install>>

StageIds == 1..MaxStages
\* A stage: its versions, the stage it continues, the versions whose bytes differ
\* from their manifest.  It holds at most MAX_VERSIONS.
Bounded == {V \in SUBSET Bundles : Cardinality(V) <= MaxVersions}
StageRecords == [versions : Bounded, previous : {NoStage} \cup StageIds,
                 spoiled : SUBSET Bundles]

ASSUME AssetsAssumption ==
  /\ MaxVersions \in Nat \ {0} /\ MaxStages \in Nat
  /\ NoStage \notin StageIds /\ NoStage \notin StageRecords

AssetsTypeOK ==
  /\ bundle \in [Bundles -> {"none", "whole", "spoiled"}]
  /\ stages \in [StageIds -> {NoStage} \cup StageRecords]
  /\ work = NoStage \/ work \in StageRecords
  /\ install \in {NoStage} \cup StageIds

AssetsInit ==
  /\ bundle = [b \in Bundles |-> "none"]
  /\ stages = [s \in StageIds |-> NoStage]
  /\ work = NoStage /\ install = NoStage

Published(b) == {u \in Urls : Content[b][u] # Missing}
\* collect(): a URL that two versions publish has the same bytes in both.
Agree(V) == \A b, c \in V : \A u \in Published(b) \cap Published(c) : Content[b][u] = Content[c][u]

\* verify_stage(): all versions whole, the snippet the one these versions render.
Whole(s) == stages[s] # NoStage /\ stages[s].spoiled = {}

\* build(): the reviewed manifest pins every byte; an existing bundle is refused.
Build(b) ==
  /\ bundle[b] = "none"
  /\ bundle' = [bundle EXCEPT ![b] = "whole"]
  /\ UNCHANGED <<stages, work, install>>

\* Bytes on disk change: an operator, a disk.
SpoilBundle(b) ==
  /\ bundle[b] = "whole"
  /\ bundle' = [bundle EXCEPT ![b] = "spoiled"]
  /\ UNCHANGED <<stages, work, install>>
SpoilStage(s, b) ==
  /\ stages[s] # NoStage /\ b \in stages[s].versions \ stages[s].spoiled
  /\ stages' = [stages EXCEPT ![s].spoiled = @ \cup {b}]
  /\ UNCHANGED <<bundle, work, install>>

\* The versions of a new stage: those of the plan and all the previous one retains.
RetainedNone(B, s) == B
Retained(B, s) == IF s = NoStage THEN B ELSE B \cup stages[s].versions

Within(V) == Cardinality(V) <= MaxVersions

\* stage(), first half: verify the previous stage and every bundle of the plan.
VerifyAll(B, s) ==
  /\ work = NoStage /\ B # {} /\ \A b \in B : bundle[b] = "whole"
  /\ s # NoStage => Whole(s)
  /\ LET V == Retained(B, s) IN
       /\ Agree(V) /\ Within(V)
       /\ work' = [versions |-> V, previous |-> s, spoiled |-> {}]
  /\ UNCHANGED <<bundle, stages, install>>

\* stage(), second half: every file is read again and published with the rename; a
\* version both in the plan and in the previous stage is read from the latter.
Copied == {b \in work.versions :
             IF work.previous # NoStage /\ b \in stages[work.previous].versions
             THEN b \in stages[work.previous].spoiled ELSE bundle[b] = "spoiled"}
Publish(s) ==
  /\ work # NoStage /\ stages[s] = NoStage
  /\ stages' = [stages EXCEPT ![s] = [work EXCEPT !.spoiled = Copied]]
  /\ work' = NoStage
  /\ UNCHANGED <<bundle, install>>

\* The command fails or is killed: a temporary directory at most.
Abandon == work # NoStage /\ work' = NoStage /\ UNCHANGED <<bundle, stages, install>>

\* The operator installs a stage that continues the installed one and was verified.
InstallStage(s) ==
  /\ Whole(s) /\ stages[s].previous = install
  /\ install' = s
  /\ UNCHANGED <<bundle, stages, work>>

AssetsNext ==
  \/ \E b \in Bundles : Build(b) \/ SpoilBundle(b)
  \/ \E s \in StageIds, b \in Bundles : SpoilStage(s, b)
  \/ \E B \in SUBSET Bundles, s \in {NoStage} \cup StageIds : VerifyAll(B, s)
  \/ \E s \in StageIds : Publish(s)
  \/ Abandon
  \/ \E s \in StageIds : InstallStage(s)

AssetsSpec == AssetsInit /\ [][AssetsNext]_assetVars

-----------------------------------------------------------------------------
(* Properties.                                                              *)

\* What a stage maps a URL to: the content of the versions that publish it.
Served(s, u) == {Content[b][u] : b \in {c \in stages[s].versions : u \in Published(c)}}

\* Installing the next stage keeps every URL that pages loaded before still ask for,
\* with the same bytes, even if bundles changed on disk while it was put together.
UrlsKept ==
  [][\A u \in Urls :
       (install # install' /\ install # NoStage /\ Served(install, u) # {})
          => Served(install', u) = Served(install, u)]_assetVars
=============================================================================
