------------------------------ MODULE AppSwap ------------------------------
(***************************************************************************)
(* Replacing the application container of a host.                          *)
(*                                                                         *)
(* Three scripts do it: "release" (node_production.py) and "normalize"     *)
(* (normalize_manual_runtime.py) on a production node, "preview"           *)
(* (preview_release.py) on the test host.  Each starts a candidate on a    *)
(* second port, checks it, stops and renames the old container, creates a  *)
(* new one under the stable name and checks that; on an exception it puts  *)
(* the old one back.  A docker command may fail, or act and then fail (the *)
(* client times out, or the guard after it sees other database roles).     *)
(***************************************************************************)
EXTENDS Naturals, Sequences, FiniteSets

CONSTANTS MaxTries, \* bound: attempts
          Gone      \* a container that is not there

ASSUME MaxTriesAssumption == MaxTries \in Nat \ {0}

VARIABLES host,    \* a production node, or the test host of the previews
          box,     \* containers: name, port they bind, running or not
          job,     \* the script under way
          receipt, \* what the last script reported
          proven,  \* history: stable containers some script found running when it began
          try      \* number of the attempt, the suffix of its names

swapVars == <<host, box, job, receipt, proven, try>>

Boxes == 1..(2 * MaxTries + 1)  \* ids: the first container and two of each attempt
Stable == [role |-> "stable", try |-> 0]
Named(role) == [role |-> role, try |-> try]
Roles == {"stable", "candidate", "backup", "failed"}
Hows == {"release", "normalize", "preview"}
NoJob == [how |-> "none"]
None == 0
Containers == [name : [role : Roles, try : 0..MaxTries], port : {"stable", "second"}, up : BOOLEAN]

ASSUME GoneAssumption == Gone \notin Containers

\* The commands of each script, in order, and those of its except branch.
Plan == [
  release   |-> <<"candidate", "boot", "check_candidate", "stop", "rename", "create", "start", "check",
                  "stop_candidate", "drop_candidate">>,
  normalize |-> <<"candidate", "boot", "check_candidate", "stop", "rename", "create", "start", "check",
                  "stop_candidate", "check">>,
  preview   |-> <<"candidate", "boot", "check_candidate", "drop_candidate", "stop", "rename", "create",
                  "start", "check">>]
NormalizeUndoStillUp == <<"set_aside", "rename_back", "start_old", "check_old", "stop_candidate">>
NormalizeUndo == <<"stop_new", "set_aside", "rename_back", "start_old", "check_old", "stop_candidate">>
Undo == [
  release   |-> <<"stop_new", "drop_new", "rename_back", "start_old", "check_old",
                  "stop_candidate", "drop_candidate">>,
  normalize |-> NormalizeUndo,
  preview   |-> <<"drop_candidate", "drop_new", "rename_back", "start_old", "check_old">>]
Receipts == {"none", "unchanged", "deployed", "backup_left", "rolled_back", "blocked",
             "candidate_failed"}

There(b) == box[b] # Gone
Holder(name) == {b \in Boxes : There(b) /\ box[b].name = name}
Bound(port) == {b \in Boxes : There(b) /\ box[b].up /\ box[b].port = port}
Used == {b \in Boxes : There(b) \/ b \in proven}
Unused == {b \in Boxes : b - 1 \in Used /\ \A c \in Used : c < b}  \* the next id

\* Every variable has its type, and wherever a script fails no two containers run
\* on the stable port.
SwapTypeOK ==
  /\ Cardinality(Bound("stable")) <= 1
  /\ host \in {"node", "test"}
  /\ box \in [Boxes -> {Gone} \cup Containers]
  /\ receipt \in Receipts /\ proven \subseteq Boxes /\ try \in 0..MaxTries
  /\ job # NoJob => /\ job.how \in Hows \cup {"given_up"} /\ job.undo \in BOOLEAN
                   /\ job.old \in Boxes
                   /\ {job.candidate, job.new} \subseteq Boxes \cup {None}

SwapInit ==
  /\ host \in {"node", "test"}
  /\ box = [b \in Boxes |-> IF b = 1 THEN [name |-> Stable, port |-> "stable", up |-> TRUE] ELSE Gone]
  /\ job = NoJob /\ receipt = "none" /\ proven = {} /\ try = 0

-----------------------------------------------------------------------------
\* Each script takes a lock (or the CI resource group), finds the stable container
\* and checks that it runs; an image that is there already needs nothing.
Begin(how, old, same) ==
  /\ job = NoJob /\ try < MaxTries /\ old \in Holder(Stable) /\ box[old].up
  /\ (how = "preview") = (host = "test")
  /\ proven' = proven \cup {old}
  /\ IF same /\ how # "normalize"
       THEN receipt' = "unchanged" /\ UNCHANGED <<job, try>>
       ELSE /\ job' = [how |-> how, undo |-> FALSE, at |-> 1, old |-> old, candidate |-> None, new |-> None,
                       stopped |-> FALSE, renamed |-> FALSE, unknown |-> FALSE]
            /\ try' = try + 1 /\ receipt' = "none"
  /\ UNCHANGED <<box, host>>

Commands == IF job.undo THEN Undo[job.how] ELSE Plan[job.how]
Doing(step) == job # NoJob /\ job.how # "given_up" /\ job.at <= Len(Commands) /\ Commands[job.at] = step
Onward(j) == [j EXCEPT !.at = @ + 1]
\* An exception: the except branch starts, or the except branch gives up.
Fallen(j) == IF j.undo THEN [j EXCEPT !.how = "given_up"] ELSE [j EXCEPT !.undo = TRUE, !.at = 1]

\* A command that succeeds; fails without, or after, having had its effect.
Do(effect, before, after) ==
  /\ \/ box' = effect /\ job' = Onward(after)
     \/ box' \in {box, effect} /\ job' = Fallen(before)
  /\ UNCHANGED <<receipt, proven, try, host>>

Skips == job' = Onward(job) /\ UNCHANGED <<box, receipt, proven, try, host>>
Throws == job' = Fallen(job) /\ UNCHANGED <<box, receipt, proven, try, host>>
MayPass == Skips \/ Throws

With(b, name, port) == [box EXCEPT ![b] = [name |-> name, port |-> port, up |-> FALSE]]
Up(b) == [box EXCEPT ![b].up = TRUE]
Down(b) == [box EXCEPT ![b].up = FALSE]
Renamed(b, name) == [box EXCEPT ![b].name = name]
Without(b) == [box EXCEPT ![b] = Gone]

\* docker create: refused while the name is taken or (not by "preview") the port is
\* bound.  A create whose answer is lost leaves a container whose id is not known.
Create(step, name, port, known) ==
  /\ Doing(step)
  /\ IF Holder(name) # {} \/ (job.how # "preview" /\ Bound(port) # {})
       THEN job' = Fallen([job EXCEPT !.unknown = TRUE]) /\ UNCHANGED <<box, receipt, proven, try, host>>
       ELSE \E b \in Unused : Do(With(b, name, port), [job EXCEPT !.unknown = TRUE], known[b])

CreateCandidate ==
  Create("candidate", Named("candidate"), "second", [b \in Boxes |-> [job EXCEPT !.candidate = b]])
CreateNew == Create("create", Stable, "stable", [b \in Boxes |-> [job EXCEPT !.new = b]])

\* Start by id, as the scripts of the nodes do, or by name: the same container here.
StartCandidate == Doing("boot") /\ Do(Up(job.candidate), job, job)
StartNew == Doing("start") /\ Do(Up(job.new), job, job)

\* Validation, health, guards: the old container must still be the stable one.
CheckCandidate == Doing("check_candidate") /\ IF box[job.old].name = Stable THEN MayPass ELSE Throws
CheckNew == Doing("check") /\ IF job.new \in Holder(Stable) /\ box[job.new].up THEN MayPass ELSE Throws

StopOldLate == Doing("stop") /\ Do(Down(job.old), job, [job EXCEPT !.stopped = TRUE])
\* The intent is noted before the call, the success of the rename after it.
StopOld ==
  /\ Doing("stop")
  /\ LET j == [job EXCEPT !.stopped = TRUE] IN Do(Down(job.old), j, j)
RenameOld ==
  /\ Doing("rename")
  /\ Do(Renamed(job.old, Named("backup")), job, [job EXCEPT !.renamed = TRUE])

-----------------------------------------------------------------------------
\* What the scripts know of the containers they made.  "preview" works by name: its
\* create of the stable name comes after the rename, of the candidate before.
MadeNewAnyway == IF job.how = "preview" THEN Holder(Stable) ELSE {job.new} \ {None}
MadeNew == IF job.how = "preview" THEN (IF job.renamed THEN Holder(Stable) ELSE {})
           ELSE {job.new} \ {None}
MadeCandidate == IF job.how = "preview" THEN Holder(Named("candidate")) ELSE {job.candidate} \ {None}

\* One command on each container of S (there is at most one), none if there is none.
OnEach(step, S, effect, skip) ==
  /\ Doing(step)
  /\ IF S = {} \/ skip THEN Skips
     ELSE \E b \in S : IF There(b) THEN Do(effect[b], job, job) ELSE Throws

Existing == {b \in Boxes : There(b)}
StopCandidate == OnEach("stop_candidate", MadeCandidate, [b \in Existing |-> Down(b)], FALSE)
DropCandidate == OnEach("drop_candidate", MadeCandidate, [b \in Existing |-> Without(b)], FALSE)
StopNew == OnEach("stop_new", MadeNew, [b \in Existing |-> Down(b)], FALSE)
DropNew == OnEach("drop_new", MadeNew, [b \in Existing |-> Without(b)], FALSE)
SetAside == OnEach("set_aside", MadeNew, [b \in Existing |-> Renamed(b, Named("failed"))], FALSE)

\* The old container back to its name and running, if it may have been stopped.
\* "preview" renames back if it knows that it renamed; the others look at the name.
RenameBack ==
  /\ Doing("rename_back")
  /\ IF ~job.stopped \/ (job.how = "preview" /\ ~job.renamed) \/ box[job.old].name = Stable THEN Skips
     ELSE IF Holder(Stable) # {} THEN Throws
     ELSE Do(Renamed(job.old, Stable), job, job)
StartOld ==
  /\ Doing("start_old")
  /\ IF ~job.stopped THEN Skips
     ELSE IF Holder(Stable) # {job.old} THEN Throws
     ELSE Do(Up(job.old), job, job)
CheckOld ==
  /\ Doing("check_old")
  /\ IF job.how = "preview" /\ ~job.stopped THEN Skips
     ELSE IF job.old \in Holder(Stable) /\ box[job.old].up THEN MayPass ELSE Throws

Ends(r) == job' = NoJob /\ receipt' = r /\ UNCHANGED <<proven, try, host>>

\* All commands went through.  "preview" removes the backup, and may fail to.
Commits ==
  /\ job # NoJob /\ job.how # "given_up" /\ ~job.undo /\ job.at > Len(Commands)
  /\ IF job.how # "preview" THEN Ends("deployed") /\ UNCHANGED box
     ELSE \/ Ends("deployed") /\ box' = Without(job.old)
          \/ Ends("backup_left") /\ box' \in {box, Without(job.old)}

\* The except branch went through, or gave up.
Undone ==
  /\ job # NoJob /\ job.how # "given_up" /\ job.undo /\ job.at > Len(Commands)
  /\ UNCHANGED box
  /\ \/ job.how = "release" /\ Ends(IF job.stopped THEN "rolled_back" ELSE "blocked")
     \/ job.how = "normalize" /\ Ends(IF job.stopped /\ ~job.unknown THEN "rolled_back" ELSE "blocked")
     \/ job.how = "preview" /\ Ends(IF job.stopped THEN "rolled_back" ELSE "candidate_failed")
GivesUp == job # NoJob /\ job.how = "given_up" /\ Ends("blocked") /\ UNCHANGED box

\* The script is killed, or its SSH connection is lost.
ScriptDies == job # NoJob /\ Ends("none") /\ UNCHANGED box

SwapNext ==
  \/ \E how \in Hows, old \in Boxes, same \in BOOLEAN : Begin(how, old, same)
  \/ CreateCandidate \/ StartCandidate \/ CheckCandidate \/ StopOld \/ RenameOld
  \/ CreateNew \/ StartNew \/ CheckNew
  \/ StopCandidate \/ DropCandidate \/ StopNew \/ DropNew \/ SetAside
  \/ RenameBack \/ StartOld \/ CheckOld
  \/ Commits \/ Undone \/ GivesUp \/ ScriptDies

SwapSpec == SwapInit /\ [][SwapNext]_swapVars

-----------------------------------------------------------------------------
(* Properties.                                                              *)

\* A container that ran under the stable name when some script began is never
\* removed, unless, on the test host, by the commit of a newer one that serves, or
\* that was running when a later script began.  Nothing is said of a replacement
\* that passed its check in a script that then rolled back: its undo removes it.
GoodIsKept ==
  \A b \in proven :
    There(b) \/ (host = "test" /\ \E c \in proven \cup Holder(Stable) : c > b /\ There(c))

\* A receipt tells the truth: "rolled_back" and "candidate_failed" mean that the old
\* container runs under the stable name, "deployed" that a newer one does.
ReceiptTrue ==
  job = NoJob =>
    /\ receipt \in {"rolled_back", "candidate_failed"} =>
         \E b \in Holder(Stable) \cap proven : box[b].up
    /\ receipt \in {"deployed", "backup_left"} =>
         \E b \in Holder(Stable) \ proven : box[b].up
=============================================================================
