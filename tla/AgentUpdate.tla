----------------------------- MODULE AgentUpdate -----------------------------
(***************************************************************************)
(* The agent replaces its own script: check_update, _download_and_restart  *)
(* and _validate_update_load, against GET /agent/version and /agent/script *)
(* of a centre that may be redeployed in between, an installer that may    *)
(* put another script there, and a machine that may lose power at any step.*)
(***************************************************************************)
EXTENDS Naturals

CONSTANTS
  MaxRelease,   \* bound: releases of the centre
  MaxTrouble    \* bound: crashes and runs of the installer

ASSUME UpdateAssumption == MaxRelease \in Nat \ {0} /\ MaxTrouble \in Nat

\* A script: its AGENT_VERSION, and whether the interpreter of this machine can
\* load it with its entry points.
Scripts == [v : 1 .. MaxRelease, loads : BOOLEAN]
Nil == [v |-> 0, loads |-> FALSE]  \* no file, or one whose bytes are not all there
Files == Scripts \cup {Nil}

VARIABLES
  served,    \* the script of the centre
  me,        \* the file the service starts: stella_agent.py
  staged,    \* .stella-update-*.py
  backup,    \* .stella-rollback-*.py of this update
  kept,      \* scripts in backups of earlier ones that nobody removed
  running,   \* the script of the process
  step,      \* how far the update is
  info,      \* the manifest it goes by: size and hash stand for the script
  found,     \* what lstat saw at the start: the file itself
  installer, \* install.sh has moved its script there and will restart the service
  trouble

updateVars == <<served, me, staged, backup, kept, running, step, info, found, installer, trouble>>

First == [v |-> 1, loads |-> TRUE]

UpdateInit ==
  /\ served = First /\ me = First /\ running = First
  /\ staged = Nil /\ backup = Nil /\ kept = {}
  /\ step = "idle" /\ info = Nil /\ found = Nil
  /\ installer = FALSE /\ trouble = 0

\* A deployment of the centre, newer or older, that this machine can load or not.
Deploy ==
  /\ served' \in Scripts \ {served}
  /\ UNCHANGED <<me, staged, backup, running, step, info, found, kept, installer, trouble>>

Goes(from, to) == step = from /\ step' = to

\* check_update: only a strictly newer release.
Newer(s) == s.v > running.v
CheckUpdate ==
  /\ Newer(served) /\ Goes("idle", "download")
  /\ info' = served
  /\ UNCHANGED <<served, me, staged, backup, running, found, kept, installer, trouble>>

\* The body must have the manifest's size and hash and declare its version: what
\* is served by now is another script, or the download fails.
Download ==
  /\ served = info /\ Goes("download", "stage")
  /\ UNCHANGED <<served, me, staged, backup, running, info, found, kept, installer, trouble>>

DownloadFails ==
  /\ Goes("download", "idle") /\ info' = Nil
  /\ UNCHANGED <<served, me, staged, backup, running, found, kept, installer, trouble>>

\* lstat, then the temporary file is made, written and forced to disk.
Stage ==
  /\ Goes("stage", "written")
  /\ found' = me /\ staged' = Nil
  /\ UNCHANGED <<served, me, backup, running, info, kept, installer, trouble>>

Written ==
  /\ Goes("written", "validate")
  /\ staged' = info
  /\ UNCHANGED <<served, me, backup, running, info, found, kept, installer, trouble>>

\* _validate_update_load: a script that loads passes; it may also time out.
PassesAlways(s) == TRUE  \* the load of the staged script is not checked
Passes(s) == s.loads
Validate ==
  /\ Passes(staged) /\ Goes("validate", "copy")
  /\ backup' = Nil
  /\ UNCHANGED <<served, me, staged, running, info, found, kept, installer, trouble>>

Copy ==
  /\ Goes("copy", "compare")
  /\ backup' = me
  /\ UNCHANGED <<served, me, staged, running, info, found, kept, installer, trouble>>

Compare ==
  /\ me = found /\ Goes("compare", "replace")
  /\ UNCHANGED <<served, me, staged, backup, running, info, found, kept, installer, trouble>>

\* The update is over, and its backup, if any, stays on disk.
Leaves(b) == /\ kept' = kept \cup ({b} \ {Nil}) /\ backup' = Nil
             /\ info' = Nil /\ found' = Nil

\* os.replace is atomic; from here on the backup is the way back.
Replace ==
  /\ Goes("replace", "installed")
  /\ me' = staged /\ staged' = Nil
  /\ UNCHANGED <<served, backup, running, info, found, kept, installer, trouble>>

\* The installed file has the manifest's hash and loads once more: exec.
Exec ==
  /\ me = info /\ me.loads /\ Goes("installed", "idle")
  /\ running' = me /\ Leaves(backup)
  /\ UNCHANGED <<served, me, staged, installer, trouble>>

\* Any exception before the replacement: both files are removed.
GivesUpEarly ==
  /\ step \in {"stage", "written", "validate", "copy", "compare", "replace"}
  /\ step' = "idle" /\ staged' = Nil /\ Leaves(Nil)
  /\ UNCHANGED <<served, me, running, installer, trouble>>

\* ... and after it: the backup goes back.
PutsBack ==
  /\ Goes("installed", "idle")
  /\ me' = backup /\ Leaves(Nil)
  /\ UNCHANGED <<served, staged, running, installer, trouble>>

\* Putting it back fails too: the finally clause leaves it on disk.
Remaining == backup
CannotPutBack ==
  /\ Goes("installed", "idle")
  /\ Leaves(Remaining)
  /\ UNCHANGED <<served, me, staged, running, installer, trouble>>

-----------------------------------------------------------------------------
\* The process dies, or the machine does: systemd starts the file that is there.
Starts == /\ running' = me /\ step' = "idle" /\ Leaves(backup)

CrashAgent ==
  /\ trouble < MaxTrouble /\ trouble' = trouble + 1
  /\ ~installer /\ Starts
  /\ UNCHANGED <<served, me, staged, installer>>

\* install.sh moves a whole script over the file and restarts the service.  It
\* compiles it first; here a script that compiles also loads.
MoveInstaller ==
  /\ trouble < MaxTrouble /\ trouble' = trouble + 1
  /\ ~installer /\ installer' = TRUE
  /\ served.loads /\ me' = served
  /\ UNCHANGED <<served, staged, backup, running, step, info, found, kept>>

RestartService ==
  /\ installer /\ installer' = FALSE /\ Starts
  /\ UNCHANGED <<served, me, staged, trouble>>

UpdateNext ==
  \/ Deploy \/ CheckUpdate \/ Download \/ DownloadFails \/ Stage \/ Written \/ Validate
  \/ Copy \/ Compare \/ Replace \/ Exec \/ GivesUpEarly \/ PutsBack \/ CannotPutBack
  \/ CrashAgent \/ MoveInstaller \/ RestartService

UpdateSpec == UpdateInit /\ [][UpdateNext]_updateVars

-----------------------------------------------------------------------------
UpdateTypeOK ==
  /\ served \in Scripts /\ me \in Files /\ staged \in Files /\ backup \in Files /\ kept \subseteq Scripts
  /\ running \in Scripts /\ info \in Scripts \cup {Nil} /\ found \in Files
  /\ step \in {"idle", "download", "stage", "written", "validate", "copy", "compare",
               "replace", "installed"}
  /\ installer \in BOOLEAN /\ trouble \in 0 .. MaxTrouble

\* Wherever an update stops, the service can be started again, and the script
\* that runs is still at its place or in a backup, unless the installer is
\* putting another there.
AgentSurvives ==
  /\ me.loads
  /\ installer \/ running \in {me, backup} \cup kept
=============================================================================
