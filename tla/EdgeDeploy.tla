----------------------------- MODULE EdgeDeploy -----------------------------
(***************************************************************************)
(* Publishing the static files of a release on the edge host.              *)
(*                                                                         *)
(* deploysafe.py puts a stage under releases/, renders the nginx vhost as  *)
(* the union of all retained releases, writes a transaction directory with *)
(* the old and the new vhost, replaces the vhost, reloads nginx, reads     *)
(* back, checks health, and writes the outcome into the transaction.  An   *)
(* exception restores the old vhost; a killed process leaves whatever was  *)
(* on disk and the explicit rollback command, which needs the transaction. *)
(* Both commands hold a file lock that the kernel drops with the process.  *)
(***************************************************************************)
EXTENDS Naturals, FiniteSets

CONSTANTS Versions,   \* manifests; a version names its release directory
          Clashing,   \* pairs of versions that publish one URL with two contents
          Operators,  \* processes of deploysafe.py
          MaxTxs,     \* bound: transactions
          MaxEdits,   \* bound: hand edits of the vhost
          NoOp        \* an operator that runs nothing

VARIABLES vhost,    \* the vhost file: what the operator wrote and the releases it lists
          loaded,   \* the vhost the running nginx loaded
          releases, \* directories under releases/
          litter,   \* a .stage-* directory that a killed process left there
          txs,      \* transaction directories, by number: NoOp or a record
          reviewed, \* the vhost whose SHA each operator approved
          op,       \* what each operator's process does
          good      \* history: the last vhost that was verified, approved or chosen

edgeVars == <<vhost, loaded, releases, litter, txs, reviewed, op, good>>

Configs == [hand : 0..MaxEdits, lists : SUBSET Versions]
TxIds == 1..MaxTxs
Statuses == {"prepared", "verified", "rolled-back", "rollback-needs-operator"}
TxLate(p, c) == [previous |-> c, candidate |-> c, status |-> "prepared"]
Tx(p, c) == [previous |-> p, candidate |-> c, status |-> "prepared"]
Transactions == [previous : Configs, candidate : Configs, status : Statuses]
Steps == {"stage", "collect", "prepare", "write", "reload", "check", "restore", "recover",
          "back", "backCheck"}
\* A process: its step, the releases it still installs, the one that comes first and
\* those it made itself, the vhost it found or goes back to, its transaction.
Processes == [step : Steps, todo : SUBSET Versions, prior : SUBSET Versions,
              made : SUBSET Versions, old : Configs, tx : {0} \cup TxIds]

ASSUME EdgeAssumption ==
  /\ Clashing \subseteq SUBSET Versions /\ {} \notin Clashing
  /\ MaxTxs \in Nat /\ MaxEdits \in Nat
  /\ NoOp \notin Transactions \cup Processes

EdgeTypeOK ==
  /\ vhost \in Configs /\ loaded \in Configs /\ good \in Configs
  /\ releases \subseteq Versions /\ litter \in BOOLEAN
  /\ txs \in [TxIds -> {NoOp} \cup Transactions]
  /\ reviewed \in [Operators -> Configs]
  /\ op \in [Operators -> {NoOp} \cup Processes]

EdgeInit ==
  /\ vhost = [hand |-> 0, lists |-> {}] /\ loaded = vhost /\ good = vhost
  /\ releases = {} /\ litter = FALSE
  /\ txs = [t \in TxIds |-> NoOp]
  /\ reviewed = [p \in Operators |-> vhost]
  /\ op = [p \in Operators |-> NoOp]

-----------------------------------------------------------------------------
Unlocked == \A p \in Operators : op[p] = NoOp
At(p, step) == op[p] # NoOp /\ op[p].step = step
Go(p, step) == op' = [op EXCEPT ![p].step = step]
Leave(p) == op' = [op EXCEPT ![p] = NoOp]
Marked(t, status) == [txs EXCEPT ![t].status = status]
Same(S) == \A c \in Clashing : ~(c \subseteq S)

\* render(): the hand-written part stays, the generated block is replaced.
Rendered(old) == [old EXCEPT !.lists = releases]

\* The operator reads the vhost and approves its SHA; any time may pass.
Review(p) ==
  /\ op[p] = NoOp /\ reviewed[p] # vhost
  /\ reviewed' = [reviewed EXCEPT ![p] = vhost]
  /\ UNCHANGED <<vhost, loaded, releases, litter, txs, op, good>>

\* apply(): the lock, the SHA and nginx -t; nothing has changed if they refuse.
\* With --primary-stage the release that serves the pages is installed first.
Apply(p, first, v) ==
  /\ Unlocked /\ reviewed[p] = vhost /\ \E t \in TxIds : txs[t] = NoOp
  /\ op' = [op EXCEPT ![p] = [step |-> "stage", todo |-> first \cup {v}, prior |-> first \ {v},
                              made |-> {}, old |-> vhost, tx |-> 0]]
  /\ good' = vhost
  /\ UNCHANGED <<vhost, loaded, releases, litter, txs, reviewed>>

NextStage(p) == IF op[p].prior # {} THEN op[p].prior ELSE op[p].todo

\* install_release(): copy into .stage-*, then rename, unless it is there already.
InstallRelease(p) ==
  /\ At(p, "stage")
  /\ releases' = releases \cup NextStage(p)
  /\ op' = [op EXCEPT ![p].step = "collect", ![p].made = NextStage(p) \ releases]
  /\ UNCHANGED <<vhost, loaded, litter, txs, reviewed, good>>

\* A failed copy removes its own temporary directory.
CopyFails(p) == At(p, "stage") /\ Leave(p)
                /\ UNCHANGED <<vhost, loaded, releases, litter, txs, reviewed, good>>

\* A retained release may be there before the call: only what this call made goes.
Withdrawn(p) == op[p].made

\* collect(): every directory under releases/ is checked; no URL has two contents.
Collect(p) ==
  /\ At(p, "collect")
  /\ IF ~litter /\ Same(releases)
       THEN /\ op' = [op EXCEPT ![p].prior = {}, ![p].made = {},
                                ![p].todo = @ \ NextStage(p),
                                ![p].step = IF op[p].todo = NextStage(p) THEN "prepare" ELSE "stage"]
            /\ UNCHANGED releases
       ELSE releases' = releases \ Withdrawn(p) /\ Leave(p)
  /\ UNCHANGED <<vhost, loaded, litter, txs, reviewed, good>>

\* The transaction is on disk, receipt included, before the vhost changes.
Prepare(p) ==
  /\ At(p, "prepare")
  /\ \E t \in TxIds :
       /\ txs[t] = NoOp /\ \A u \in 1..(t - 1) : txs[u] # NoOp
       /\ txs' = [txs EXCEPT ![t] = Tx(op[p].old, Rendered(op[p].old))]
       /\ op' = [op EXCEPT ![p].step = "write", ![p].tx = t]
  /\ UNCHANGED <<vhost, loaded, releases, litter, reviewed, good>>

WriteVhost(p) ==
  /\ At(p, "write")
  /\ vhost' = txs[op[p].tx].candidate
  /\ Go(p, "reload")
  /\ UNCHANGED <<loaded, releases, litter, txs, reviewed, good>>

\* nginx -t and nginx -s reload.
Reload(p) ==
  /\ At(p, "reload")
  /\ loaded' = vhost
  /\ Go(p, "check")
  /\ UNCHANGED <<vhost, releases, litter, txs, reviewed, good>>

\* Read back, health: every listed asset is served with the right bytes.
Verified(p) ==
  /\ At(p, "check")
  /\ txs' = Marked(op[p].tx, "verified")
  /\ good' = txs[op[p].tx].candidate
  /\ Leave(p)
  /\ UNCHANGED <<vhost, loaded, releases, litter, reviewed>>

\* Any of these steps may raise, an interrupt from the keyboard included; from the
\* write on the old vhost is put back.
Raises(p) ==
  /\ \E step \in {"write", "reload", "check"} : At(p, step)
  /\ Go(p, "restore")
  /\ UNCHANGED <<vhost, loaded, releases, litter, txs, reviewed, good>>

Restore(p) ==
  /\ At(p, "restore")
  /\ vhost' = op[p].old
  /\ Go(p, "recover")
  /\ UNCHANGED <<loaded, releases, litter, txs, reviewed, good>>

\* Reload, read back and check the restored vhost; the reload itself may fail.
Revive(p, ok) ==
  /\ At(p, "recover")
  /\ loaded' \in (IF ok THEN {vhost} ELSE {loaded, vhost})
  /\ txs' = Marked(op[p].tx, IF ok THEN "rolled-back" ELSE "rollback-needs-operator")
  /\ Leave(p)
  /\ UNCHANGED <<vhost, releases, litter, reviewed, good>>

-----------------------------------------------------------------------------
\* rollback(): refused unless the vhost is one of the transaction's two.
MayRollBack(t) == txs[t] # NoOp /\ vhost \in {txs[t].previous, txs[t].candidate}

\* The operator chose the previous vhost of t: from here on it is the good one.
Rollback(p, t) ==
  /\ Unlocked /\ MayRollBack(t)
  /\ op' = [op EXCEPT ![p] = [step |-> "back", todo |-> {}, prior |-> {}, made |-> {},
                              old |-> txs[t].previous, tx |-> t]]
  /\ vhost' = txs[t].previous
  /\ good' = txs[t].previous
  /\ UNCHANGED <<loaded, releases, litter, txs, reviewed>>

RollbackReload(p) ==
  /\ At(p, "back")
  /\ loaded' = vhost
  /\ Go(p, "backCheck")
  /\ UNCHANGED <<vhost, releases, litter, txs, reviewed, good>>

RolledBack(p) ==
  /\ At(p, "backCheck")
  /\ txs' = Marked(op[p].tx, "rolled-back")
  /\ Leave(p)
  /\ UNCHANGED <<vhost, loaded, releases, litter, reviewed, good>>

\* SIGKILL or power loss at any step; a rollback that raises ends the same way.
\* A copy under way leaves its .stage-* directory.
Killed(p) ==
  /\ op[p] # NoOp
  /\ litter' \in (IF At(p, "stage") THEN {litter, TRUE} ELSE {litter})
  /\ Leave(p)
  /\ UNCHANGED <<vhost, loaded, releases, txs, reviewed, good>>

\* nginx starts again, with the host or alone, and loads what is on disk.
NginxStarts ==
  /\ loaded # vhost
  /\ loaded' = vhost
  /\ UNCHANGED <<vhost, releases, litter, txs, reviewed, op, good>>

\* The operator changes the vhost by hand, which the README does only while no
\* deployment runs.
EditByHand ==
  /\ Unlocked /\ vhost = good /\ vhost.hand < MaxEdits
  /\ vhost' = [vhost EXCEPT !.hand = @ + 1]
  /\ good' = vhost'
  /\ UNCHANGED <<loaded, releases, litter, txs, reviewed, op>>

EdgeNext ==
  \/ \E p \in Operators, v \in Versions, first \in SUBSET Versions :
        Cardinality(first) <= 1 /\ Apply(p, first, v)
  \/ \E p \in Operators : Review(p)
  \/ \E p \in Operators : InstallRelease(p)
  \/ \E p \in Operators : CopyFails(p)
  \/ \E p \in Operators : Collect(p)
  \/ \E p \in Operators : Prepare(p)
  \/ \E p \in Operators : WriteVhost(p)
  \/ \E p \in Operators : Reload(p)
  \/ \E p \in Operators : Verified(p)
  \/ \E p \in Operators : Raises(p)
  \/ \E p \in Operators : Restore(p)
  \/ \E p \in Operators, ok \in BOOLEAN : Revive(p, ok)
  \/ \E p \in Operators, t \in TxIds : Rollback(p, t)
  \/ \E p \in Operators : RollbackReload(p)
  \/ \E p \in Operators : RolledBack(p)
  \/ \E p \in Operators : Killed(p)
  \/ NginxStarts
  \/ EditByHand

EdgeSpec == EdgeInit /\ [][EdgeNext]_edgeVars

-----------------------------------------------------------------------------
(* Properties.                                                              *)

\* Wherever a deployment is killed, the vhost on disk is the last good one, or a
\* transaction on disk holds the good one and the rollback command accepts it; and
\* every release that the vhost on disk or the running nginx maps to files is there,
\* no two of them publishing one URL with different bytes.
EdgeKept ==
  /\ Unlocked => \/ vhost = good
                 \/ \E t \in TxIds : MayRollBack(t) /\ txs[t].previous = good
  /\ \A c \in {vhost, loaded} : c.lists \subseteq releases /\ Same(c.lists)
=============================================================================
