# StellaHaven: specification and verification

TLA+ modules, TLC runs and TLAPS proofs for the parts of StellaHaven whose
correctness depends on what several actors do at once, or on what is left behind
when one of them stops half way. All paths are relative to the root of the
repository.

Contents: 1 the system, 2 the modules and the code they stand for, 3 the runs,
4 the proofs, 5 findings and observations, 6 what is left, 7 what is not modelled.

## 1. The system

StellaHaven is a personal workspace and server monitor: a FastAPI backend
(`app/`) over PostgreSQL, a single-file agent (`agent/stella_agent.py`) on every
managed machine, a Vue frontend (`frontend/`), and operator scripts (`deploy/`).

These facts shape every model:

* **Handlers are threads.** The routes are plain `def`s, so Starlette runs them on
  a thread pool, and several backend processes may run side by side. Any two
  handlers interleave at the granularity of their database statements.
* **READ COMMITTED and an ORM without version columns.** `app/database.py` makes
  sessions with `autoflush=False`. A handler reads rows, changes attributes, and at
  `commit()` the ORM writes *the changed columns* `WHERE id = ...`, whatever the
  row holds by then. Read and commit are two steps of the models, unless the code
  holds `FOR UPDATE`, an advisory lock or a `flock` between them. `get_db` closes
  the session at the end of a request; it does not commit.
* **Few background jobs.** Time-outs are noticed when somebody asks: the watchdog of
  speed tests runs inside the page's own requests, offline nodes are computed when
  a page is read, alert rules are evaluated inside the handler of a heartbeat.
* **Files next to rows.** Attachments, pictures, backgrounds, the blob cache and
  the agent's own script are files; a process may stop between the file and the row.
* **Scripts that must be able to stop anywhere.** Self-update, address change,
  container swap, release and edge deployment change a machine step by step, each
  step may fail or take effect and then fail, and nobody resumes them.

The agent keeps all its state in memory: a bounded queue of samples, one lane
("tasks") that polls for work and executes it, one for probes, one for the map.
Everything between agent and backend is an HTTP request with a ten-second
time-out: it may be lost, answered late to somebody who no longer listens, or sent
again.

### Components

| Component | State | Operations | Talks to | Correct when |
|---|---|---|---|---|
| Task board | five task tables | create, list (sweeps), cancel, poll, result, trim | agents, the task page | each role of a task is handed out and run at most once, server before client, one speed test at a time, the slot is freed |
| Agent task execution | lane, batch in memory | poll, execute, report, retry once | task board | nothing runs that was not handed out, in order of kind |
| Node reports and lifecycle | `nodes`, `node_metrics`, `node_sys_metrics`, the agent's queue | report, request/claim/finish uninstall, remove, install | agents, task board's poll | samples arrive in order and none is lost needlessly; one instruction per request |
| Alert rules | rules, slots, events, notifications | CRUD, evaluate, push | evaluated by reports and probe results | `debounce` bad looks mean an alarm (finding 2) |
| Sessions and administrator protection | session rows, one locked security row | register, login, rotate, activity, logout, revoke, unlock, protect, change password | everything | a refresh token is exchanged once, the dead stay dead, an administrative request is judged by what still stands |
| E-mail codes | one code per address, one locked budget row | issue, resend, redeem; profile change | login, mail | limits hold in every window; an effect costs the newest open code |
| OIDC provider | one locked document of codes and tokens | authorize, exchange, userinfo | relying parties | a code is exchanged once, no grant is overwritten |
| Document tree and recycle bin | rows with parents | create, move, delete, lift, clear, restore, purge | attachments, tags | a page is never its own ancestor |
| Document texts, versions, links | text, draft slot, checkpoints, links | save, draft, restore, move | the editor | no save overwrites an unseen text |
| Note imports | import rows, receipts, the inbox | flat import, archive, quick record | documents | a repeat imports nothing twice |
| Attachments, profile pictures | rows and files | upload, keyed upload, clean up, pick | documents, blob store | a keyed upload stores once; what is named can be shown |
| Blob cache | files on disk shared by all workers | acquire, evict, fill, pin | blob store | bounded, and nothing is removed under a reader |
| Background images | index, sidecars, locks, one worker per replica | upload, schedule, convert, look | the home page | one conversion at a time; a result is never called missing |
| Monitors and configuration | monitors, version counter, the agent's copy | CRUD, bump, fetch, check | agents, alert rules | an agent ends up with the list the table holds |
| Integrations, website saves | one locked row of modules, tickets, grants | CRUD, draft/apply/roll back, launch, redeem, watch; save | proxied websites | a socket whose login ended is closed; a save overwrites nothing unseen |
| Server status and map | snapshots | collect, ping, post, draw | agents, alert rules | a green link was measured from both ends |
| Agent self-update | the script, a backup, a staged file | check, download, validate, replace, exec, put back | backend, installer | a script that starts is always in place |
| Server address change | addresses, gateway, boot configuration | change, ping, persist, take back | task board | what was refused or interrupted is taken back, address and gateway, and persisted wholly or not at all (it is not, see Observations) |
| Container swap, two-node release | containers, receipts, database roles | swap, undo; orchestrate | Docker, PostgreSQL | the container that was running is never removed; primary last, one release at a time |
| Edge deployment, public assets | releases, vhost, transactions; bundles, stages | apply, roll back; build, stage, verify | nginx | every mapped URL is served, none changes |
| The rest | see `PROJECT.json` and section 7 | | | |

`PROJECT.json` lists every component with its sources and every hazard with its
line and the properties that cover it.

### What is hard

A claim committed by a poll whose answer nobody receives; a write based on a row
read before somebody else's commit; results that arrive after a cancel, a sweep, a
trim or a restart; the retry of a report or an upload whose first copy is still
under way; a handler that dies between two of its commits; an evaluation that
pushes what it never saves; a delete that walks a tree while another request moves
it; a session extended by a request that read it before it was revoked; a lock that
is dropped and taken again in the middle of an exchange; a file removed while
somebody sends it; a command that took effect although it failed; a script that is
killed between the receipt and the change the receipt speaks of.

## 2. The modules

| Module | What it is |
|---|---|
| `TaskContract` | what the task board promises: offers, hand-outs, starts |
| `TaskDispatch` | the task board and the agents' task lanes; implements `TaskContract` |
| `ReportContract` | what store-and-forward reporting promises about samples |
| `NodeReports` | one node: row, heartbeat handler, queue, uninstall; implements `ReportContract` |
| `CodeContract` | what one-time codes promise: one open per purpose, an effect spends it |
| `EmailCodes` | the budget row, the code rows and the requests over them; implements `CodeContract` |
| `OwnerSessions`, `OidcGrants` | sessions with the administrator protection; the OpenID provider |
| `DocumentTree`, `DocumentText`, `NoteImports` | pages as a tree; one page's text; imports |
| `Attachments`, `ProfilePictures`, `BlobCache`, `BackgroundMedia` | files beside rows |
| `MonitorConfig`, `AlertRules`, `Integrations`, `WebsiteSaves` | operations of the workspace |
| `ServerMap`, `AgentUpdate`, `AddressChange` | what the agents do on their machines |
| `AppSwap`, `TwoNodeRelease`, `EdgeDeploy`, `PublicAssets` | the scripts of `deploy/` |
| `MCTaskDispatch` | instances of `TaskDispatch` |
| `MCAccounts`, `MCContent`, `MCOperations`, `MCHosts` | instances of several modules that share no state |
| `MCRequests` | `MCAccounts` and `NodeReports` side by side |
| `TaskDispatchProofs`, `NodeReportsProofs`, `AccountsProofs`, `ContentProofs`, `OperationsProofs`, `HostsProofs` | the theorems, one module per area |
| `CollectionLemmas` | facts on finite sequences and sets that the proofs share |
| `Subsequences` | `Only(s, S)`: what a comprehension with a filter leaves of a list, in a form the prover can expand |

`TaskDispatch` and `NodeReports` compose through the poll: `NodeReports` has the
uninstall part of it, `TaskDispatch` the rest, and they touch different tables.
`MCAccounts`, `MCContent`, `MCOperations` and `MCHosts` each instantiate several modules
whose code shares no state, and `MCRequests` the accounts and `NodeReports`; a variable
(`part`, `area`, `about`) chooses in the initial state which one moves, the others keep
their initial states. So one run explores the sum of the state spaces,
not their product, and nothing of any of them is lost by that.

Operators that exist only to be compared with the real one (`TreeUnlocked`,
`UnpinnedAssumed`, `StopOldLate`, ...) stand in front of it: each is the
definition as a plausible bug would write it, and `PROJECT.json` names the property
that notices. No action uses them.

### TaskDispatch

`order`, `status`, `started` are the columns of the task tables that the protocol
reads (`models/task.py`); `admission` is the advisory lock of
`repositories/task.py:34`; `req[w]` is the request thread `w` serves, with the rows
it has read and will write; `agent[n]` is the "tasks" lane of node `n`; `posts` are
reports under way; `handed` and `ran` are history. `Tests` and `Commands` are the rows
of the tables that are trimmed, `Trimming` the create requests between the commit of a
command and the commit of its trim.

| Code | Actions |
|---|---|
| `sweep_stale_iperf`, called by list, detail and create | `View`, `CommitSweep` |
| `create_iperf` (sweep, checks, lock, count, insert, trim) | `Create`, `CommitSweep`, `Refuse`, `Admit`, `Insert` |
| `create_mtr`, `create_command`, `install_component`, network changes | `CreateJob`, `TrimJobs` |
| `cancel_iperf` | `ReadCancel`, `CommitCancel` |
| `poll_tasks` | `Poll`, `CommitPoll`, `Vanished` |
| `poll_and_execute`, `_run_*` of the agent | `GiveUp`, `Begin`, `Report`, `Raise`, `Restart` |
| `authorize_agent_task`, `finish_*` | `HandleResult` (one step: the row is locked until the commit) |

Abstractions. The six reads of one poll are one step: they only see pending rows
of the polling node, and no other request claims for it. The clock is a choice of
any subset of sweepable rows. A speedtest has no server node, as the frontend sends
it. Kinds that behave alike share a name: "command" stands for `mtr_tasks` and
`agent_commands` (one report, trimmed), "install" for component and network tasks
(the report is retried, never trimmed). Reusing the active row of an install is no
step. An UPDATE of a row that was trimmed meanwhile ends the request (`Vanished`);
with several rows the driver may have written the others. A create request is not
killed between its two commits: the table would keep a row too many until the next
create trims it.

### NodeReports

`node` holds the three columns that matter of one row of `nodes`; `metrics` which
part of which sample is in `node_metrics` and `node_sys_metrics`; `queue` the
agent's deque, whose order is that of the sample numbers; `sending` the worker whose
answer the sending loop awaits and `errand` what the tasks lane does about an
uninstall; `call[w].dirty` the columns a heartbeat handler changed and has not
committed.

| Code | Actions |
|---|---|
| `run`, `report` of the agent | `Sample`, `Post`, `GiveUpPost`, and the effect of `Reply` |
| first report of a process, `_report_map_snapshot` | `Beat` |
| `handle_report`, `heartbeat`, `insert_metrics`, `insert_sys_metrics` | `Read`, `CommitBeat`, `InsertPart` (twice), `Reply` |
| `request_uninstall`, `set_uninstall_status` | `AskUninstall`, `CommitAsk` |
| uninstall part of `poll_tasks` | `PollUninstall`, `ReadPoll`, `CommitClaim`, `Tell` |
| `_run_uninstall` | `Launch`, `PostResult`, `LaneGivesUp` |
| `finish_uninstall` (three commits) | `CommitResult`, `CommitOffline`, `CommitUnmanaged`, `Ack` |
| `remove`; service start, crash, stop | `RemoveNode`; `Install`, `RestartAgent`, `AgentLeaves`, `Survive` |
| exception or end of a backend thread | `Die`, possible between any two commits |

Abstractions. A batch always has both parts (a batch without system samples skips
one commit). Samples beyond `MaxSamples` are not followed, but taking them keeps
the sending loop going. The node the backend installs on its own machine and the
descriptive columns of a report are left out.

### AlertRules

`rule` and `slot` are the committed rows, `session[w]` what request `w` still
evaluates and what it wrote without committing, `bell` the last push, `streak` a
history variable counting bad looks. `Arrive` reads the enabled rules, `Evaluate`
is `_evaluate` with `_record`, `_notify` and the push, `Fail` the foreign key that
refuses a slot of a deleted rule, `Close` is `get_db`, which drops what was not
committed. `Change` is the world: a target looks bad, good, unclear (neutral,
message "keep") or gone (neutral, no message). Whether `repeat_minutes` have passed
is a choice.


### EmailCodes

`budget` is the one locked row of `services/email_attempts.py` (stamps of failures
and deliveries, one slot per purpose), `codes` the `email_codes` row of each
address, `account` the owner's address and whether it is verified. `guesses` and
`mails` count, as history, what the last window saw; `proven` and `effects` what was
redeemed.

| Code | Actions |
|---|---|
| the six routes of `routers/auth.py` around codes, up to the budget row | `Ask` |
| `issue_code`, first and repeated | `Issue` |
| `consume_code`, wrong and right | `GuessWrong`, `GuessRight` |
| what the route does after it; a refusal before or after the code was judged | `Commit`; `Turned`, `Abort` |
| `update_profile` (reads, later writes the changed columns) | `ReadProfile`, `CommitProfile` |
| the clock | `EmailTick` |

A code is its number; a wrong guess is any other. A window is `Window` ticks and a
code lives two windows, as 5 and 10 minutes do. Hashing, mail and texts are left out.

### OwnerSessions

`sessions` are the `auth_sessions` rows, `safe` the security row (`configured`,
`enabled`, `version`, grants), `safeLock` its advisory lock, `rowLock` the locks of
session rows. `exchanged` is history. Every request first loads its session without
a lock (`Enter`) and goes on later with what it saw.

| Code | Actions |
|---|---|
| `register` | `BeginRegister`, `CommitRegister` |
| `login`, `_create_session` | `Login` |
| `rotate_refresh` | `BeginRotate`, `CommitRotate` |
| `current_user`, then `activity`, `revoke_session`, `change_password` | `Enter`, then `Activity`, `Revoke`, `ChangePassword` |
| `logout`, which looks its session up by the cookie | `Logout` |
| `setup`, `change_protection`, `change_admin_password`, `unlock`, `lock` | `Setup`, `Protect`, `Unlock`, `Relock` |
| `require_admin`, the administrative request | `BeginAdmin`, `CommitAdmin` |
| a refusal, the counter of wrong passwords | `GiveUp` |
| the clock | `SessionTick` |

### OidcGrants

`document` is the shared state: codes and access tokens. `documentLock` is the
`flock`, or the lock of the row. `server` is what each thread or process holds; the
record it took is the copy it will write back.

| Code | Actions |
|---|---|
| `authorize`, `create_authorization_code` | `BeginAuthorize`, `EndAuthorize` |
| `token`, `exchange_code`: first section, signing, second section | `BeginExchange`, `TakeCode`, `BeginStore`, `EndStore`; `Refuse` |
| `userinfo` | `BeginUserinfo`, `EndUserinfo` |
| an exception or the end of the process inside a section | `Crash` |
| the clock | `OidcTick` |

### DocumentTree

`page[d]` is where a page is (`none`, `live`, `trash`, `purged`) and its parent;
`thread` the rows a request has read; `lifted` is history.

| Code | Actions |
|---|---|
| `create_one`, `create` | `Create`, `Insert` |
| `update_document` with a parent: locks of the tree and the row; the walk to the top, one read at a time; the update | `Move`, `Walk`, `Moved` |
| `delete_document`, cascading or not; `clear_workspace_docs` | `Delete`, `ClearAll`, then `TrashWrite` or `LiftWrite` |
| `restore_document` | `Restore`, `RestoreWrite` |
| `purge`, `empty_trash`, `_physical_delete` | `Purge`, `PurgeOne` |
| an exception, `StaleDataError`, a foreign key | `Abort` |

### DocumentText

One page: `text` is the set of pages it names, which is all the links depend on;
`stamp` is `updated_at`.

| Code | Actions |
|---|---|
| the editor opens the page, saves a draft | `Open`, `SaveDraft` |
| `update_document` with content and its checkpoints | `Save` |
| `sync_wikilinks` in commits of its own | `ReadLinks`, `Unlink`, `Resolve`, `Link`, `Done`, `Fails` |
| `restore_version`, `create_version` | `RestoreVersion`, `Checkpoint` |
| moves, the bin, an import that writes the text, links edited by hand | `MovePage`, `Bin`, `BinOther`, `FinalizeImport`, `EditLink` |
| a refusal by `updated_at` | `Refused` |

### NoteImports, Attachments, ProfilePictures

| Code | Actions |
|---|---|
| `create_one` with `X-Import-Key` | `BeginFlat`, `InsertFlat` |
| `parse_archive`, `commit_archive` with its receipt | `BeginZip`, `CommitZip`, `RollBack` |
| `inbox_for_write`, `quick_record` | `BeginQuick`, `MakeFolder`, `InsertRecord` |
| pages that go to the bin and come back or not | `Discard` |
| `upload`, with and without `Idempotency-Key` | `Upload`, `UploadKeyed`, `Stored`; `RowFirst`, `WriteFile` for plain files |
| `cleanup_unreferenced`, `_physical_delete`, a save that stops naming a file | `Unused`, `UnlinkFile`, `Removed`, `PurgePage`, `SaveText`, `BinHolder`, `Stops` |
| `upload_avatar`, `_upload_avatar_pg`, `pick_avatar` | `ReadHistory`, `WriteHistory`, `GivesUp`, `Pick` |

Both storage modes of attachments and pictures are explored: an initial state has
the bytes in the transaction of the row or beside it.

### BlobCache

`shelf` lists the entries by age of use, `keeper` is the reader inside
`.cache.lock`, a reader's pin is its state `reading`. Actions: `Enter` (the lock),
`Scan` (TTL and listing), `Evict`, `NoRoom` (503), `Reserve`, `Fill`, `FillFails`,
`Pin` (shared lock on the entry, global lock released), `Close`, `ReaderKilled` at
any step, `GrowsStale`. Sizes are whole blocks. Entries of a wrong size, which only
a damaged disk makes, are left out.

### BackgroundMedia

`catalog` is `index.json`, `sidecar` the `.media.json` of a source, `flock` its lock,
`jobs[p]` the executor of one replica with its single worker.

| Code | Actions |
|---|---|
| `upload_homebg`, `delete_homebg` | `UploadFile`, `ListUpload`, `RemoveFile`, `Unlist`, `IndexKilled` |
| `schedule` | `Admit`, `Enqueue`, `GivesBack` |
| `_worker` | `Work`, `WriteResult`, `LetGo` |
| `get_media`, `metadata` | `View`, `TryLock`, `ReadAgain`, `LetLockGo` |
| the end of a process | `ReplicaKilled` |

Plain files only: with PostgreSQL an upload is one transaction under a row lock. A
replica admits one request at a time.

### MonitorConfig

`rows` are the monitors, `counter` the version in `app_config`, `held` the agent's
copy with the version it believes to have, `fetch` its request, `results` the probe
results on their way.

| Code | Actions |
|---|---|
| `create_monitor`, `update_monitor`, `delete_monitor` | `CreateMonitor`, `UpdateMonitor`, `RemoveMonitor` |
| `bump_monitors_version`, a commit of its own | `ReadCounter`, `PutCounter`, `BumpLost` |
| `GET /agent/config`: list, then counter | `Refresh`, `ReadList`, `ReadVersion`, `FetchFails` |
| `refresh_config`, `_apply_monitors` | `Adopt` |
| `run_due_probes`; `agent_monitor_check`, `record_check` | `Probe`; `LookUp`, `InsertCheck`, `UpdateLast`, `ResultLost` |
| a restart of the agent | `AgentRestarts` |

An edit that saw no row of the counter looks once more when it writes: it overwrites
what another edit put there meanwhile, or its insertion fails.

### Integrations, WebsiteSaves

`tickets` and `grants` are in the locked row of all modules, `inflight` in the
memory of the dispatcher, `visitor` what a request of the proxied site knows.

| Code | Actions |
|---|---|
| `create_module`, `patch_module`, `delete_module` | `CreateModule`, `PatchModule`, `DeleteModule` |
| `validate_draft`, `apply`, `rollback` | `Draft`, `Apply`, `Rollback` |
| `launch`, `issue`, `redeem` | `Launch`, `Issue`, `Redeem` |
| `__call__`, `authorize`, `proxy_websocket`, `watch_session` | `Arrive`, `Open`, `Watch`, `End` |
| the session of the main site, the clock | `SessionEnds`, `IntegrationTick` |
| `save_website`: read, check for seconds, write under the lock | `BeginSave`, `Unsaved`, `WriteSite` |
| its keys, the routes beside it | `KeyExpires`, `DirectCreate`, `DirectEdit`, `DirectDelete` |

The dispatcher counts a request before it reads the module, also one it then refuses
(`refused`). A save's display overrides, targets and injection versions are left out; the limit
of modules is the number of ids in the run.

### ServerMap

`wg[h]` is the interface of a host, `lane[h]` how far its collection is, `post[h]`
the snapshot on its way, `stored[h]` the one in `app_config`, `echoed` the history of
pings that were answered. Times are ages up to one beyond `TTL`. Actions:
`ReadPeers`, `ReadDetails`, `Ping`, `NoTargets`, `PostLost`, `Store`, `HeartbeatOf`,
`FallsSilent`, `RemoveHost`, `Reconfigure`, `MapTick`. `Targets`, `Directions` and
`Health` are the pure functions of `services/server_map.py` over stored snapshots.

### AgentUpdate, AddressChange

A file is what it contains and whether it loads. `me` is the script the service
starts, `staged` and `backup` the files next to it.

| Code | Actions |
|---|---|
| `check_update`; the backend redeployed meanwhile | `CheckUpdate`; `Deploy` |
| `_download_and_restart`, line by line | `Download`, `DownloadFails`, `Stage`, `Written`, `Validate`, `Copy`, `Compare`, `Replace`, `Exec` |
| its except and finally branches | `GivesUpEarly`, `PutsBack`, `CannotPutBack` |
| power and service manager; `install.sh` | `CrashAgent`, `RestartService`; `MoveInstaller` |
| `_run_ip_change` | `DelOld`, `AddNew`, `Recover`, `DelRoute`, `AddRoute`, `TryPing`; the way back `TakeBackNew`, `GiveOld`, `Reroute` |
| `_detect_persist_backend`, `_persist_ip`, one command or file operation at a time | `SetAddress`, `SetGateway`; `Truncate`, `Rewrite` for networkd; `NoBackend`, `ApplyBoot` |
| the machine | `AgentKilled`, `Boots` |

A command of `AddressChange` may work, be refused (its exit status is not looked at,
except netplan's when the address is set) or time out, whether or not it had its
effect. `net` is what the kernel has, `boot` what the backend would set up at the next
boot, `asked` what the task says and which backend there is. Whether the ping is
answered is a choice whatever `net` is: after refused commands the old network answers,
and a ping that cannot use the interface goes out over any other.

### AppSwap, TwoNodeRelease

`box` are the containers with their names, `job` the script's position and ids,
`receipt` what it reported, `proven` the history of containers that ran under the
stable name when a script began. The
three scripts differ in the order of their commands (`Plan`), in how they undo
(`Undo`, `NormalizeUndo`) and in their receipts (`Receipts`); the commands are the
same actions. A container made gets the id next to the last one used (`Unused`). A
command may fail before it acts or after (`Do`); the script may die (`ScriptDies`).

`TwoNodeRelease` has two halves. `script` is the pipeline:

| Code | Actions |
|---|---|
| `orchestrate`: the pipeline starts, probes both nodes, decides who is next | `Start`, `Probe`, `Probed`, `Fails` |
| the SSH call of a release; its answer; 600 seconds or a broken connection | `Call`, `Answered`, `Forsake` |
| `Node.execute` and `Node.release` on the node, under the host's lock | `Enter`, `StopPrior`, `StartTarget`, `Commit`; undone by `TakeAway`, `GiveBack` |
| the process or its machine; the operator; the database | `Dies`; `Repair`; `Failover` |

`remote[n]` is the release that runs on node `n`, with the roles it was given, the
application it found and whether a pipeline still awaits it. It goes on when its call is
given up (`Forsake`); the next pipeline may start at once, as a probe takes no lock. Only
a call to the node where it runs is refused. `overlap` remembers that the last pipeline
began beside such a release. What `AppSwap` details between two looks at the roles is one
step here, with or without its effect.

### EdgeDeploy, PublicAssets

`vhost` is the file, `loaded` what nginx runs, `releases` the directories,
`txs` the transactions, `good` the last vhost that was checked. `apply` is `Apply`,
`InstallRelease`, `CopyFails`, `Withdrawn`, `Collect`, `Prepare`, `WriteVhost`,
`Reload`, `Verified`, with its except branch `Raises`, `Restore`, `Revive`;
`rollback` is `Rollback`, `RollbackReload`, `RolledBack`. `Killed` may happen
anywhere, `NginxStarts` and `EditByHand` between any two.

`bundles` and `stages` are directories named by what they contain. `Build` publishes
a bundle, `VerifyAll` and `Publish` are the halves of `stage`, `Abandon` its
failure, `InstallStage` follows `verify-stage`; `SpoilBundle` and `SpoilStage` change
what is on disk between them.

## 3. The runs

| Run | Instance | Shows |
|---|---|---|
| `dispatch_iperf` | 2 tests of one link, 2 workers, 2 nodes; 1.2 million states | `NoRedelivery`, `ServerFirst`, `DoneWasRun`, and `Implements`: every step is one `TaskContract` allows |
| `dispatch_jobs` | 1 speedtest, 2 jobs of three kinds, 1 row kept, fairness; 321 000 states | `TypeOK` (with the size of the tables), `Implements` when rows are trimmed under polls and handlers; `EventuallySettled`: the slot is freed though agents may be gone for good |
| `nodes_drain` | 2 samples, queue of 2, or 1 uninstall request, 2 threads, fairness; 93 000 states | `Drains`: queued samples get through or are given up |
| `requests` | codes, sessions, OIDC; and one node: 4 samples, queue of 2, or 2 uninstall requests, 2 threads; 685 000 states | `WithinBudget`, `CodesHonoured` (refines `CodeContract`), `TokenOnce`, `DeadStaysDead`, `AdminHolds`, `GrantsKept`; `ReportsTypeOK` (with the bound of the queue), `ToldOncePerAsk`, and `Delivers`: every step is one `ReportContract` allows |
| `content` | tree, text, imports, attachments, pictures, blob cache, backgrounds; 778 000 states | `MovesKeepTree`, `TextsKept`, `ImportedOnce`, `UploadedOnce`, `PicturesShown`, `CacheKept`, `MediaHonest` |
| `operations` | monitors, alerts, integrations, website saves, fairness; 385 000 states | `AgentConverges`, `SocketsEnd`, `WebsitesKept` |
| `hosts` | map, update, address, swap, release, edge, assets; 772 000 states | `GreenIsTwoSided`, `AgentSurvives`, `GoodIsKept`, `ReceiptTrue`, `StandbyFirst`, `EdgeKept`, `UrlsKept` |
| `dispatch_exclusive` | as `dispatch_iperf` | finding: `AtMostOneActive` fails |
| `alerts_lost` | 1 rule, debounce 2 | finding: `FiresAfterDebounce` fails |
| `accounts_verified` | codes and the profile change | finding: `VerifiedWasProven` fails |
| `content_lift` | as `content` | finding: `NoCycle` fails once deletes lift children |
| `release_overlaps` | 2 pipelines, no failover | finding: `Serialized` fails |

Four of the runs over several components also check the conjunction of their type
invariants (`AccountsTypeOK`, ...), some of whose conjuncts relate state: that the
counters of the proxy equal the requests in it, that whoever is inside a section
holds its lock.

### What the properties say

* `NoRedelivery`, `ServerFirst`, `DoneWasRun`: what a reply an agent still waits for
  contains was never handed out before; no client before its server; done only if
  run. `TypeOK` of the dispatcher: the table of speed tests never exceeds KEEP, the
  commands only by the trims that are due, though store and trim are two commits
  that several requests interleave. `ToldOncePerAsk`: one uninstall instruction per
  request.
* `WithinBudget`: no five minutes see more wrong guesses or more codes than allowed,
  whatever requests race. `CodesHonoured`: an effect takes the newest open code of its
  purpose and address and closes it.
* `TokenOnce`, `DeadStaysDead`, `AdminHolds`: a refresh token is exchanged once; a
  session revoked or expired is never alive again; while an administrative request
  runs, the protection it was judged by stands.
* `GrantsKept`: a code becomes an access token at most once, and what is stored stays
  until it expires or is exchanged.
* `MovesKeepTree`: no page below itself, as long as no delete lifted children.
  `TextsKept`: a text is replaced only by a device that has read exactly it, and going
  back to a version loses neither text. `ImportedOnce`, `UploadedOnce`: repeats store
  nothing twice (uploads with a key in the shared store; with plain files the key is
  ignored). `PicturesShown` (pictures in the database; plain files have no such
  lock): every picture of the history has its bytes.
* `CacheKept`: the cache with the fill under way never exceeds its share, and nothing
  is removed under a reader. `MediaHonest`: one conversion of a source at a time, and
  "missing" is said only when nothing is queued, under way or done.
* `AgentConverges`: when edits end, the agent probes exactly the stored monitors,
  although bumps get lost, the counter may go back, and a list may be older than its
  counter. `SocketsEnd`: a
  socket whose grant, module or login ended is closed. `WebsitesKept`: retries of one
  create make one website, and a save replaces only the website it has read.
* `GreenIsTwoSided`: a healthy link was measured, recently, from both ends.
  `AgentSurvives`: a script that loads is always in place, and the running one is there
  or in a backup. `GoodIsKept`, `ReceiptTrue`: a container that ran under the stable
  name when a script began is never removed, on the test host except for a newer one
  that serves, and receipts are true; of a replacement that passed its check in a script
  that rolled back nothing is said, its undo removes it. `StandbyFirst`: a release changes
  a node only while the other one serves, and the primary only after the other has the
  new application, also when the pipeline has given it up; that is so for pipelines
  begun when no earlier release is still running, and finding 5 shows that they may begin
  before.
  `EdgeKept`: the vhost is the last good one or a transaction can bring it back, and
  every mapped release is there. `UrlsKept`: no served URL changes or disappears.

### Bounds

Two workers (callers, threads, editors, readers, savers) are the least that
interleave; no handler waits for more than one other and every lock has one holder.
Two tests are the least for the admission to refuse one; `dispatch_iperf` keeps both.
`dispatch_jobs` keeps one row: the second command trims the first, under whatever poll
or report has read it. Four samples over a queue of two fill it, overflow it with
an answer on its way, and overflow it again. Two uninstall requests suffice for a poll
of the first to be answered during the second. Two codes and attempts, one delivery,
and a window of one tick, reach every limit and let a code outlive its window. Three
tokens let a rotated token be rotated and presented again; three versions of the
protection let it change under a request twice. Three documents make the smallest
cycle that a lift can close beside a move. Three cached objects of sizes 1, 2, 2 over
a share of 3 make eviction, refusal and a fill that needs two victims happen. Two
replicas compete for a conversion; four pictures over a history of two fall out of it
under two uploads. Three edits let a bump be lost and two bumps publish one number.
Two hosts and three keys give a pair, an unknown peer and a key announced twice. Three
releases of the agent and two troubles let an update fail, be interrupted and meet an
installer. Three attempts at a swap meet the leftovers of two earlier ones. Three
versions of a site, two of which publish one URL with different bytes, and two
transactions cover a deployment, a refused one and a roll-back; two operators meet at
the lock of the edge. Two pipelines, one of them given up, meet on two nodes while the
database changes its primary twice.

State constraints: `FewPosts` (two reports under way, a late first one and its retry;
reports of the server role nobody awaits are forgotten, they change nothing),
`FewRequests` (with more than two rows only one worker serves), `OneConcern` (samples
or uninstall requests, not both: they share the row only). `dispatch_jobs` checks its
liveness property under `FewRequests` and `nodes_drain` under `OneConcern`, so only on
behaviours that stay within it. `MaxStreak` stops counting bad looks one beyond the
largest debounce. All `Max...` constants bound what may happen in one behaviour.

Workers, addresses, and documents with threads are interchangeable; `dispatch_iperf`,
`requests` and `content` use them as symmetry sets. No run with a liveness property
does.

**Deadlock** is checked except in `content`, `content_lift`, `operations`, `hosts` and
`release_overlaps`, where behaviours really end: a release is over, every id is used, a session that ended is not replaced.

### Fairness

* `dispatch_jobs`: an accepted request is served to its end (weak fairness of
  `Serve(w)`: a thread of the pool is not suspended for ever); somebody keeps opening
  the task list and an active row is some day older than its limit (strong fairness of
  a `View` that sweeps it: the page polls while it is open, and the sweep is its first
  statement). Agents get no fairness at all.
* `nodes_drain`: the agent's loop and its time-outs (weak fairness of `Sample` and
  `GiveUpPost`: every second, after ten seconds); serving as above; and a network and a
  database tried infinitely often work infinitely often (strong fairness of `Post` and
  of each stage of a request the agent still waits for). Without the last no protocol
  delivers anything.
* `operations`, monitors: the agent's loop asks every minute and the backend
  answers (weak fairness of `Refresh`, `ReadList`, `ReadVersion`), and requests do not
  fail for ever (strong fairness of `Adopt`). The administrator, the bumps and the
  restarts get none.
* `operations`, sockets: `watch_session` is a task of the event loop that runs every
  few seconds whatever the socket does (weak fairness of `Watch(v)`).

## 4. The proofs

`TaskDispatchProofs` proves, for any set of nodes, workers, ids and orders and any
number of kept rows, from the named assumptions of `TaskDispatch` (ids are
numbers, orders are well formed, the null values are not members):

| Theorem | States |
|---|---|
| `TypeCorrect` | `[]TypeOK`, with it the size of the tables |
| `InvariantHolds` | the inductive invariant |
| `NothingTwice` | `[]NoRedelivery` |
| `ServerGoesFirst` | `[]ServerFirst` |
| `OneTestPending` | `[]OnePending` |
| `DoneMeansRun` | `[]DoneWasRun` |
| `Refines` | `Spec => Implements`, step by step |

`NoRedelivery` is not inductive: that a reply contains nothing handed before
depends on what made the roles look unclaimed. The invariant adds that a poll
collects existing rows of its own node (`PollsSound`); that an agent waits for at
most one poll, its own, and that its batch was handed and not started
(`LanesSound`); that what was handed out never looks unclaimed again, because
`started` is never reset and nothing becomes pending twice (`HandedSound`); that a
report is of something started (`RanSound`); that the admission lock is held
exactly between count and insert, and nothing is pending while it is
(`LockSound`); and that ids are allocated in order (`IdsInOrder`). Each action
has a lemma; the contract is implemented by the refinement mapping `Offer`,
`handed`, `ran`. That the tables stay small is inductive by itself once they are
finite (`Finite`): what a trim leaves of any finite set of ids is `Keep` of them at most
(`NewestKept`, by the least id left), and no other step adds a row (`RowsShrink`).

`NodeReportsProofs` proves, for any number of workers, samples and requests and any
queue size above zero (`SizesAssumption`):

| Theorem | States |
|---|---|
| `TypeCorrect` | `[]ReportsTypeOK`, with it the bound of the deque |
| `InvariantHolds` | the inductive invariant |
| `ToldOnce` | `[]ToldOncePerAsk` |
| `Refines` | `Spec => Delivers`, step by step |

Even `ReportsTypeOK` is not inductive: that `InsertPart` writes a row of a real sample depends
on the handler's earlier stages. The invariant adds that what a handler carries was
taken, is no younger than anything queued, and has the parts inserted so far in the
database (`CarriedSound`); that nothing queued is older than anything in the
database (`StoredSound`); that the tasks lane awaits a request of its own kind or
none (`LaneSound`); and that an instruction which may still reach an agent, in the
row, in the hands of the awaited poll or on its way back, was asked for and not told
yet (`Budget`). A claim that nobody awaits any more is not counted: it is lost. For
`Refines`, `Fate` maps the queue and the tables to the contract: an `InsertPart`
completes the oldest held sample or one given up before (`InsertStores`), `Reply`
pops what is stored (`ReplyPops`), and a full queue that forgets a sample still
held is entirely held (`SampleTakes`).

`AccountsProofs`, for any number of workers, callers, sessions, tokens, grants,
servers and codes and any limits and lifetimes that fit the assumptions:

| Theorem | States |
|---|---|
| `BudgetHolds` | `[]WithinBudget` |
| `CodesAreHonoured` | `EmailSpec => CodesHonoured`, step by step |
| `CodesAreTyped`, `SessionsTyped`, `GrantsTyped` | the type invariant of each part |
| `TokensAreSpentOnce`, `ProtectionHolds` | `[]TokenOnce`, `[]AdminHolds` |
| `NoResurrection`, `GrantsAreKept` | `DeadStaysDead`, `GrantsKept` |
| `AccountsTypeCorrect` | `[]AccountsTypeOK`, whichever part moves |

*Codes* (`CodesInv`). `WithinBudget` speaks of histories the code does not keep.
What makes it true is that the budget row, pruned at every use, remembers exactly the
part of the history inside the window (`Remembered`); a code or a guess is admitted
against the pruned list, so the list stays within its limit and the history with it. That
pruning again, later, loses nothing it had kept is the lemma `OnlyAgain` on
filtered sequences. For the refinement of `CodeContract`, a request that is about to
apply an effect holds the lock under which it matched the code (`EffectsEarned`), and
no two slots name one code (`SlotsApart`): so the code is still the open one, and
spending it closes it for every purpose.

*Sessions* (`SessionInv`). `TokenOnce` needs `TokensFresh` (the current tokens are
distinct, none was exchanged, no token is from later) and, for a rotation between its
read and its commit, `LocksHeld`: it has the row and the token it replaces is the
row's. `AdminHolds` and the uniqueness of the account need `LocksHeld` for the safe:
whoever is inside a section has the advisory lock. `Roomy` bounds the grants, which
needs the cardinality lemmas on what `unlock` keeps.

*OpenID provider* (`OidcInv`), with crashes anywhere. Every code is in one place
(`OnePlace`: with the server that creates it, in the document, with the server that
exchanges it, or spent), nothing is known of codes not created (`Unborn`), and what the
holder of the lock has copied differs from the document only by what expired
(`CopySound`). The last is why writing the whole copy back overwrites nobody, also if
the clock moved since.

`ContentProofs`, for any pages, threads, devices, importers, files, pictures, sources
and objects:

| Theorem | States |
|---|---|
| `MovesSafe`, `TreeTypeCorrect` | `[]MovesKeepTree`; the types of the tree |
| `NoTextLost` | `TextsKept` |
| `OnceImported`, `OnceUploaded` | `[]ImportedOnce`, `[]UploadedOnce` |
| `PicturesStayShown` | `[]PicturesShown` |
| `MediaStaysHonest` | `[]MediaHonest` |
| `RoomIsKept` | `[]CacheKept` |
| `ContentTypeCorrect` | `[]ContentTypeOK`, whichever part moves |

*Tree* (`TreeInv`). That a tree stays a tree is not inductive: what makes the
update of a move safe is the walk it made, during which other requests trash,
restore and purge. `WalkSound` says that no set of pages which would be a loop once the
move is written, or would run into one (`Walled`), has been passed by the walk; when
the walk reaches the top there is none. It needs that one request at a time moves and
has its row (`MoversSound`) and that the foreign key holds (`RowsSound`). With a delete
that lifts children the theorem's premise is false, and the run `content_lift` shows
why it has to be there.

*Texts* (`TextInv`): a device whose base is the current one has the current text
(`BaseTells`), so the comparison of versions under the row lock is a comparison of
texts. *Imports* (`ImportsInv`): two importers of one
kind are not inside at the same time (`ImportersApart`), while a flat import goes on no page of its
path is there (`PathFree`), otherwise one at most (`OnePage`), and the receipt of an
archive tells whether it was unpacked (`ReceiptTells`). *Attachments*
(`FilesInv`): what a key has made is what its receipt names (`MadeHasReceipt`); a key
is in the hands of one upload (`KeysApart`) and has no receipt while it is
(`KeysOpen`). *Pictures* (`PicturesInv`): with the database lock one sender is under
way (`OneSender`), and the history it read is still stored (`PastKept`).
*Backgrounds* (`MediaInv`): a replica has the file lock of all it has queued or is
admitting and queues nothing twice, a request that answers holds the lock of its source,
and "missing" is read under it (`LocksKept`). *Blob cache* (`CacheInv`): what is on the shelf and
the fill under way cost at most the cap at every stage, from the look through the
evictions to the write, and what a reader has pinned is there (`RoomKept`); the holder
of the global lock is the one who looks, evicts, fills or pins (`LeasesTyped`).
`CostOf` is a sum over a set, a fold the provers cannot unfold by induction; the lemmas `CostUnfolds`, `CostAdds` and
`CostShrinks` get what is needed of it from its defining equation and facts on finite
sets.

`OperationsProofs`, for any monitors, editors, agents' rules, modules, visitors and
saves:

| Theorem | States |
|---|---|
| `WebsitesAreKept` | `WebsitesKept` |
| `CountersAreExact` | the dispatcher's counters are the requests and sockets under way |
| `MonitorsTyped` | the types of the monitors |
| `OperationsTypeCorrect` | `[]OperationsTypeOK`, whichever part moves |

That the published version is bounded by the edits is not inductive for editors that
read and raise it without a lock: `BumpsBounded` counts the editors between their two
steps as well. `KnownCreated` says that agents and results know created monitors only.
The counters of the proxy (`CountersTrue`) are cardinalities of the visitors inside,
per module and in all, and each way out of a request, the failures included, gives
back what the way in took. `WebsitesKept` needs what is remembered of the saves to be
consistent (`EntriesSound`: an entry names the website its key made, no two name
different ones under one key) and a save under way to know its content
(`SaversSound`).

`HostsProofs`, for any number of hosts, keys, releases, attempts, nodes' failovers,
operators, transactions and stages:

| Theorem | States |
|---|---|
| `GreenIsAlwaysTwoSided` | `[]GreenIsTwoSided` |
| `AgentAlwaysSurvives` | `[]AgentSurvives` |
| `ServingIsKept`, `ReceiptsAreTrue` | `[]GoodIsKept`, `[]ReceiptTrue` |
| `StandbyIsFirst` | `StandbyFirst` |
| `EdgeIsKept` | `[]EdgeKept` |
| `UrlsAreKept`, `AssetsTypeCorrect` | `UrlsKept`; the types of the stages |
| `HostsTypeCorrect` | `[]HostsTypeOK`, whichever part moves |

*Map* (`MapInv`): a probe that found a peer well is no younger than the answer it had
(`ReadingSound`), on its way and as stored. *Update* (`UpdateInv`): at each file operation
what is put in place has been loaded and the way back loads too (`FilesSound`), and the
running script is at its place or in a backup unless an installer is at work
(`RunningKept`). *Address*: the types only. *Release*
(`ReleaseInv`), with the assumption in the property that the pipeline began beside no
earlier release: a pipeline waits for one release at most, the one it called (`Awaited`),
and knows the roles when it calls (`MainKnown`); then what it has seen still holds: a
node it reported done serves the new application, one it probed serves, before a release
both do (`ScriptSound`); so a release, awaited or given up, runs alone and in the right
order (`RemoteSound`), and what it is about to commit serves (`StartedServes`).
*Edge* (`EdgeInv`): the good vhost is in place or in a transaction
that the roll-back accepts (`WayBack`), every release that a vhost maps is there
(`ServeAll`), and each deployment knows what it has written (`ProcessSound`).
*Assets* (`AssetsInv`): the versions of a stage agree and contain those of the stage it
continues (`StagesSound`), and what is installed was published (`InstallSound`).

*Swap* (`SwapInv`) is the largest. `BoxesFit` says which ports and states go with
which names: at most one container is the stable one, backups and failed ones are down,
a candidate was never found serving. A script under way knows its old container
and the ones it made (`KnowsOld`, `KnowsNew`); `Forward` and `Backward` say what holds
before each command of the script and of its undoing, so that a command which fails,
acts and fails, or is the last before the script dies leaves the old container where
the undoing, or the operator's next attempt, finds it. `FoundStay` is `GoodIsKept` for the time between. A
first attempt at the proof failed for a reason: in an earlier form of the model the ids
had a gap after a removed candidate. They are now taken next to the last one used
(`Unused`), so that a larger id is a newer container.

**Compositions.** In a behaviour of `MCAccounts`, `MCContent`, `MCOperations` or
`MCHosts` one part moves and the others keep their initial states, so the conjunction
of the parts' invariants (`AccountsInv`, `ContentInv`, `OperationsInv`, `HostsInv`) is
inductive, and with it the runs' type invariants are proved.

**Lemmas on data.** `CollectionLemmas` has the facts on finite sequences and sets that
several proofs cite: what appending, concatenating, beheading and filtering do to the
elements, their number and their order. Induction theorems with an operator parameter
cannot be instantiated here; where an argument goes along the numbers
(`RanksReached`, `Growing`) it is stated of a set of numbers and takes the least one
outside it (`WFMin`). `Only(s, S)` in `Subsequences` stands for the
comprehensions with a filter; `MCAccounts` evaluates `OnlySelects`, that it is what
`SelectSeq` gives.

**Assumptions.** They are named in the module that declares the constants, and the
runs evaluate them on their instances: bounds and limits are natural numbers, a value
that stands for "none" is no member of its set, costs are positive, a production
system has two nodes. `GoneAssumption` has no constant in it: it says that a string is
not one of the records for containers, which TLA+ leaves open.

**Only model-checked**: `EventuallySettled`, `Drains`, `AgentConverges` and
`SocketsEnd`, which are liveness properties; the prover reaches neither fairness nor
ENABLED. All other properties of the passing runs are stated by a theorem.

## 5. Findings and observations

### Findings

Each is a run that TLC refutes; `PROJECT.json` quotes the lines.

1. *Two speed tests are active at once* (`dispatch_exclusive`). A poll reads pending
   rows without a lock and writes `running` at its commit; a test cancelled or swept
   in between comes back to life beside one admitted meanwhile. `OneTestPending`
   proves that the admission lock itself is right.
2. *No alert fires with the default debounce* (`alerts_lost`). Nothing commits the
   evaluation, so the count never grows; with debounce 1 the push is repeated at every
   look and nothing of it is saved.
3. *An address counts as verified that nobody proved* (`accounts_verified`). A
   profile change reads the account before the old address is verified; setting
   `email_verified` to the value the row had when read writes nothing, so the new
   address keeps the old one's verification.
4. *A page hangs below itself* (`content_lift`). A delete that lifts children takes
   neither lock of a move and writes the parent it read.
5. *Two releases overlap* (`release_overlaps`). The pipeline gives a call up, the
   release on the node goes on, and the next pipeline finds both nodes healthy and releases
   the other one: both may have stopped their application.

### Observations

Outcomes the code leaves possible; where a doc or comment speaks of one, it is named.
The models contain the steps unless marked (*read*).

Tasks and nodes

* A poll that claims a job or an uninstall and is never answered leaves it `running`;
  only speed tests have a watchdog. A running component row is then returned instead
  of a new one being queued, and that look-up is not locked against the insert.
* A heartbeat that read the row before a removal commits over it: the node is back. A
  late uninstall result also returns a removed node.
* `finish_uninstall` marks the node offline at once because the agent sends no heartbeat
  any more (`services/node.py:121`). But the agent reports its removal before its script,
  which sleeps three seconds, stops it (`stella_agent.py:1752-1760`): a heartbeat handled
  in between makes the node online and managed again.
* `mark_offline_stale` has no caller (*read*); offline is computed on reading.
* Probe results that arrive out of order overwrite a newer status.

Accounts

* The first key of the OpenID provider may be generated twice when keys are files
  and two processes start together (*read*).

Content

* Purging a page whose children are in the bin stops at the foreign key; a purge that
  races a restore removes a live page.
* Racing saves may leave the links of the older text; a draft may be stored after the
  save it belongs to. `descendants_of` would not end on a cycle.
* A quick record may land below a folder just put in the bin; a restore may leave two
  inboxes.
* With plain files, a process that stops between the file and the row leaves an
  attachment without a row, and two uploads of a profile picture may remove one
  another's.
* Backgrounds: a GET that holds the lock for a moment can make a POST return without
  scheduling (compare `homebg_media.py:5`); two GETs may tell each other "processing";
  smaller versions and sidecars of removed files stay; a file without an entry in the
  index stays. A failing temporary directory in `pg_optimize` keeps a slot (*read*).
* `ws.py`: a client that disconnects while `broadcast` awaits its send removes the key
  of the page; the look-up at line 43 then raises `KeyError`, the delivery task ends,
  and `_worker_started` keeps it from being started again (*read*).

Operations

* Website targets are never deleted, so the limit of 128 is reached some day (*read*);
  `patch_module` may change what a site is while an active injection stays.

Hosts and scripts

* The agent checks for an update only when its lanes are idle, so one that is always
  busy may never update (`scheduler.idle()`); `.stella-rollback-*` files of an
  interrupted update stay.
* The address change ignores exit codes, so a task may succeed though nothing was
  changed, and the ping may be answered over the old network; a time-out of `ip route`
  raises without the way back, and an agent killed during the change leaves the machine
  as it is until it boots.
* After a silent ping the agent adds the default route of the task once more
  (`stella_agent.py:3224`); it never read the one it deleted. The design takes the
  gateway back like the address (`docs/19-防火墙与IP模块-方案设计.md:154`).
* The copies that `_persist_ip` makes are read by nobody: a configuration half written
  when something raises stays, and the task ends as success. The design restores the
  original (the same document, line 205).
* A `docker create` that acts and then fails leaves a namesake, and the roll-back
  reports "blocked" with no application running. Whether Docker restarts a container
  by itself is not modelled.
* When the second node's SSH call has no answer and the first one was "unchanged", the
  receipt says "rolledback".
* A `.stage-*` directory left by a killed deployment blocks the next ones. `nginx -T`
  shows the files, not what the running nginx loaded. `stage` reads bytes again after
  it verified them; `verify-stage` is what makes it safe.

## 6. What is left

1. *Proofs*: an abstract specification for the parts that have none, as
   `CodeContract` is for the codes, and the detailed one proved to implement it: first
   the swap of containers (one serving application, replaced or not) and the blob cache.
   Liveness stays with TLC.
2. *Larger instances*: three workers for the dispatcher and the codes, a second
   monitor and a second node for `MonitorConfig`, samples and uninstall requests in
   one behaviour.
3. *Modes*: backgrounds in PostgreSQL; display overrides and injection versions of a
   website save; the counter of wrong administrator passwords.
4. *New modules*: the broadcast of `ws.py`, the migration of websites, the gallery
   and drive handlers if they grow protocols of their own.

## 7. What is not modelled

* *Live updates over WebSocket*: display only, nothing persistent depends on them.
* *High availability state*: reads the role of PostgreSQL and refuses writes on a
  standby; failover is done by external software. Its locked row is in `OidcGrants`.
* *Website checks, connections, migration, policy*: probing of addresses and rules of
  headers, input and output without state. `WebsiteSaves` sees a check as a request
  that takes long and may be refused.
* *Service settings, OpenList and Immich adapters*: documents written as a whole and
  calls to other services.
* *Drive, gallery, timeline, tags, search*: handlers over single rows.
* *Metrics and operations status*: formatting of values read elsewhere.
* *Rehearsal writer of releases* (`release.py`): a mock; the scripts that run in
  production are modelled.
* *Host operations, agent installation*: installers on the backend's own machine; the
  part of `install.sh` that writes the agent's script is in `AgentUpdate`.
* *Web frontend*: appears as the requests it sends.

In the modelled components: validation of input, wording, mail, hashing and
signatures, subprocess handling, formats of files, reads that only display, live
progress of mtr and iperf runs, the node the backend installs on its own machine, the
favourites and node links of pages.
