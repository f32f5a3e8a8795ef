---------------------------- MODULE MonitorConfig ----------------------------
(***************************************************************************)
(* Monitors and how they reach the agent of one node: services/monitor.py, *)
(* repositories/monitor.py and config.py, GET /agent/config, and the       *)
(* agent's refresh_config, _apply_monitors and run_due_probes.             *)
(*                                                                         *)
(* An edit commits the row first and then raises a counter it read without *)
(* a lock.  The agent is told the counter with every heartbeat, and reads  *)
(* list and counter one after the other.                                   *)
(***************************************************************************)
EXTENDS Naturals, FiniteSets

CONSTANTS
  Mons, Targets,
  Editors,       \* requests of the administrator at the same time
  MaxEdits,      \* bound: edits and restarts of the agent
  MaxProbes,     \* bound: probes; also their time stamps
  New, Gone, Elsewhere

ASSUME MonitorAssumption ==
  /\ MaxEdits \in Nat /\ MaxProbes \in Nat
  /\ Cardinality({New, Gone, Elsewhere}) = 3 /\ {New, Gone, Elsewhere} \cap Targets = {}

VARIABLES
  rows,     \* monitor -> what it probes, New, Gone, or Elsewhere: another node's
  counter,  \* monitors_version in app_config; 0: no such row
  editing,  \* editor -> how far its bump is, and the counter it read
  edits,
  held,     \* the agent: [version, mons]
  fetch,    \* its GET /agent/config: [at, version, mons]
  checks,   \* monitor -> time stamps in monitor_checks
  last,     \* monitor -> last_check_at, 0 for none
  results,  \* probe results on their way: [mon, ts, at]
  clock

configVars == <<rows, counter, editing, edits, held, fetch>>
checkVars == <<checks, last, results, clock>>
monitorVars == <<configVars, checkVars>>

Nothing == [m \in {} |-> Gone]
NoBump == [at |-> "none", seen |-> 0]
NoFetch == [at |-> "none", version |-> 0, mons |-> Nothing]
Unset == [version |-> 0, mons |-> Nothing]
Shown(table) == [m \in {k \in Mons : table[k] \in Targets} |-> table[m]]
Existing(m) == rows[m] \notin {New, Gone}

MonitorInit ==
  /\ rows = [m \in Mons |-> New] /\ counter = 0
  /\ editing = [e \in Editors |-> NoBump] /\ edits = 0
  /\ held = Unset /\ fetch = NoFetch
  /\ checks = [m \in Mons |-> {}] /\ last = [m \in Mons |-> 0]
  /\ results = {} /\ clock = 0

-----------------------------------------------------------------------------
\* create, update and remove commit a monitor; the bump is still to come.
Saves(e) ==
  /\ editing[e] = NoBump /\ edits < MaxEdits
  /\ editing' = [editing EXCEPT ![e].at = "saved"]
  /\ edits' = edits + 1
  /\ UNCHANGED <<counter, held, fetch, results, clock>>

CreateMonitor(e, m, t) ==
  /\ rows[m] = New /\ Saves(e)
  /\ rows' = [rows EXCEPT ![m] = t]
  /\ UNCHANGED <<checks, last>>

UpdateMonitor(e, m, t) ==
  /\ Existing(m) /\ rows[m] # t /\ Saves(e)
  /\ rows' = [rows EXCEPT ![m] = t]
  /\ UNCHANGED <<checks, last>>

RemoveMonitor(e, m) ==
  /\ Existing(m) /\ Saves(e)
  /\ rows' = [rows EXCEPT ![m] = Gone]
  /\ checks' = [checks EXCEPT ![m] = {}]
  /\ last' = [last EXCEPT ![m] = 0]

ReadCounter(e) ==
  /\ editing[e].at = "saved"
  /\ editing' = [editing EXCEPT ![e] = [at |-> "read", seen |-> counter]]
  /\ UNCHANGED <<rows, counter, edits, held, fetch, checkVars>>

\* An edit that saw no row looks for it again: it overwrites the row that is there
\* by now, or inserts one, which fails if another edit was faster.
PutCounter(e) ==
  /\ editing[e].at = "read"
  /\ \/ counter' = editing[e].seen + 1
     \/ editing[e].seen = 0 /\ counter # 0 /\ counter' = counter
  /\ editing' = [editing EXCEPT ![e] = NoBump]
  /\ UNCHANGED <<rows, edits, held, fetch, checkVars>>

\* The backend stops: the row is committed, the counter is not raised.
BumpLost(e) ==
  /\ editing[e].at # "none"
  /\ editing' = [editing EXCEPT ![e] = NoBump]
  /\ UNCHANGED <<rows, counter, edits, held, fetch, checkVars>>

-----------------------------------------------------------------------------
\* The main loop asks every minute, and at once when a heartbeat is answered
\* with another counter than the agent's.
Refresh ==
  /\ fetch.at = "none"
  /\ fetch' = [NoFetch EXCEPT !.at = "asked"]
  /\ UNCHANGED <<rows, counter, editing, edits, held, checkVars>>

ReadList ==
  /\ fetch.at = "asked"
  /\ fetch' = [fetch EXCEPT !.at = "listed", !.mons = Shown(rows)]
  /\ UNCHANGED <<rows, counter, editing, edits, held, checkVars>>

ReadVersion ==
  /\ fetch.at = "listed"
  /\ fetch' = [fetch EXCEPT !.at = "answered", !.version = counter]
  /\ UNCHANGED <<rows, counter, editing, edits, held, checkVars>>

\* _apply_monitors: new ones are added, known ones updated, the others dropped.
AppliedKeeping == [m \in DOMAIN fetch.mons \cup DOMAIN held.mons |->
                     IF m \in DOMAIN fetch.mons THEN fetch.mons[m] ELSE held.mons[m]]
Applied == fetch.mons

Adopt ==
  /\ fetch.at = "answered"
  /\ held' = [version |-> fetch.version, mons |-> Applied]
  /\ fetch' = NoFetch
  /\ UNCHANGED <<rows, counter, editing, edits, checkVars>>

\* No answer, or one that cannot be used; the reads changed nothing.
FetchFails ==
  /\ fetch.at = "answered"
  /\ fetch' = NoFetch
  /\ UNCHANGED <<rows, counter, editing, edits, held, checkVars>>

AgentRestarts ==
  /\ edits < MaxEdits /\ edits' = edits + 1
  /\ held' = Unset /\ fetch' = NoFetch
  /\ UNCHANGED <<rows, counter, editing, checkVars>>

-----------------------------------------------------------------------------
\* run_due_probes posts one result after the other, but one whose post timed
\* out may be served after its successor.
Probe(m) ==
  /\ m \in DOMAIN held.mons /\ clock < MaxProbes
  /\ clock' = clock + 1
  /\ results' = results \cup {[mon |-> m, ts |-> clock + 1, at |-> "sent"]}
  /\ UNCHANGED <<configVars, checks, last>>

Forward(r, at) == results' = (results \ {r}) \cup {[r EXCEPT !.at = at]}

\* agent_monitor_check: 404 for a monitor that is gone or of another node.
LookUp(r) ==
  /\ r.at = "sent"
  /\ IF rows[r.mon] \in Targets THEN Forward(r, "found") ELSE results' = results \ {r}
  /\ UNCHANGED <<configVars, checks, last, clock>>

\* insert_check: the foreign key refuses a row of a removed monitor.
InsertCheck(r) ==
  /\ r.at = "found"
  /\ IF Existing(r.mon)
     THEN /\ Forward(r, "stored") /\ checks' = [checks EXCEPT ![r.mon] = @ \cup {r.ts}]
     ELSE /\ results' = results \ {r} /\ checks' = checks
  /\ UNCHANGED <<configVars, last, clock>>

\* update_last_result: an UPDATE by id, whatever is newer, a no-op on no row.
UpdatableAlways(m) == TRUE  \* the row outlives the removal
Updatable(m) == Existing(m)
UpdateLast(r) ==
  /\ r.at = "stored"
  /\ last' = IF Updatable(r.mon) THEN [last EXCEPT ![r.mon] = r.ts] ELSE last
  /\ results' = results \ {r}
  /\ UNCHANGED <<configVars, checks, clock>>

ResultLost(r) ==
  /\ results' = results \ {r}
  /\ UNCHANGED <<configVars, checks, last, clock>>

-----------------------------------------------------------------------------
Edit(e) ==
  \/ \E m \in Mons, t \in Targets \cup {Elsewhere} : UpdateMonitor(e, m, t)
  \/ \E m \in Mons, t \in Targets \cup {Elsewhere} : CreateMonitor(e, m, t)
  \/ \E m \in Mons : RemoveMonitor(e, m)

MonitorNext ==
  \/ \E e \in Editors : Edit(e) \/ ReadCounter(e) \/ PutCounter(e) \/ BumpLost(e)
  \/ Refresh \/ ReadList \/ ReadVersion \/ Adopt \/ FetchFails \/ AgentRestarts
  \/ \E m \in Mons : Probe(m)
  \/ \E r \in results : LookUp(r) \/ InsertCheck(r) \/ UpdateLast(r) \/ ResultLost(r)

\* The loop of the agent goes on, and its requests do not fail for ever.
MonitorFairness ==
  /\ WF_monitorVars(Refresh) /\ WF_monitorVars(ReadList) /\ WF_monitorVars(ReadVersion)
  /\ SF_monitorVars(Adopt)

MonitorSpec == MonitorInit /\ [][MonitorNext]_monitorVars
FairMonitorSpec == MonitorSpec /\ MonitorFairness

-----------------------------------------------------------------------------
Lists == UNION {[S -> Targets] : S \in SUBSET Mons}
\* Every variable has its type, and the last check a monitor shows is one of its
\* history, whatever late results meet its removal.
MonitorTypeOK ==
  /\ rows \in [Mons -> Targets \cup {New, Gone, Elsewhere}]
  /\ counter \in 0 .. MaxEdits /\ edits \in 0 .. MaxEdits
  /\ editing \in [Editors -> [at : {"none", "saved", "read"}, seen : 0 .. MaxEdits]]
  /\ held \in [version : 0 .. MaxEdits, mons : Lists]
  /\ fetch \in [at : {"none", "asked", "listed", "answered"}, version : 0 .. MaxEdits, mons : Lists]
  /\ checks \in [Mons -> SUBSET (1 .. MaxProbes)] /\ last \in [Mons -> 0 .. MaxProbes]
  /\ results \subseteq [mon : Mons, ts : 1 .. MaxProbes, at : {"sent", "found", "stored"}]
  /\ clock \in 0 .. MaxProbes
  /\ \A m \in Mons : last[m] # 0 => last[m] \in checks[m]

\* Once the administrator stops, the agent ends up probing exactly the monitors
\* of its node, although bumps get lost, the counter may go back and a list may
\* be older than the counter that came with it.
AgentConverges == <>[](held.mons = Shown(rows))
=============================================================================
