---------------------------- MODULE TaskDispatch ----------------------------
(***************************************************************************)
(* The task board of StellaHaven: speed tests (iperf3 between two nodes,   *)
(* or a public speedtest) and agent jobs (mtr, commands, component         *)
(* installs, network changes).                                             *)
(*                                                                         *)
(* Rows live in PostgreSQL at READ COMMITTED.  A request handler that      *)
(* reads rows and writes them back through the ORM is TWO steps here: a    *)
(* read that remembers which rows it is about to write, and a commit that  *)
(* writes `WHERE id = ...` whatever the rows hold by then.  A handler that *)
(* holds SELECT ... FOR UPDATE until its commit is one step.               *)
(***************************************************************************)
EXTENDS Naturals, FiniteSets

CONSTANTS Nodes,      \* machines that run an agent
          Workers,    \* threads of all backend processes that serve requests
          IperfIds,   \* ids of the iperf_tasks table (bound on speed tests)
          JobIds,     \* ids of the job tables (bound on jobs)
          Orders,     \* the tasks people ask for, see WellFormed
          Keep,       \* rows kept per table: KEEP, 100 in the code
          NoNode, NoWorker, NoItem

ASSUME IdsAssumption == /\ IperfIds \subseteq Nat
                        /\ JobIds \subseteq Nat
                        /\ IperfIds \cap JobIds = {}

\* iperf3 runs between two different nodes, everything else on one node.
\* "command" stands for mtr_tasks and agent_commands, whose agent code posts one
\* report; "install" for component_tasks and net_tasks, which retry the report
\* and are never trimmed.
ASSUME OrdersAssumption ==
    \A o \in Orders :
       \/ /\ o \in [kind : {"iperf3"}, server : Nodes, client : Nodes]
          /\ o.server # o.client
       \/ o \in [kind : {"speedtest", "command", "install"}, server : {NoNode}, client : Nodes]
ASSUME KeepAssumption == Keep \in Nat \ {0}
ASSUME NullAssumption == /\ NoNode \notin Nodes
                         /\ NoWorker \notin Workers
                         /\ NoItem \notin (IperfIds \cup JobIds) \X {"server", "client"}

VARIABLES order,     \* what was asked for: kind, server node, client node
          status,    \* the status column, "unborn" before and "deleted" after the row
          started,   \* server_started: the server agent was told to run iperf3 -s
          admission, \* holder of the advisory lock of repo.create_iperf
          req,       \* the request each worker is serving
          agent,     \* the "tasks" lane of each node's agent
          posts,     \* result reports sent by agents and not handled yet
          handed,    \* history: <<task, role>> pairs delivered to an agent
          ran        \* history: <<task, role>> pairs an agent has started

vars == <<order, status, started, admission, req, agent, posts, handed, ran>>
rows == <<order, status, started>>

Tasks == IperfIds \cup JobIds
Items == Tasks \X {"server", "client"}

NoOrder == [kind |-> "none", server |-> NoNode, client |-> NoNode]
IperfOrders == {o \in Orders : o.kind \in {"iperf3", "speedtest"}}
JobOrders == Orders \ IperfOrders

Active == {"pending", "running"}
Terminal == {"done", "failed", "cancelled"}
Statuses == Active \cup Terminal \cup {"unborn", "deleted"}

Exists(t) == status[t] \in Active \cup Terminal
FreshReused(S) == {t \in S : ~Exists(t) /\ \A u \in S : ~Exists(u) => t <= u}
Fresh(S) == {t \in S : /\ status[t] = "unborn"
                       /\ \A u \in S : status[u] = "unborn" => t <= u}

\* The rows of the tables that are trimmed: speed tests, and mtr or command jobs.
Tests == {t \in IperfIds : Exists(t)}
Commands == {t \in JobIds : Exists(t) /\ order[t].kind = "command"}

\* trim_old: the rows of S beyond the Keep newest ids.
TrimmedLate(S) == {t \in S : Cardinality({u \in S : u > t}) > Keep}
Trimmed(S) == {t \in S : Cardinality({u \in S : u > t}) >= Keep}
Delete(st, S) == [t \in Tasks |-> IF t \in S THEN "deleted" ELSE st[t]]

-----------------------------------------------------------------------------
(* Requests.  srv and hit are the rows a handler has read and will write.   *)

Request(o, S) == [op |-> o, node |-> NoNode, srv |-> {}, hit |-> S]
Idle == Request("idle", {})
Requests == [op : {"idle", "poll", "view", "create", "admit", "insert", "trim", "cancel"},
             node : Nodes \cup {NoNode}, srv : SUBSET Tasks, hit : SUBSET Tasks]
Writing(w, o, S) == req' = [req EXCEPT ![w] = Request(o, S)]
Doing(w, o) == Writing(w, o, {})

Claims(w) == (req[w].srv \X {"server"}) \cup (req[w].hit \X {"client"})
RowsPresent(w) == \A t \in req[w].srv \cup req[w].hit : Exists(t)
Become(S, s) == [t \in Tasks |-> IF t \in S THEN s ELSE status[t]]

(* The agent.  wait is the worker whose poll reply it awaits.               *)
At(l, batch, i) == [lane |-> l, wait |-> NoWorker, batch |-> batch, item |-> i]
AtRest == At("idle", {}, NoItem)
NextUp(batch) == IF batch = {} THEN AtRest ELSE At("ready", batch, NoItem)
Executing == {"running", "first", "second"}
Agents == [lane : {"idle", "polling", "ready"} \cup Executing,
           wait : Workers \cup {NoWorker}, batch : SUBSET Items, item : Items \cup {NoItem}]
Reports == [item : Items, out : {"done", "failed"}, try : {1, 2}]

Typed ==
    /\ order \in [Tasks -> Orders \cup {NoOrder}]
    /\ status \in [Tasks -> Statuses]
    /\ started \in [Tasks -> BOOLEAN]
    /\ admission \in Workers \cup {NoWorker}
    /\ req \in [Workers -> Requests]
    /\ agent \in [Nodes -> Agents]
    /\ \A n \in Nodes : agent[n].lane \in Executing => agent[n].item # NoItem
    /\ posts \subseteq Reports
    /\ handed \subseteq Items
    /\ ran \subseteq Items

\* A create request that has stored its command and not trimmed the table yet.
Trimming == {w \in Workers : req[w].op = "trim"}

\* The types, and the size of the tables: a speed test is stored and its table
\* trimmed by one commit; the commands may exceed KEEP by one row for each request
\* that is between its two commits, in whatever order these run (create_iperf,
\* create_mtr and create_command of repositories/task.py around trim_old).
TypeOK ==
    /\ Typed
    /\ Cardinality(Tests) <= Keep
    /\ Cardinality(Commands) <= Keep + Cardinality(Trimming)

Init ==
    /\ order = [t \in Tasks |-> NoOrder]
    /\ status = [t \in Tasks |-> "unborn"]
    /\ started = [t \in Tasks |-> FALSE]
    /\ admission = NoWorker
    /\ req = [w \in Workers |-> Idle]
    /\ agent = [n \in Nodes |-> AtRest]
    /\ posts = {}
    /\ handed = {}
    /\ ran = {}

-----------------------------------------------------------------------------
(* The watchdog.  It has no thread: every list, detail and create request  *)
(* starts with it.  The clock is not modelled: which of the sweepable rows *)
(* are older than their limit (started_at or created_at) is any subset.    *)

SweepablePending == {t \in IperfIds : status[t] = "pending"}
Sweepable == {t \in IperfIds : status[t] \in Active}

\* A list or a detail request; one that finds nothing stale leaves no trace.
View(w, S) ==
    /\ req[w].op = "idle" /\ S # {} /\ S \subseteq Sweepable
    /\ Writing(w, "view", S)
    /\ UNCHANGED <<rows, admission, agent, posts, handed, ran>>

CommitSweep(w) ==
    /\ req[w].op \in {"view", "create"} /\ RowsPresent(w)
    /\ status' = Become(req[w].hit, "failed")
    /\ Doing(w, IF req[w].op = "view" THEN "idle" ELSE "admit")
    /\ UNCHANGED <<order, started, admission, agent, posts, handed, ran>>

-----------------------------------------------------------------------------
(* Queueing a task.                                                        *)

\* The sweep first; without a stale row there is nothing to commit.
Create(w) ==
    /\ req[w].op = "idle"
    /\ \/ Doing(w, "admit")
       \/ \E S \in (SUBSET Sweepable) \ {{}} : Writing(w, "create", S)
    /\ UNCHANGED <<rows, admission, agent, posts, handed, ran>>

\* A node is offline, the server is not public, or another test is active.
Refuse(w) == /\ req[w].op = "admit"
             /\ Doing(w, "idle")
             /\ UNCHANGED <<rows, admission, agent, posts, handed, ran>>

LockFreeSkipped == TRUE
LockFree == admission = NoWorker

\* The advisory lock is taken and no active row is counted under it.
Admit(w) == /\ req[w].op = "admit"
            /\ LockFree
            /\ \A t \in IperfIds : status[t] \notin Active
            /\ Fresh(IperfIds) # {}          \* bound: ids left to allocate
            /\ admission' = w
            /\ Doing(w, "insert")
            /\ UNCHANGED <<rows, agent, posts, handed, ran>>

\* A pending row, the trim of the table, the commit that ends the advisory lock.
Insert(w, o) ==
    /\ req[w].op = "insert"
    /\ \E t \in Fresh(IperfIds) :
          /\ order' = [order EXCEPT ![t] = o]
          /\ status' = Delete([status EXCEPT ![t] = "pending"],
                              Trimmed(Tests \cup {t}))
    /\ admission' = NoWorker
    /\ Doing(w, "idle")
    /\ UNCHANGED <<started, agent, posts, handed, ran>>

\* Jobs need no admission.  mtr and command rows are trimmed by a second commit.
CreateJob(w, o) ==
    /\ req[w].op = "idle"
    /\ \E t \in Fresh(JobIds) : /\ order' = [order EXCEPT ![t] = o]
                                /\ status' = [status EXCEPT ![t] = "pending"]
    /\ Doing(w, IF o.kind = "command" THEN "trim" ELSE "idle")
    /\ UNCHANGED <<started, admission, agent, posts, handed, ran>>

TrimJobs(w) ==
    /\ req[w].op = "trim"
    /\ status' = Delete(status, Trimmed(Commands))
    /\ Doing(w, "idle")
    /\ UNCHANGED <<order, started, admission, agent, posts, handed, ran>>

-----------------------------------------------------------------------------
(* Cancelling a speed test: no row lock between the check and the write.    *)

ReadCancel(w, t) ==
    /\ req[w].op = "idle"
    /\ t \in IperfIds /\ status[t] \in Active
    /\ Writing(w, "cancel", {t})
    /\ UNCHANGED <<rows, admission, agent, posts, handed, ran>>

CommitCancel(w) ==
    /\ req[w].op = "cancel" /\ RowsPresent(w)
    /\ status' = Become(req[w].hit, "cancelled")
    /\ Doing(w, "idle")
    /\ UNCHANGED <<order, started, admission, agent, posts, handed, ran>>

-----------------------------------------------------------------------------
(* Polling: an agent claims what is waiting for its node.                   *)

ServerClaims(n) ==
    {t \in IperfIds : order[t].server = n /\ status[t] \in Active /\ ~started[t]}
ClientClaimsActive(n) ==
    {t \in Tasks : /\ order[t].client = n /\ status[t] \in Active
                   /\ order[t].kind = "iperf3" => started[t]}
ClientClaimsEager(n) ==
    {t \in Tasks : order[t].client = n /\ status[t] = "pending"}
ClientClaims(n) ==
    {t \in Tasks : /\ order[t].client = n /\ status[t] = "pending"
                   /\ order[t].kind = "iperf3" => started[t]}

\* A poll that finds nothing leaves no trace.
Poll(w, n) ==
    /\ req[w].op = "idle" /\ agent[n].lane = "idle"
    /\ ServerClaims(n) \cup ClientClaims(n) # {}
    /\ req' = [req EXCEPT ![w] = [op |-> "poll", node |-> n, srv |-> ServerClaims(n),
                                  hit |-> ClientClaims(n)]]
    /\ agent' = [agent EXCEPT ![n] = [lane |-> "polling", wait |-> w,
                                        batch |-> {}, item |-> NoItem]]
    /\ UNCHANGED <<rows, admission, posts, handed, ran>>

\* The claims are written whether or not the agent still waits for the reply.
CommitPoll(w) ==
    LET n == req[w].node IN
    /\ req[w].op = "poll" /\ RowsPresent(w)
    /\ status' = Become(req[w].hit, "running")
    /\ started' = [t \in Tasks |-> started[t] \/ t \in req[w].srv]
    /\ IF agent[n].wait = w
       THEN /\ agent' = [agent EXCEPT ![n] = NextUp(Claims(w))]
            /\ handed' = handed \cup Claims(w)
       ELSE UNCHANGED <<agent, handed>>
    /\ Doing(w, "idle")
    /\ UNCHANGED <<order, admission, posts, ran>>

\* A row read by the handler was trimmed before its UPDATE: the request ends in
\* a 500.  One missing row rolls everything back; among several the driver does
\* not count them, and the rows that are left are written.
Vanished(w) ==
    /\ req[w].op \in {"poll", "view", "create", "cancel"} /\ ~RowsPresent(w)
    /\ \E kept \in {{}, {t \in req[w].srv \cup req[w].hit : Exists(t)}} :
          /\ status' = Become(req[w].hit \cap kept,
                              CASE req[w].op = "poll" -> "running"
                                [] req[w].op = "cancel" -> "cancelled"
                                [] OTHER -> "failed")
          /\ started' = [t \in Tasks |-> started[t] \/ t \in req[w].srv \cap kept]
    /\ agent' = [n \in Nodes |-> IF agent[n].wait = w THEN AtRest ELSE agent[n]]
    /\ Doing(w, "idle")
    /\ UNCHANGED <<order, admission, posts, handed, ran>>

\* Ten seconds without an answer, or a connection error: the claims are lost.
GiveUp(n) == /\ agent[n].lane = "polling"
             /\ agent' = [agent EXCEPT ![n] = AtRest]
             /\ UNCHANGED <<rows, admission, req, posts, handed, ran>>

-----------------------------------------------------------------------------
(* Executing a batch, one item after the other, on one thread.              *)

Rank(i) == CASE order[i[1]].kind = "install" -> 4
             [] order[i[1]].kind = "command" -> 3
             [] OTHER -> IF i[2] = "server" THEN 1 ELSE 2
OneReport(i) == order[i[1]].kind = "command"
Runner(i) == IF i[2] = "server" THEN order[i[1]].server ELSE order[i[1]].client

Begin(n) ==
    /\ agent[n].lane = "ready"
    /\ \E i \in agent[n].batch :
          /\ \A j \in agent[n].batch : Rank(i) <= Rank(j)
          /\ agent' = [agent EXCEPT ![n] = At("running", agent[n].batch \ {i}, i)]
          /\ ran' = ran \cup {i}
    /\ UNCHANGED <<rows, admission, req, posts, handed>>

Report(n, out) ==
    /\ agent[n].lane = "running"
    /\ agent' = [agent EXCEPT ![n] = At("first", agent[n].batch, agent[n].item)]
    /\ posts' = posts \cup {[item |-> agent[n].item, out |-> out, try |-> 1]}
    /\ UNCHANGED <<rows, admission, req, handed, ran>>

\* What remains after the task raised or its report was not acknowledged: the
\* except branch posts "failed" once more; a second failure, and for a command
\* already the first, leaves poll_and_execute and drops the rest of the batch.
Retries(n) == ~OneReport(agent[n].item) /\ agent[n].lane # "second"
Afterwards(n) == IF Retries(n) THEN At("second", agent[n].batch, agent[n].item) ELSE AtRest
Repost(n) == IF Retries(n)
             THEN {[item |-> agent[n].item, out |-> "failed", try |-> 2]} ELSE {}

Raise(n) == /\ agent[n].lane \in Executing
            /\ agent' = [agent EXCEPT ![n] = Afterwards(n)]
            /\ posts' = posts \cup Repost(n)
            /\ UNCHANGED <<rows, admission, req, handed, ran>>

\* The agent process dies or is restarted: lane and batch are memory only.
Restart(n) == /\ agent[n].lane \notin {"idle", "polling"}
              /\ agent' = [agent EXCEPT ![n] = AtRest]
              /\ UNCHANGED <<rows, admission, req, posts, handed, ran>>

-----------------------------------------------------------------------------
(* Results: authorize_agent_task locks the row until the result commits.    *)

Accepted(m) ==
    LET t == m.item[1] IN
    \/ status[t] = "running"
    \/ m.item[2] = "server" /\ status[t] = "pending" /\ started[t]

\* The server role's result is acknowledged and changes nothing.
RecordsAnyRole(m) == Accepted(m)
Records(m) == Accepted(m) /\ m.item[2] = "client"

Awaits(n, m) == agent[n].item = m.item /\ agent[n].lane = (IF m.try = 1 THEN "first" ELSE "second")

HandleResult(m) ==
    LET t == m.item[1]
        n == Runner(m.item) IN
    /\ m \in posts
    /\ status' = IF Records(m)
                 THEN [status EXCEPT ![t] = m.out] ELSE status
    /\ IF ~Awaits(n, m)
       THEN posts' = posts \ {m} /\ UNCHANGED agent
       ELSE IF Accepted(m)
            THEN /\ agent' = [agent EXCEPT ![n] = NextUp(agent[n].batch)]
                 /\ posts' = posts \ {m}
            ELSE /\ agent' = [agent EXCEPT ![n] = Afterwards(n)]
                 /\ posts' = (posts \ {m}) \cup Repost(n)
    /\ UNCHANGED <<order, started, admission, req, handed, ran>>

-----------------------------------------------------------------------------
Serve(w) == \/ CommitSweep(w)
            \/ Refuse(w)
            \/ Admit(w)
            \/ \E o \in IperfOrders : Insert(w, o)
            \/ TrimJobs(w)
            \/ CommitCancel(w)
            \/ CommitPoll(w)
            \/ Vanished(w)

Next ==
    \/ \E w \in Workers : Serve(w)
    \/ \E w \in Workers, S \in SUBSET IperfIds : View(w, S)
    \/ \E w \in Workers : Create(w)
    \/ \E w \in Workers, o \in JobOrders : CreateJob(w, o)
    \/ \E w \in Workers, t \in IperfIds : ReadCancel(w, t)
    \/ \E w \in Workers, n \in Nodes : Poll(w, n)
    \/ \E n \in Nodes : GiveUp(n)
    \/ \E n \in Nodes : Begin(n)
    \/ \E n \in Nodes, out \in {"done", "failed"} : Report(n, out)
    \/ \E n \in Nodes : Raise(n)
    \/ \E n \in Nodes : Restart(n)
    \/ \E m \in posts : HandleResult(m)

Spec == Init /\ [][Next]_vars

(* A request that was accepted runs to its end; as long as somebody keeps  *)
(* opening the task list a free worker serves it, and a row that stays     *)
(* active is some day older than its limit.                                *)
Fairness == /\ \A w \in Workers : WF_vars(Serve(w))
            /\ \A t \in IperfIds :
                   SF_vars(\E w \in Workers, S \in SUBSET IperfIds : t \in S /\ View(w, S))
FairSpec == Spec /\ Fairness

-----------------------------------------------------------------------------
(* Properties.                                                             *)

\* A poll reply an agent still waits for contains nothing that any agent was
\* ever handed before: no lost reply, retry, restart or second backend worker
\* makes a command or a test run twice (poll_tasks against poll_and_execute).
NoRedelivery ==
    \A n \in Nodes : agent[n].lane = "polling" => Claims(agent[n].wait) \cap handed = {}

\* The client of an iperf3 test is claimed, held or run only once the server
\* node's poll has committed server_started: no client runs ahead of its server.
ServerFirst ==
    \A t \in IperfIds : order[t].kind = "iperf3" /\ <<t, "client">> \in handed => started[t]

\* Two admitted tests never wait side by side, whatever number of workers
\* serve create requests: the count and the insert share one advisory lock.
OnePending ==
    \A t, u \in IperfIds : status[t] = "pending" /\ status[u] = "pending" => t = u

\* "done" is never set for a test or a job whose client part nobody started:
\* in particular not by the report of the server role.
DoneWasRun == \A t \in Tasks : status[t] = "done" => <<t, "client">> \in ran

\* The offers of TaskContract in terms of the rows.
Offer == [t \in Tasks |-> CASE status[t] = "unborn" -> "none"
                            [] status[t] = "pending" -> "open"
                            [] OTHER -> "closed"]

Contract == INSTANCE TaskContract WITH
    Exclusive <- IperfIds,
    Roles <- {"server", "client"},
    offer <- Offer,
    taken <- handed,
    begun <- ran

\* Every step of the dispatcher is a step of the contract.
Implements == Contract!Spec

\* Every speed test leaves the active states for good, even when its agents
\* are lost or a delayed poll revives it: the watchdog frees the admission.
EventuallySettled == \A t \in IperfIds : <>[](status[t] \notin Active)

\* At most one speed test is pending or running (create_iperf says so).
AtMostOneActive ==
    \A t, u \in IperfIds : status[t] \in Active /\ status[u] \in Active => t = u
=============================================================================
