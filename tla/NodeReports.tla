---------------------------- MODULE NodeReports ----------------------------
(***************************************************************************)
(* One managed node: its row in the nodes table, the agent that reports    *)
(* for it, and the life of that agent from installation to uninstall.      *)
(*                                                                         *)
(* Every report is a heartbeat.  Its handler reads the row, and commits    *)
(* three times: the row, the traffic samples, the system samples.  The ORM *)
(* writes only the columns it changed, so what a handler does not write    *)
(* keeps what others wrote meanwhile, and what it writes overwrites it.    *)
(* A request may be answered late, twice (the agent sends it again) or     *)
(* never; a handler may die between two of its commits.                    *)
(***************************************************************************)
EXTENDS Naturals, FiniteSets

CONSTANTS Threads,    \* threads of the backend that serve requests
          MaxSamples, \* bound: samples followed, numbered in the order taken
          QueueMax,   \* QUEUE_MAX, 24 hours of samples in the code
          MaxAsks,    \* bound: uninstall requests of the administrator
          NoThread

ASSUME SizesAssumption == /\ MaxSamples \in Nat /\ QueueMax \in Nat \ {0} /\ MaxAsks \in Nat
                          /\ NoThread \notin Threads

VARIABLES node,     \* the row: status, uninstall_status, installed
          metrics,  \* node_metrics ("net") and node_sys_metrics ("sys")
          service,  \* the process: "absent", "running", "leaving" (script started)
          taken,    \* samples taken so far
          queue,    \* the deque of samples to send; its order is that of their numbers
          draining, \* the main thread is in the loop of report()
          sending,  \* worker whose answer that loop awaits
          errand,   \* the tasks lane, as far as uninstalling goes
          call,     \* the request each worker serves
          asks,     \* history: accepted uninstall requests
          told      \* history: uninstall instructions an agent received

process == <<service, queue, draining, sending, errand>>
history == <<taken, asks, told>>
reportsVars == <<node, metrics, process, call, history>>

NoSample == 0
Samples == 1..MaxSamples
Parts == {"net", "sys"}
AgentUp == service # "absent"

Rows == [status : {"pending", "online", "offline", "removed"},
         uninstall : {"none", "pending", "running", "done", "failed"},
         installed : BOOLEAN]
NewNode == [status |-> "pending", uninstall |-> "none", installed |-> FALSE]

\* A request: its stage, the sample of a report, the columns its handler has
\* changed and not committed yet, the result an agent sends after uninstalling.
Columns == {"status", "uninstall", "installed"}
NewCall(o, s, res) == [op |-> o, sample |-> s, dirty |-> {}, result |-> res]
Plain(o) == NewCall(o, NoSample, "none")
IdleThread == Plain("idle")
ReportOps == {"report", "beat", "net", "sys", "reply"}
PollOps == {"poll", "claim", "tell"}
ResultOps == {"result", "offline", "unmanaged", "ack"}
Calls == [op : {"idle", "ask"} \cup ReportOps \cup PollOps \cup ResultOps,
             sample : Samples \cup {NoSample}, dirty : SUBSET Columns,
             result : {"none", "done", "failed"}]

AtWork(step, w) == [step |-> step, wait |-> w]
LaneAtRest == AtWork("idle", NoThread)
\* "done" and "failed": about to report it; "posting ...": awaiting the answer.
Lanes == [step : {"idle", "polling", "told", "done", "failed", "posting done", "posting failed"},
          wait : Threads \cup {NoThread}]

ReportsTypeOK ==
    /\ node \in Rows
    /\ metrics \subseteq Samples \X Parts
    /\ service \in {"absent", "running", "leaving"}
    /\ taken \in 0..MaxSamples
    /\ queue \subseteq Samples /\ Cardinality(queue) <= QueueMax
    /\ draining \in BOOLEAN
    /\ sending \in Threads \cup {NoThread}
    /\ errand \in Lanes
    /\ call \in [Threads -> Calls]
    /\ asks \in Nat /\ told \in Nat

\* The node was added and its agent is not installed yet.
ReportsInit ==
    /\ node = NewNode
    /\ metrics = {}
    /\ service = "absent"
    /\ taken = 0
    /\ queue = {}
    /\ draining = FALSE
    /\ sending = NoThread
    /\ errand = LaneAtRest
    /\ call = [w \in Threads |-> IdleThread]
    /\ asks = 0
    /\ told = 0

Free(w) == call[w].op = "idle"
Advance(w, o) == call' = [call EXCEPT ![w].op = o]
Accept(w, r) == Free(w) /\ call' = [call EXCEPT ![w] = r]
Over(w) == call' = [call EXCEPT ![w] = IdleThread]

-----------------------------------------------------------------------------
(* The agent's main thread: sampling and the store-and-forward queue.       *)

Newest(Q) == CHOOSE s \in Q : \A u \in Q : u <= s
Oldest(Q) == CHOOSE s \in Q : \A u \in Q : s <= u
\* deque(maxlen = QueueMax).append
AppendedAlways(Q, s) == Q \cup {s}
Appended(Q, s) == IF Cardinality(Q) < QueueMax THEN Q \cup {s}
                  ELSE (Q \ {Oldest(Q)}) \cup {s}

\* report(): what was sampled joins the queue, then the queue is sent. Samples
\* beyond MaxSamples are not followed, but taking them still sends the queue.
Sample ==
    /\ AgentUp /\ ~draining /\ draining' = TRUE
    /\ \/ /\ taken < MaxSamples
          /\ taken' = taken + 1
          /\ queue' = Appended(queue, taken + 1)
       \/ /\ taken = MaxSamples /\ queue # {}
          /\ UNCHANGED <<taken, queue>>
    /\ UNCHANGED <<node, metrics, service, sending, errand, call, asks, told>>

Post(w) ==
    /\ draining /\ queue # {} /\ sending = NoThread /\ sending' = w
    /\ Accept(w, NewCall("report", Oldest(queue), "none"))
    /\ UNCHANGED <<node, metrics, service, queue, draining, errand, history>>

\* The first report of a process and the map lane: a heartbeat without samples,
\* whose answer nobody looks at.
Beat(w) ==
    /\ AgentUp
    /\ Accept(w, Plain("report"))
    /\ UNCHANGED <<node, metrics, process, history>>

\* A timeout, a refused or broken connection.
GiveUpPost ==
    /\ sending # NoThread
    /\ sending' = NoThread /\ draining' = FALSE
    /\ UNCHANGED <<node, metrics, service, queue, errand, call, history>>

\* What an answer other than 2xx, from w, does to the main thread.
Refused(w) == IF sending = w THEN sending' = NoThread /\ draining' = FALSE
              ELSE UNCHANGED <<sending, draining>>

-----------------------------------------------------------------------------
(* handle_report.                                                           *)

\* heartbeat: a column is written only where the row, as read, asks for it.
ToWrite(row) ==
    {c \in Columns : \/ c = "status" /\ row.status # "online"
                     \/ c = "uninstall" /\ row.uninstall \in {"done", "failed"}
                     \/ c = "installed" /\ ~row.installed}

Read(w) ==
    /\ call[w].op = "report"
    /\ \/ /\ node.status # "removed"
          /\ call' = [call EXCEPT ![w].op = "beat", ![w].dirty = ToWrite(node)]
          /\ UNCHANGED <<draining, sending>>
       \/ /\ node.status = "removed"
          /\ Over(w) /\ Refused(w)
    /\ UNCHANGED <<node, metrics, service, queue, errand, history>>

Beaten(D) == [status |-> IF "status" \in D THEN "online" ELSE node.status,
              uninstall |-> IF "uninstall" \in D THEN "none" ELSE node.uninstall,
              installed |-> node.installed \/ "installed" \in D]

CommitBeat(w) ==
    /\ call[w].op = "beat"
    /\ node' = Beaten(call[w].dirty)
    /\ call' = [call EXCEPT ![w] = IF @.sample = NoSample THEN IdleThread
                                       ELSE NewCall("net", @.sample, "none")]
    /\ UNCHANGED <<metrics, process, history>>

\* INSERT ... ON CONFLICT DO NOTHING, twice.
InsertPart(w, part) ==
    /\ call[w].op = part
    /\ metrics' = metrics \cup {<<call[w].sample, part>>}
    /\ Advance(w, IF part = "net" THEN "sys" ELSE "reply")
    /\ UNCHANGED <<node, process, history>>

\* The sample leaves the queue when, and only when, its answer arrives.
Unpopped(s) == queue
Popped(s) == queue \ {s}

Reply(w) ==
    /\ call[w].op = "reply"
    /\ Over(w)
    /\ IF sending = w THEN /\ queue' = Popped(call[w].sample)
                           /\ draining' = (queue' # {})
                           /\ sending' = NoThread
                      ELSE UNCHANGED <<queue, draining, sending>>
    /\ UNCHANGED <<node, metrics, service, errand, history>>

-----------------------------------------------------------------------------
(* Uninstalling: asked for by the administrator, carried by a poll.         *)

AskUninstall(w) ==
    /\ asks < MaxAsks
    /\ node.status # "removed" /\ node.uninstall \notin {"pending", "running"}
    /\ Accept(w, Plain("ask"))
    /\ UNCHANGED <<node, metrics, process, history>>

CommitAsk(w) ==
    /\ call[w].op = "ask"
    /\ node' = [node EXCEPT !.uninstall = "pending"]
    /\ Over(w)
    /\ asks' = asks + 1
    /\ UNCHANGED <<metrics, process, taken, told>>

PollUninstall(w) ==
    /\ AgentUp /\ errand = LaneAtRest /\ errand' = AtWork("polling", w)
    /\ Accept(w, Plain("poll"))
    /\ UNCHANGED <<node, metrics, service, queue, draining, sending, history>>

\* The lane's request to w ended without the answer it hoped for. The report of
\* a success that fails is followed by the report of a failure.
Missed == IF errand.step = "posting done" THEN AtWork("failed", NoThread) ELSE LaneAtRest
MissedBy(w) == IF errand.wait = w THEN Missed ELSE errand

ClaimableAlways == node.status # "removed" /\ node.uninstall \in {"pending", "running"}
Claimable == node.status # "removed" /\ node.uninstall = "pending"

\* poll_tasks: without an instruction to claim the poll only hands out tasks.
ReadPoll(w) ==
    /\ call[w].op = "poll"
    /\ \/ Claimable /\ Advance(w, "claim") /\ UNCHANGED errand
       \/ ~Claimable /\ Over(w) /\ errand' = MissedBy(w)
    /\ UNCHANGED <<node, metrics, service, queue, draining, sending, history>>

CommitClaim(w) ==
    /\ call[w].op = "claim"
    /\ node' = [node EXCEPT !.uninstall = "running"]
    /\ Advance(w, "tell")
    /\ UNCHANGED <<metrics, process, history>>

Tell(w) ==
    /\ call[w].op = "tell"
    /\ Over(w)
    /\ IF errand.wait = w THEN errand' = AtWork("told", NoThread) /\ told' = told + 1
                        ELSE UNCHANGED <<errand, told>>
    /\ UNCHANGED <<node, metrics, service, queue, draining, sending, taken, asks>>

\* _run_uninstall starts a script that stops the service seconds later, or cannot.
Launch ==
    /\ errand.step = "told"
    /\ \/ service' = "leaving" /\ errand' = AtWork("done", NoThread)
       \/ service' = service /\ errand' = AtWork("failed", NoThread)
    /\ UNCHANGED <<node, metrics, queue, draining, sending, call, history>>

PostResult(w) ==
    /\ errand.step \in {"done", "failed"}
    /\ errand' = AtWork(IF errand.step = "done" THEN "posting done" ELSE "posting failed", w)
    /\ Accept(w, NewCall("result", NoSample, errand.step))
    /\ UNCHANGED <<node, metrics, service, queue, draining, sending, history>>

LaneGivesUp ==
    /\ errand.wait # NoThread /\ errand' = Missed
    /\ UNCHANGED <<node, metrics, service, queue, draining, sending, call, history>>

\* finish_uninstall: three commits, and no look at whether the node was removed.
CommitResult(w) ==
    /\ call[w].op = "result"
    /\ node' = [node EXCEPT !.uninstall = call[w].result]
    /\ Advance(w, IF call[w].result = "done" THEN "offline" ELSE "ack")
    /\ UNCHANGED <<metrics, process, history>>

CommitOffline(w) ==
    /\ call[w].op = "offline"
    /\ node' = [node EXCEPT !.status = "offline"]
    /\ Advance(w, "unmanaged")
    /\ UNCHANGED <<metrics, process, history>>

CommitUnmanaged(w) ==
    /\ call[w].op = "unmanaged"
    /\ node' = [node EXCEPT !.installed = FALSE]
    /\ Advance(w, "ack")
    /\ UNCHANGED <<metrics, process, history>>

Ack(w) ==
    /\ call[w].op = "ack"
    /\ Over(w)
    /\ errand' = IF errand.wait = w THEN LaneAtRest ELSE errand
    /\ UNCHANGED <<node, metrics, service, queue, draining, sending, history>>

-----------------------------------------------------------------------------
(* The rest of the world.                                                   *)

RemoveNode ==
    /\ node.status # "removed"
    /\ node' = [node EXCEPT !.status = "removed"]
    /\ UNCHANGED <<metrics, process, call, history>>

\* A new process knows nothing of the old one.
Afresh(a) == /\ service' = a
             /\ queue' = {} /\ draining' = FALSE /\ sending' = NoThread /\ errand' = LaneAtRest
             /\ UNCHANGED <<node, metrics, call, history>>

Install == service = "absent" /\ Afresh("running")
RestartAgent == service = "running" /\ Afresh("running")
AgentLeaves == service = "leaving" /\ Afresh("absent")

\* The script could not stop the service.
Survive ==
    /\ service = "leaving" /\ service' = "running"
    /\ UNCHANGED <<node, metrics, queue, draining, sending, errand, call, history>>

\* An exception or the end of the backend process; whoever waits notices.
Die(w) ==
    /\ ~Free(w) /\ Over(w) /\ Refused(w)
    /\ errand' = MissedBy(w)
    /\ UNCHANGED <<node, metrics, service, queue, history>>

Handle(w) ==
    \/ Read(w) \/ CommitBeat(w) \/ InsertPart(w, "net") \/ InsertPart(w, "sys") \/ Reply(w)
    \/ CommitAsk(w) \/ ReadPoll(w) \/ CommitClaim(w) \/ Tell(w)
    \/ CommitResult(w) \/ CommitOffline(w) \/ CommitUnmanaged(w) \/ Ack(w)
Send(w) == Post(w) \/ Beat(w) \/ AskUninstall(w) \/ PollUninstall(w) \/ PostResult(w)

ReportsNext ==
    \/ \E w \in Threads : Send(w) \/ Handle(w) \/ Die(w)
    \/ Sample \/ GiveUpPost \/ Launch \/ LaneGivesUp
    \/ RemoveNode \/ Install \/ RestartAgent \/ AgentLeaves \/ Survive

ReportsSpec == ReportsInit /\ [][ReportsNext]_reportsVars

\* For the liveness of reporting: the main thread and the backend keep working,
\* and a network and a database that are tried for ever work now and then.
InTime(o) == \E w \in Threads : Handle(w) /\ call[w].op = o /\ sending = w
ReportsFairness ==
    /\ WF_reportsVars(Sample) /\ WF_reportsVars(GiveUpPost)
    /\ WF_reportsVars(\E w \in Threads : Handle(w))
    /\ SF_reportsVars(\E w \in Threads : Post(w))
    /\ \A o \in ReportOps : SF_reportsVars(InTime(o))
FairReportsSpec == ReportsSpec /\ ReportsFairness

\* Bound for TLC: a behaviour takes samples or lets the administrator ask for an
\* uninstall, not both: they share the row of the node only.
OneConcern == taken = 0 \/ asks = 0

-----------------------------------------------------------------------------
(* Properties.                                                              *)

Fate == [s \in Samples |-> IF {s} \X Parts \subseteq metrics THEN "stored"
                           ELSE IF s > taken THEN "future"
                           ELSE IF s \in queue THEN "held" ELSE "lost"]

\* Store and forward, with requests answered late, repeated or half done: samples
\* reach the database oldest first, only a full queue or the end of the process
\* gives one up, and the head leaves the queue only once all of it is stored.
Forwarding == INSTANCE ReportContract WITH
    Samples <- Samples, Capacity <- QueueMax, fate <- Fate
Delivers == Forwarding!Spec

\* However many requests and handlers fail, a queued sample is stored in the end,
\* unless the agent gives it up or its node is removed.
Drains == \A s \in Samples : (Fate[s] = "held") ~> (Fate[s] # "held" \/ node.status = "removed")

\* Agents are told to uninstall themselves at most once for each accepted
\* request, whatever polls overlap, time out or are answered late.
ToldOncePerAsk == told <= asks
=============================================================================
