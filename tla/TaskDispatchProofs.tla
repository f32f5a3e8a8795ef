------------------------- MODULE TaskDispatchProofs -------------------------
(***************************************************************************)
(* The dispatcher's safety for any number of nodes, workers, tasks, kept   *)
(* rows and orders.  The argument: a poll only collects roles nobody was   *)
(* ever handed, each role belongs to one node, a node waits for one poll,  *)
(* and what is handed out can never look unclaimed again.                  *)
(***************************************************************************)
EXTENDS TaskDispatch, FiniteSetTheorems, WellFoundedInduction, TLAPS

\* The claims of a poll are rows of its node that exist and may be handed out.
PollsSound ==
    \A w \in Workers : req[w].op = "poll" =>
        /\ req[w].node \in Nodes
        /\ \A t \in req[w].srv : status[t] # "unborn" /\ order[t].server = req[w].node
        /\ \A t \in req[w].hit : /\ status[t] # "unborn"
                                 /\ order[t].client = req[w].node
                                 /\ order[t].kind = "iperf3" => started[t]

\* An agent waits for one poll of its own; the batch it holds is unstarted work
\* it was handed; the item it works on was started.
LanesSound ==
    \A n \in Nodes :
        /\ agent[n].lane = "polling" <=> agent[n].wait # NoWorker
        /\ agent[n].wait # NoWorker => /\ req[agent[n].wait].op = "poll"
                                       /\ req[agent[n].wait].node = n
        /\ \A i \in agent[n].batch : i \in handed /\ i \notin ran /\ Runner(i) = n
        /\ agent[n].lane \in Executing => agent[n].item \in ran

\* What was handed out never looks unclaimed again.
HandedSound ==
    \A i \in handed :
        /\ status[i[1]] # "unborn"
        /\ i[2] = "server" => started[i[1]]
        /\ i[2] = "client" => /\ status[i[1]] # "pending"
                              /\ order[i[1]].kind = "iperf3" => started[i[1]]

RanSound == ran \subseteq handed /\ \A m \in posts : m.item \in ran

\* The admission lock serialises count and insert.
LockSound ==
    /\ \A w \in Workers : req[w].op = "insert" <=> admission = w
    /\ admission # NoWorker => \A t \in IperfIds : status[t] # "pending"

\* Ids are allocated in order.
IdsInOrder ==
    \A t, u \in IperfIds : status[t] # "unborn" /\ status[u] = "unborn" => t < u

-----------------------------------------------------------------------------
LEMMA IdleType == Idle \in Requests
BY DEF Idle, Request, Requests

LEMMA AtRestType == AtRest \in Agents /\ AtRest.lane \notin Executing
BY DEF AtRest, At, Agents, Executing

LEMMA NextUpType ==
    ASSUME NEW b \in SUBSET Items
    PROVE  NextUp(b) \in Agents /\ NextUp(b).lane \notin Executing
BY AtRestType DEF NextUp, At, Agents, Executing

LEMMA BecomeType ==
    ASSUME Typed, NEW S, NEW s \in Statuses
    PROVE  Become(S, s) \in [Tasks -> Statuses]
BY DEF Become, Typed

LEMMA DeleteType ==
    ASSUME NEW st \in [Tasks -> Statuses], NEW S
    PROVE  Delete(st, S) \in [Tasks -> Statuses]
BY DEF Delete, Statuses

LEMMA DoingType ==
    ASSUME Typed, NEW w \in Workers, NEW S \in SUBSET Tasks,
           NEW o \in {"idle", "view", "create", "admit", "insert", "trim", "cancel"},
           Doing(w, o) \/ Writing(w, o, S)
    PROVE  req' \in [Workers -> Requests]
BY DEF Doing, Writing, Request, Typed, Requests

LEMMA TypeInit == Init => Typed
BY IdleType, AtRestType DEF Init, Typed, Statuses

LEMMA TypeStep == Typed /\ [Next]_vars => Typed'
<1> SUFFICES ASSUME Typed, [Next]_vars PROVE Typed'
  OBVIOUS
<1> USE DEF rows
<1>1. ASSUME NEW w \in Workers, CommitSweep(w) PROVE Typed'
  BY <1>1, BecomeType, DoingType DEF CommitSweep, Typed, Statuses, Terminal
<1>2. ASSUME NEW w \in Workers, Refuse(w) PROVE Typed'
  BY <1>2, DoingType DEF Refuse, Typed
<1>3. ASSUME NEW w \in Workers, Admit(w) PROVE Typed'
  BY <1>3, DoingType DEF Admit, Typed
<1>4. ASSUME NEW w \in Workers, NEW o \in IperfOrders, Insert(w, o) PROVE Typed'
  <2>1. PICK t \in Fresh(IperfIds) :
          /\ order' = [order EXCEPT ![t] = o]
          /\ status' = Delete([status EXCEPT ![t] = "pending"],
                              Trimmed(Tests \cup {t}))
    BY <1>4 DEF Insert
  <2>2. status' \in [Tasks -> Statuses]
    BY <2>1, DeleteType DEF Typed, Statuses, Active
  <2>3. order' \in [Tasks -> Orders \cup {NoOrder}]
    BY <2>1 DEF Typed, IperfOrders
  <2> QED BY <1>4, <2>2, <2>3, DoingType DEF Insert, Typed
<1>5. ASSUME NEW w \in Workers, TrimJobs(w) PROVE Typed'
  BY <1>5, DoingType, DeleteType DEF TrimJobs, Typed
<1>6. ASSUME NEW w \in Workers, CommitCancel(w) PROVE Typed'
  BY <1>6, BecomeType, DoingType DEF CommitCancel, Typed, Statuses, Terminal
<1>7. ASSUME NEW w \in Workers, CommitPoll(w) PROVE Typed'
  <2>1. Claims(w) \in SUBSET Items
    BY DEF Claims, Items, Typed, Requests
  <2>2. /\ agent' \in [Nodes -> Agents] /\ handed' \subseteq Items
        /\ \A n \in Nodes : agent'[n].lane \in Executing => agent'[n].item # NoItem
    BY <1>7, <2>1, NextUpType DEF CommitPoll, Typed
  <2> QED BY <1>7, <2>2, BecomeType, DoingType
          DEF CommitPoll, Typed, Statuses, Active
<1>8. ASSUME NEW w \in Workers, Vanished(w) PROVE Typed'
  <2>1. status' \in [Tasks -> Statuses] /\ started' \in [Tasks -> BOOLEAN]
    BY <1>8, BecomeType DEF Vanished, Typed, Statuses, Active, Terminal
  <2>2. /\ agent' \in [Nodes -> Agents]
        /\ \A n \in Nodes : agent'[n].lane \in Executing => agent'[n].item # NoItem
    BY <1>8, AtRestType DEF Vanished, Typed
  <2> QED BY <1>8, <2>1, <2>2, DoingType DEF Vanished, Typed
<1>9. ASSUME NEW w \in Workers, NEW S \in SUBSET IperfIds, View(w, S) PROVE Typed'
  BY <1>9, DoingType DEF View, Typed, Tasks
<1>10. ASSUME NEW w \in Workers, Create(w) PROVE Typed'
  BY <1>10, DoingType DEF Create, Typed, Sweepable, Tasks
<1>11. ASSUME NEW w \in Workers, NEW o \in JobOrders, CreateJob(w, o) PROVE Typed'
  <2>1. PICK t \in Fresh(JobIds) : /\ order' = [order EXCEPT ![t] = o]
                                  /\ status' = [status EXCEPT ![t] = "pending"]
    BY <1>11 DEF CreateJob
  <2>2. status' \in [Tasks -> Statuses] /\ order' \in [Tasks -> Orders \cup {NoOrder}]
    BY <2>1 DEF Typed, Statuses, Active, JobOrders
  <2> QED BY <1>11, <2>2, DoingType DEF CreateJob, Typed
<1>12. ASSUME NEW w \in Workers, NEW t \in IperfIds, ReadCancel(w, t) PROVE Typed'
  BY <1>12, DoingType DEF ReadCancel, Typed, Tasks
<1>13. ASSUME NEW w \in Workers, NEW n \in Nodes, Poll(w, n) PROVE Typed'
  <2>1. ServerClaims(n) \in SUBSET Tasks /\ ClientClaims(n) \in SUBSET Tasks
    BY DEF ServerClaims, ClientClaims, Tasks
  <2>2. req' \in [Workers -> Requests]
    BY <1>13, <2>1 DEF Poll, Typed, Requests
  <2>3. /\ agent' \in [Nodes -> Agents]
        /\ \A m \in Nodes : agent'[m].lane \in Executing => agent'[m].item # NoItem
    BY <1>13 DEF Poll, Typed, Agents, Executing
  <2> QED BY <1>13, <2>2, <2>3 DEF Poll, Typed
<1>14. ASSUME NEW n \in Nodes, GiveUp(n) \/ Restart(n) PROVE Typed'
  BY <1>14, AtRestType DEF GiveUp, Restart, Typed
<1>15. ASSUME NEW n \in Nodes, Begin(n) PROVE Typed'
  BY <1>15, NullAssumption DEF Begin, At, Typed, Agents, Executing, Items, Tasks
<1>16. ASSUME NEW n \in Nodes, NEW out \in {"done", "failed"}, Report(n, out) PROVE Typed'
  BY <1>16 DEF Report, At, Typed, Agents, Executing, Reports
<1>17. ASSUME NEW n \in Nodes, Raise(n) PROVE Typed'
  BY <1>17, AtRestType DEF Raise, Afterwards, Repost, At, Typed, Agents, Executing, Reports
<1>18. ASSUME NEW m \in posts, HandleResult(m) PROVE Typed'
  <2> DEFINE n == Runner(m.item)
  <2>1. m \in Reports /\ m.out \in Statuses
    BY <1>18 DEF HandleResult, Typed, Reports, Statuses, Terminal
  <2>2. status' \in [Tasks -> Statuses]
    BY <1>18, <2>1 DEF HandleResult, Typed
  <2>3. CASE ~Awaits(n, m)
    BY <1>18, <2>2, <2>3 DEF HandleResult, Typed
  <2>4. CASE Awaits(n, m)
    <3>1. agent[n].item \in Items \/ n \notin Nodes
      BY <2>1, <2>4 DEF Awaits, Reports
    <3>2. posts' \subseteq Reports
      BY <1>18, <2>4, <3>1, <2>1 DEF HandleResult, Repost, Typed, Reports, Awaits
    <3>3. ASSUME NEW k \in Nodes
          PROVE  /\ agent'[k] \in Agents
                 /\ agent'[k].lane \in Executing => agent'[k].item # NoItem
      <4>1. CASE k # n
        BY <1>18, <2>4, <4>1 DEF HandleResult, Typed
      <4>2. CASE k = n
        <5>1. agent[k].batch \in SUBSET Items /\ agent[k].item \in Items
          BY <3>1, <4>2 DEF Typed, Agents
        <5>2. Afterwards(k) \in Agents /\ agent[k].item # NoItem
          BY <5>1, AtRestType, NullAssumption
             DEF Afterwards, At, Agents, Executing, Items, Tasks
        <5>3. Afterwards(k).lane \in Executing => Afterwards(k).item # NoItem
          BY <5>2, AtRestType DEF Afterwards, At
        <5> QED BY <1>18, <2>4, <4>2, <5>1, <5>2, <5>3, NextUpType DEF HandleResult, Typed
      <4> QED BY <4>1, <4>2
    <3>4. agent' \in [Nodes -> Agents]
      BY <1>18, <2>4, <3>3 DEF HandleResult, Typed
    <3> QED BY <1>18, <2>2, <3>2, <3>3, <3>4 DEF HandleResult, Typed
  <2> QED BY <2>3, <2>4
<1>19. CASE UNCHANGED vars
  BY <1>19 DEF vars, Typed
<1> QED BY <1>1, <1>2, <1>3, <1>4, <1>5, <1>6, <1>7, <1>8, <1>9, <1>10, <1>11, <1>12,
           <1>13, <1>14, <1>15, <1>16, <1>17, <1>18, <1>19 DEF Next, Serve

-----------------------------------------------------------------------------
(* The size of the tables.                                                  *)

Finite == IsFiniteSet(Tests) /\ IsFiniteSet(Commands) /\ IsFiniteSet(Trimming)

\* What trim_old leaves of a table are at most Keep rows: all of them but the
\* oldest that is left are newer than that one.
LEMMA NewestKept ==
    ASSUME NEW S \in SUBSET Nat, IsFiniteSet(S)
    PROVE  IsFiniteSet(S \ Trimmed(S)) /\ Cardinality(S \ Trimmed(S)) <= Keep
<1> DEFINE left == S \ Trimmed(S)
           Newer(t) == {u \in S : u > t}
<1>1. left \subseteq S /\ IsFiniteSet(left)
  BY FS_Subset
<1>2. \A t \in left : ~(Cardinality(Newer(t)) >= Keep)
  BY DEF Trimmed
<1>3. CASE left = {}
  BY <1>1, <1>3, FS_EmptySet, KeepAssumption
<1>4. CASE left # {}
  <2> DEFINE before == OpToRel(<, Nat)
  <2>1. \A x, y \in Nat : x < y => <<x, y>> \in before
    BY Zenon DEF OpToRel
  <2>2. IsWellFoundedOn(before, Nat)
    BY Zenon, NatLessThanWellFounded
  <2>3. left \subseteq Nat
    BY <1>1
  <2> HIDE DEF before, left, Newer
  <2>4. PICK m \in left : \A y \in left : <<y, m>> \notin before
    BY <1>4, <2>2, <2>3, WFMin
  <2>5. ASSUME NEW y \in left, y # m PROVE y > m
    <3>1. y \in Nat /\ m \in Nat /\ <<y, m>> \notin before
      BY <2>3, <2>4
    <3>2. ~(y < m)
      BY <2>1, <3>1, Zenon
    <3> QED BY <2>5, <3>1, <3>2
  <2>6. left \ {m} \subseteq Newer(m)
    BY <1>1, <2>5 DEF Newer
  <2>7. IsFiniteSet(Newer(m)) /\ Cardinality(Newer(m)) \in Nat
    <3>1. Newer(m) \subseteq S
      BY DEF Newer
    <3> QED BY <3>1, FS_Subset, FS_CardinalityType
  <2>8. Cardinality(left \ {m}) <= Cardinality(Newer(m)) /\ Cardinality(Newer(m)) < Keep
    BY <1>2, <2>4, <2>6, <2>7, FS_Subset, KeepAssumption
  <2>9. Cardinality(left) = Cardinality(left \ {m}) + 1 /\ Cardinality(left \ {m}) \in Nat
    <3>1. IsFiniteSet(left \ {m}) /\ Cardinality(left \ {m}) = Cardinality(left) - 1
      BY <1>1, <2>4, FS_RemoveElement
    <3>2. Cardinality(left) \in Nat /\ Cardinality(left \ {m}) \in Nat
      BY <1>1, <3>1, FS_CardinalityType
    <3> QED BY <3>1, <3>2
  <2>10. Cardinality(left) <= Keep
    BY <2>7, <2>8, <2>9, KeepAssumption
  <2> QED BY <1>1, <2>10 DEF left
<1> QED BY <1>3, <1>4

\* Rows appear by Insert and CreateJob; CreateJob starts and TrimJobs ends the
\* second commit of a create.
Shrinking == Tests' \subseteq Tests /\ Commands' \subseteq Commands /\ Trimming' = Trimming

LEMMA RowsShrink ==
    ASSUME Typed, [Next]_vars
    PROVE  \/ Shrinking
           \/ \E w \in Workers, o \in IperfOrders : Insert(w, o)
           \/ \E w \in Workers, o \in JobOrders : CreateJob(w, o)
           \/ \E w \in Workers : TrimJobs(w)
<1> USE DEF rows, Doing, Writing, Request, Idle
<1>1. ASSUME order' = order, \A t \in Tasks : Exists(t)' => Exists(t),
             \A w \in Workers : req'[w].op = "trim" <=> req[w].op = "trim"
      PROVE  Shrinking
  BY <1>1 DEF Shrinking, Tests, Commands, Trimming, Tasks
<1>2. ASSUME NEW w \in Workers, CommitSweep(w) \/ CommitCancel(w) PROVE Shrinking
  <2>1. \A t \in Tasks : Exists(t)' => Exists(t)
    BY <1>2 DEF CommitSweep, CommitCancel, RowsPresent, Become, Exists, Typed, Requests
  <2>2. order' = order /\ \A k \in Workers : req'[k].op = "trim" <=> req[k].op = "trim"
    BY <1>2 DEF CommitSweep, CommitCancel, Typed, Requests
  <2> QED BY <1>1, <2>1, <2>2
<1>3. ASSUME NEW w \in Workers, CommitPoll(w) PROVE Shrinking
  <2>1. \A t \in Tasks : Exists(t)' => Exists(t)
    BY <1>3 DEF CommitPoll, RowsPresent, Become, Exists, Typed, Requests
  <2>2. order' = order /\ \A k \in Workers : req'[k].op = "trim" <=> req[k].op = "trim"
    BY <1>3 DEF CommitPoll, Typed, Requests
  <2> QED BY <1>1, <2>1, <2>2
<1>4. ASSUME NEW w \in Workers, Vanished(w) PROVE Shrinking
  <2>1. PICK kept \in {{}, {t \in req[w].srv \cup req[w].hit : Exists(t)}}, s \in Statuses :
               status' = Become(req[w].hit \cap kept, s)
    BY <1>4 DEF Vanished, Statuses, Active, Terminal
  <2>2. \A t \in kept : Exists(t)
    BY <2>1
  <2>3. \A t \in Tasks : Exists(t)' => Exists(t)
    BY <2>1, <2>2 DEF Become, Exists
  <2>4. order' = order /\ \A k \in Workers : req'[k].op = "trim" <=> req[k].op = "trim"
    BY <1>4 DEF Vanished, Typed, Requests
  <2> QED BY <1>1, <2>3, <2>4
<1>5. ASSUME NEW m \in posts, HandleResult(m) PROVE Shrinking
  <2>1. \A t \in Tasks : Exists(t)' => Exists(t)
    BY <1>5 DEF HandleResult, Records, Accepted, Exists, Active, Typed
  <2>2. order' = order /\ req' = req
    BY <1>5 DEF HandleResult
  <2> QED BY <1>1, <2>1, <2>2
<1>6. ASSUME UNCHANGED <<order, status>>,
             \A w \in Workers : req'[w].op = "trim" <=> req[w].op = "trim"
      PROVE  Shrinking
  BY <1>1, <1>6 DEF Exists
<1>7. ASSUME NEW w \in Workers,
             \/ Refuse(w) \/ Admit(w) \/ Create(w)
             \/ \E S \in SUBSET IperfIds : View(w, S)
             \/ \E t \in IperfIds : ReadCancel(w, t)
             \/ \E n \in Nodes : Poll(w, n)
      PROVE  Shrinking
  BY <1>6, <1>7 DEF Refuse, Admit, Create, View, ReadCancel, Poll, Typed, Requests
<1>8. ASSUME NEW n \in Nodes,
             \/ GiveUp(n) \/ Begin(n) \/ Raise(n) \/ Restart(n)
             \/ \E out \in {"done", "failed"} : Report(n, out)
      PROVE  Shrinking
  BY <1>6, <1>8 DEF GiveUp, Begin, Raise, Restart, Report
<1>9. CASE UNCHANGED vars
  BY <1>6, <1>9 DEF vars
<1> QED BY <1>2, <1>3, <1>4, <1>5, <1>7, <1>8, <1>9 DEF Next, Serve

LEMMA SizesInit == Init => Finite /\ TypeOK
<1> SUFFICES ASSUME Init PROVE Finite /\ TypeOK
  OBVIOUS
<1>1. Tests = {} /\ Commands = {} /\ Trimming = {}
  BY DEF Init, Tests, Commands, Trimming, Exists, Active, Terminal, Tasks, Idle, Request
<1> QED BY <1>1, TypeInit, FS_EmptySet, KeepAssumption DEF Finite, TypeOK

LEMMA SizesStep == Finite /\ TypeOK /\ [Next]_vars => (Finite /\ TypeOK)'
<1> SUFFICES ASSUME Finite, TypeOK, [Next]_vars
             PROVE  /\ Finite'
                    /\ Cardinality(Tests') <= Keep
                    /\ Cardinality(Commands') <= Keep + Cardinality(Trimming')
  BY TypeStep DEF TypeOK
<1> USE FS_CardinalityType, KeepAssumption DEF Finite
<1>1. Typed /\ Cardinality(Tests) <= Keep /\ Cardinality(Commands) <= Keep + Cardinality(Trimming)
  BY DEF TypeOK
<1>2. CASE Shrinking
  BY <1>1, <1>2, FS_Subset DEF Shrinking
<1>3. ASSUME NEW w \in Workers, NEW o \in IperfOrders, Insert(w, o)
      PROVE  /\ Finite' /\ Cardinality(Tests') <= Keep
             /\ Cardinality(Commands') <= Keep + Cardinality(Trimming')
  <2>1. PICK t \in Fresh(IperfIds) :
          /\ order' = [order EXCEPT ![t] = o]
          /\ status' = Delete([status EXCEPT ![t] = "pending"], Trimmed(Tests \cup {t}))
    BY <1>3 DEF Insert
  <2>2. t \in IperfIds /\ t \notin JobIds
    BY <2>1, IdsAssumption DEF Fresh
  <2> DEFINE all == Tests \cup {t}
  <2>3. Tests' \subseteq all \ Trimmed(all)
    BY <1>1, <2>1, <2>2 DEF Tests, Exists, Delete, Typed, Tasks, Active, Terminal
  <2>4. Commands' = Commands /\ Trimming' = Trimming
    <3>1. \A u \in JobIds : status'[u] = status[u] /\ order'[u] = order[u]
      BY <1>1, <2>1, <2>2, IdsAssumption DEF Delete, Trimmed, Typed, Tasks, Tests
    <3>2. \A k \in Workers : req'[k].op = "trim" <=> req[k].op = "trim"
      BY <1>1, <1>3 DEF Insert, Doing, Writing, Request, Typed, Requests
    <3> QED BY <3>1, <3>2 DEF Commands, Trimming, Exists
  <2>5. all \in SUBSET Nat /\ IsFiniteSet(all)
    <3>1. IsFiniteSet(Tests \cup {t})
      BY FS_AddElement
    <3>2. Tests \cup {t} \subseteq Nat
      BY <2>2, IdsAssumption DEF Tests
    <3> QED BY <3>1, <3>2
  <2> HIDE DEF all
  <2>6. IsFiniteSet(all \ Trimmed(all)) /\ Cardinality(all \ Trimmed(all)) <= Keep
    BY <2>5, NewestKept
  <2> QED BY <1>1, <2>3, <2>4, <2>6, FS_Subset
<1>4. ASSUME NEW w \in Workers, NEW o \in JobOrders, CreateJob(w, o)
      PROVE  /\ Finite' /\ Cardinality(Tests') <= Keep
             /\ Cardinality(Commands') <= Keep + Cardinality(Trimming')
  <2>1. PICK t \in Fresh(JobIds) : /\ order' = [order EXCEPT ![t] = o]
                                  /\ status' = [status EXCEPT ![t] = "pending"]
    BY <1>4 DEF CreateJob
  <2>2. t \in JobIds /\ t \notin IperfIds
    BY <2>1, IdsAssumption DEF Fresh
  <2>3. Tests' = Tests
    BY <1>1, <2>1, <2>2 DEF Tests, Exists, Typed, Tasks
  <2>4. w \notin Trimming
    BY <1>4 DEF CreateJob, Trimming
  <2>5. CASE o.kind = "command"
    <3>1. Trimming' = Trimming \cup {w}
      BY <1>1, <1>4, <2>5 DEF CreateJob, Trimming, Doing, Writing, Request, Typed, Requests
    <3>2. Commands' \subseteq Commands \cup {t}
      BY <1>1, <2>1 DEF Commands, Exists, Typed, Tasks
    <3>3. /\ IsFiniteSet(Commands \cup {t}) /\ Cardinality(Commands) \in Nat
          /\ Cardinality(Commands \cup {t}) \in {Cardinality(Commands), Cardinality(Commands) + 1}
      BY FS_AddElement
    <3>4. IsFiniteSet(Trimming') /\ Cardinality(Trimming') = Cardinality(Trimming) + 1
      BY <2>4, <3>1, FS_AddElement
    <3>5. IsFiniteSet(Commands') /\ Cardinality(Commands') <= Cardinality(Commands) + 1
      BY <3>2, <3>3, FS_Subset
    <3> QED BY <1>1, <2>3, <3>4, <3>5
  <2>6. CASE o.kind # "command"
    <3>1. Trimming' = Trimming
      BY <1>1, <1>4, <2>6 DEF CreateJob, Trimming, Doing, Writing, Request, Typed, Requests
    <3>2. Commands' \subseteq Commands
      BY <1>1, <2>1, <2>2, <2>6 DEF Commands, Exists, Typed, Tasks
    <3> QED BY <1>1, <2>3, <3>1, <3>2, FS_Subset
  <2> QED BY <2>5, <2>6
<1>5. ASSUME NEW w \in Workers, TrimJobs(w)
      PROVE  /\ Finite' /\ Cardinality(Tests') <= Keep
             /\ Cardinality(Commands') <= Keep + Cardinality(Trimming')
  <2>1. Tests' = Tests
    BY <1>1, <1>5, IdsAssumption DEF TrimJobs, Tests, Exists, Delete, Trimmed, Commands, Typed, Tasks
  <2>2. Trimming' = Trimming \ {w}
    BY <1>1, <1>5 DEF TrimJobs, Trimming, Doing, Writing, Request, Typed, Requests
  <2>3. Commands' \subseteq Commands \ Trimmed(Commands)
    BY <1>1, <1>5 DEF TrimJobs, Commands, Exists, Delete, Typed, Tasks, Active, Terminal
  <2>4. /\ IsFiniteSet(Commands \ Trimmed(Commands))
        /\ Cardinality(Commands \ Trimmed(Commands)) <= Keep
    BY NewestKept, IdsAssumption DEF Commands
  <2>5. IsFiniteSet(Trimming') /\ IsFiniteSet(Commands') /\ Cardinality(Commands') <= Keep
    BY <2>2, <2>3, <2>4, FS_Subset
  <2> QED BY <1>1, <2>1, <2>5
<1> QED BY <1>1, <1>2, <1>3, <1>4, <1>5, RowsShrink

\* Every variable keeps its type and no table outgrows KEEP by more than the trims
\* that are due, whatever the constants are.
THEOREM TypeCorrect == Spec => []TypeOK
<1>1. Init => Finite /\ TypeOK
  BY SizesInit
<1>2. (Finite /\ TypeOK) /\ [Next]_vars => (Finite /\ TypeOK)'
  BY SizesStep
<1> QED BY <1>1, <1>2, PTL DEF Spec

-----------------------------------------------------------------------------
(* Safety.  What each kind of step may do is established once, action by    *)
(* action, in StepsMove; each part of the invariant then follows from it.   *)

Safe == /\ PollsSound
        /\ LanesSound
        /\ HandedSound
        /\ RanSound
        /\ LockSound
        /\ IdsInOrder
        /\ NoRedelivery
        /\ OnePending
        /\ DoneWasRun

\* A row once born keeps its order; started never resets; no status goes back
\* to "unborn" or "pending".
RowsMove ==
    /\ \A t \in Tasks : status[t] # "unborn" => status'[t] # "unborn" /\ order'[t] = order[t]
    /\ \A t \in Tasks : started[t] => started'[t]
    /\ \A t \in Tasks : status'[t] = "pending" => status[t] \in {"pending", "unborn"}

\* Rows are born by Insert, the least free id first, and by CreateJob.
Births ==
    /\ \A t \in IperfIds : status[t] = "unborn" /\ status'[t] # "unborn" =>
        /\ \A u \in IperfIds : u # t /\ status[u] = "unborn" => status'[u] = "unborn" /\ t < u
        /\ \E w \in Workers : req[w].op = "insert" /\ admission' = NoWorker
    /\ \A t \in Tasks : status[t] = "unborn" /\ status'[t] # "unborn" =>
        \/ \E w \in Workers, o \in IperfOrders : Insert(w, o)
        \/ \E w \in Workers, o \in JobOrders : CreateJob(w, o)

\* A request becomes a poll by Poll alone and stops being one by its end.
RequestsMove ==
    \A w \in Workers :
       /\ req'[w].op = "poll" => req'[w] = req[w] \/ \E n \in Nodes : Poll(w, n)
       /\ req[w].op = "poll" => req'[w] = req[w] \/ CommitPoll(w) \/ Vanished(w)

\* What an agent does: it receives its claims, polls, begins an item, or goes on
\* with what it has.
AgentMoves(n) ==
    \/ agent'[n] = agent[n]
    \/ \E w \in Workers : /\ CommitPoll(w) /\ agent[n].wait = w
                          /\ agent'[n] = NextUp(Claims(w))
    \/ \E w \in Workers : Poll(w, n) /\ agent'[n].wait = w
    \/ Begin(n)
    \/ /\ ran' = ran /\ handed' = handed
       /\ \/ agent'[n] = AtRest
          \/ agent'[n] = NextUp(agent[n].batch)
          \/ /\ agent[n].lane \in Executing
             /\ \E l \in Executing : agent'[n] = At(l, agent[n].batch, agent[n].item)

\* What the histories record of it.
AgentsMove ==
    /\ handed' = handed \/ \E w \in Workers : /\ CommitPoll(w)
                                              /\ handed' = handed \cup Claims(w)
                                              /\ agent[req[w].node].wait = w
    /\ ran' = ran \/ \E n \in Nodes : Begin(n)
    /\ \A n \in Nodes : AgentMoves(n)

\* Who holds the admission lock, and who is about to insert.
LockMoves ==
    \/ /\ admission' = admission
       /\ \A w \in Workers : req'[w].op = "insert" <=> req[w].op = "insert"
    \/ \E w \in Workers : Admit(w)
    \/ \E w \in Workers, o \in IperfOrders : Insert(w, o)

\* A row becomes "done" by a report of its client role.
DoneMoves ==
    \A t \in Tasks : status'[t] = "done" =>
       status[t] = "done" \/ \E m \in posts : m.item = <<t, "client">>

Moves == RowsMove /\ Births /\ RequestsMove /\ AgentsMove /\ LockMoves /\ DoneMoves

LEMMA QuietStep ==
    ASSUME UNCHANGED <<order, status, started, admission, req>>
    PROVE  RowsMove /\ Births /\ RequestsMove /\ LockMoves /\ DoneMoves
BY DEF RowsMove, Births, RequestsMove, LockMoves, DoneMoves, Tasks

\* A step of one agent alone.
LEMMA AgentStep ==
    ASSUME UNCHANGED <<order, status, started, admission, req, handed, ran>>,
           NEW n \in Nodes,
           \A k \in Nodes : k # n => agent'[k] = agent[k],
           \/ agent'[n] = AtRest
           \/ /\ agent[n].lane \in Executing
              /\ \E l \in Executing : agent'[n] = At(l, agent[n].batch, agent[n].item)
    PROVE  Moves
BY QuietStep DEF Moves, AgentsMove, AgentMoves

LEMMA StepsMove ==
    ASSUME Typed, [Next]_vars
    PROVE  Moves
<1> USE DEF rows, Doing, Writing, Request, Idle
<1>1. ASSUME NEW w \in Workers, CommitSweep(w) \/ CommitCancel(w) PROVE Moves
  <2>1. RowsMove /\ Births /\ DoneMoves
    BY <1>1 DEF CommitSweep, CommitCancel, RowsMove, Births, DoneMoves, RowsPresent, Exists, Become, Active,
                Terminal, Typed, Requests, Tasks
  <2>2. RequestsMove /\ AgentsMove /\ LockMoves
    BY <1>1 DEF CommitSweep, CommitCancel, RequestsMove, AgentsMove, AgentMoves, LockMoves, Typed, Requests
  <2> QED BY <2>1, <2>2 DEF Moves
<1>2. ASSUME NEW w \in Workers, Refuse(w) \/ Create(w) PROVE Moves
  BY <1>2 DEF Refuse, Create, Moves, RowsMove, Births, RequestsMove, AgentsMove, AgentMoves, LockMoves,
              DoneMoves, Typed, Requests, Tasks
<1>3. ASSUME NEW w \in Workers, Admit(w) PROVE Moves
  BY <1>3 DEF Admit, Moves, RowsMove, Births, RequestsMove, AgentsMove, AgentMoves, LockMoves,
              DoneMoves, Typed, Requests, Tasks
<1>4. ASSUME NEW w \in Workers, NEW o \in IperfOrders, Insert(w, o) PROVE Moves
  <2>1. PICK t \in Fresh(IperfIds) :
          /\ order' = [order EXCEPT ![t] = o]
          /\ status' = Delete([status EXCEPT ![t] = "pending"],
                              Trimmed(Tests \cup {t}))
    BY <1>4 DEF Insert
  <2>2. /\ t \in IperfIds /\ status[t] = "unborn"
        /\ \A u \in IperfIds : status[u] = "unborn" => t <= u
    BY <2>1 DEF Fresh
  <2>3. \A u \in Tasks : u # t => \/ status'[u] = status[u]
                                  \/ status'[u] = "deleted" /\ Exists(u)
    BY <2>1, <2>2 DEF Delete, Trimmed, Tests, Typed, Tasks
  <2>4. status'[t] \in {"pending", "deleted"} /\ started' = started
    BY <2>1, <2>2, <1>4 DEF Delete, Typed, Tasks, Insert
  <2>5. RowsMove /\ DoneMoves
    BY <2>1, <2>2, <2>3, <2>4 DEF RowsMove, DoneMoves, Typed, Tasks
  <2>6. Births
    <3>1. \A u \in IperfIds : status[u] = "unborn" /\ u # t => status'[u] = "unborn" /\ t < u
      BY <2>2, <2>3, IdsAssumption DEF Exists, Active, Terminal, Tasks
    <3>2. req[w].op = "insert" /\ admission' = NoWorker
      BY <1>4 DEF Insert
    <3> QED BY <1>4, <3>1, <3>2 DEF Births
  <2>7. RequestsMove /\ AgentsMove /\ LockMoves
    BY <1>4 DEF Insert, RequestsMove, AgentsMove, AgentMoves, LockMoves, Typed, Requests
  <2> QED BY <2>5, <2>6, <2>7 DEF Moves
<1>5. ASSUME NEW w \in Workers, TrimJobs(w) PROVE Moves
  <2>1. \A u \in Tasks : \/ status'[u] = status[u]
                         \/ status'[u] = "deleted" /\ Exists(u) /\ u \in JobIds
    BY <1>5 DEF TrimJobs, Delete, Trimmed, Commands, Typed
  <2>2. RowsMove /\ Births /\ DoneMoves
    <3>1. \A u \in Tasks : status'[u] # status[u] => status[u] # "unborn" /\ status'[u] = "deleted"
      BY <2>1 DEF Exists, Active, Terminal
    <3>2. order' = order /\ started' = started
      BY <1>5 DEF TrimJobs
    <3> QED BY <3>1, <3>2 DEF RowsMove, Births, DoneMoves, Tasks
  <2>3. RequestsMove /\ AgentsMove /\ LockMoves
    BY <1>5 DEF TrimJobs, RequestsMove, AgentsMove, AgentMoves, LockMoves, Typed, Requests
  <2> QED BY <2>2, <2>3 DEF Moves
<1>6. ASSUME NEW w \in Workers, CommitPoll(w) PROVE Moves
  <2>1. RowsMove /\ Births /\ DoneMoves
    BY <1>6 DEF CommitPoll, RowsMove, Births, DoneMoves, RowsPresent, Exists, Become, Active,
                Terminal, Typed, Requests, Tasks
  <2>2. AgentsMove
    BY <1>6 DEF CommitPoll, AgentsMove, AgentMoves, Typed, Requests
  <2>3. RequestsMove /\ LockMoves
    BY <1>6 DEF CommitPoll, RequestsMove, LockMoves, Typed, Requests
  <2> QED BY <2>1, <2>2, <2>3 DEF Moves
<1>7. ASSUME NEW w \in Workers, Vanished(w) PROVE Moves
  <2>1. PICK kept \in {{}, {t \in req[w].srv \cup req[w].hit : Exists(t)}} :
          /\ status' = Become(req[w].hit \cap kept,
                              CASE req[w].op = "poll" -> "running"
                                [] req[w].op = "cancel" -> "cancelled"
                                [] OTHER -> "failed")
          /\ started' = [t \in Tasks |-> started[t] \/ t \in req[w].srv \cap kept]
    BY <1>7 DEF Vanished
  <2>2. \A t \in Tasks : \/ status'[t] = status[t]
                         \/ status'[t] \in {"running", "cancelled", "failed"} /\ Exists(t)
    BY <1>7, <2>1 DEF Vanished, Become
  <2>3. RowsMove /\ Births /\ DoneMoves
    BY <1>7, <2>1, <2>2 DEF Vanished, RowsMove, Births, DoneMoves, Exists, Active, Terminal, Tasks
  <2>4. RequestsMove /\ AgentsMove /\ LockMoves
    BY <1>7 DEF Vanished, RequestsMove, AgentsMove, AgentMoves, LockMoves, Typed, Requests
  <2> QED BY <2>3, <2>4 DEF Moves
<1>8. ASSUME NEW w \in Workers, NEW S \in SUBSET IperfIds, View(w, S) PROVE Moves
  BY <1>8 DEF View, Moves, RowsMove, Births, RequestsMove, AgentsMove, AgentMoves, LockMoves,
              DoneMoves, Typed, Requests, Tasks
<1>9. ASSUME NEW w \in Workers, NEW o \in JobOrders, CreateJob(w, o) PROVE Moves
  <2>1. PICK t \in Fresh(JobIds) : /\ order' = [order EXCEPT ![t] = o]
                                  /\ status' = [status EXCEPT ![t] = "pending"]
    BY <1>9 DEF CreateJob
  <2>2. t \in JobIds /\ status[t] = "unborn"
    BY <2>1 DEF Fresh
  <2>3. RowsMove /\ Births /\ DoneMoves
    BY <1>9, <2>1, <2>2, IdsAssumption DEF CreateJob, RowsMove, Births, DoneMoves, Typed, Tasks
  <2>4. RequestsMove /\ AgentsMove /\ LockMoves
    BY <1>9 DEF CreateJob, RequestsMove, AgentsMove, AgentMoves, LockMoves, Typed, Requests
  <2> QED BY <2>3, <2>4 DEF Moves
<1>10. ASSUME NEW w \in Workers, NEW t \in IperfIds, ReadCancel(w, t) PROVE Moves
  BY <1>10 DEF ReadCancel, Moves, RowsMove, Births, RequestsMove, AgentsMove, AgentMoves, LockMoves,
               DoneMoves, Typed, Requests, Tasks
<1>11. ASSUME NEW w \in Workers, NEW n \in Nodes, Poll(w, n) PROVE Moves
  <2>1. RowsMove /\ Births /\ DoneMoves
    BY <1>11 DEF Poll, RowsMove, Births, DoneMoves, Tasks
  <2>2. RequestsMove /\ AgentsMove /\ LockMoves
    <3>1. \A k \in Workers : k # w => req'[k] = req[k]
      BY <1>11 DEF Poll, Typed
    <3>2. req[w].op = "idle" /\ req'[w].op = "poll"
      BY <1>11 DEF Poll, Typed
    <3>3. agent'[n].wait = w /\ \A k \in Nodes : k # n => agent'[k] = agent[k]
      BY <1>11 DEF Poll, Typed
    <3>4. UNCHANGED <<admission, handed, ran>>
      BY <1>11 DEF Poll
    <3> QED BY <1>11, <3>1, <3>2, <3>3, <3>4 DEF RequestsMove, AgentsMove, AgentMoves, LockMoves
  <2> QED BY <2>1, <2>2 DEF Moves
<1>12. ASSUME NEW n \in Nodes, GiveUp(n) \/ Restart(n) PROVE Moves
  <2>1. agent'[n] = AtRest /\ \A k \in Nodes : k # n => agent'[k] = agent[k]
    BY <1>12 DEF GiveUp, Restart, Typed
  <2>2. /\ UNCHANGED <<order, status, started, admission, req, handed, ran>>
    BY <1>12 DEF GiveUp, Restart
  <2> QED BY <2>1, <2>2, AgentStep
<1>13. ASSUME NEW n \in Nodes, Begin(n) PROVE Moves
  <2>1. \A k \in Nodes : k # n => agent'[k] = agent[k]
    BY <1>13 DEF Begin, Typed
  <2>2. AgentsMove
    <3>1. handed' = handed
      BY <1>13 DEF Begin
    <3> QED BY <1>13, <2>1, <3>1 DEF AgentsMove, AgentMoves
  <2>3. UNCHANGED <<order, status, started, admission, req>>
    BY <1>13 DEF Begin
  <2> QED BY <2>2, <2>3, QuietStep DEF Moves
<1>14. ASSUME NEW n \in Nodes, NEW out \in {"done", "failed"}, Report(n, out) PROVE Moves
  <2>1. /\ agent[n].lane \in Executing
        /\ agent'[n] = At("first", agent[n].batch, agent[n].item)
        /\ \A k \in Nodes : k # n => agent'[k] = agent[k]
    BY <1>14 DEF Report, Typed, Executing
  <2>2. UNCHANGED <<order, status, started, admission, req, handed, ran>>
    BY <1>14 DEF Report
  <2>3. "first" \in Executing
    BY DEF Executing
  <2> QED BY <2>1, <2>2, <2>3, AgentStep
<1>15. ASSUME NEW n \in Nodes, Raise(n) PROVE Moves
  <2>1. /\ agent[n].lane \in Executing
        /\ agent'[n] \in {At("second", agent[n].batch, agent[n].item), AtRest}
        /\ \A k \in Nodes : k # n => agent'[k] = agent[k]
    BY <1>15 DEF Raise, Afterwards, Typed
  <2>2. UNCHANGED <<order, status, started, admission, req, handed, ran>>
    BY <1>15 DEF Raise
  <2>3. "second" \in Executing
    BY DEF Executing
  <2> QED BY <2>1, <2>2, <2>3, AgentStep
<1>16. ASSUME NEW m \in posts, HandleResult(m) PROVE Moves
  <2>1. /\ m.item \in Items /\ m.out \in {"done", "failed"}
        /\ m.item[1] \in Tasks /\ m.item = <<m.item[1], m.item[2]>>
    BY <1>16 DEF Typed, Reports, Items
  <2>2. \A t \in Tasks : \/ status'[t] = status[t]
                         \/ /\ Records(m) /\ t = m.item[1]
                            /\ status'[t] = m.out
    BY <1>16, <2>1 DEF HandleResult, Typed
  <2>3. Records(m) => m.item[2] = "client" /\ status[m.item[1]] = "running"
    BY DEF Records, Accepted
  <2>4. RowsMove /\ Births /\ DoneMoves
    BY <1>16, <2>1, <2>2, <2>3 DEF HandleResult, RowsMove, Births, DoneMoves, Tasks
  <2>5. UNCHANGED <<order, started, admission, req, handed, ran>>
    BY <1>16 DEF HandleResult
  <2>6. ASSUME NEW k \in Nodes PROVE AgentMoves(k)
    <3> DEFINE n == Runner(m.item)
    <3>1. CASE agent'[k] = agent[k]
      BY <3>1 DEF AgentMoves
    <3>2. CASE agent'[k] # agent[k]
      <4>1. k = n /\ Awaits(n, m) /\ agent'[k] \in {NextUp(agent[k].batch), Afterwards(k)}
        BY <1>16, <3>2 DEF HandleResult, Typed
      <4>2. agent[k].lane \in Executing
        BY <4>1 DEF Awaits, Executing
      <4> QED BY <2>5, <4>1, <4>2 DEF AgentMoves, Afterwards, Executing
    <3> QED BY <3>1, <3>2
  <2>7. RequestsMove /\ AgentsMove /\ LockMoves
    BY <2>5, <2>6 DEF RequestsMove, AgentsMove, LockMoves
  <2> QED BY <2>4, <2>7 DEF Moves
<1>17. CASE UNCHANGED vars
  BY <1>17 DEF vars, Moves, RowsMove, Births, RequestsMove, AgentsMove, AgentMoves, LockMoves, DoneMoves, Tasks
<1> QED BY <1>1, <1>2, <1>3, <1>4, <1>5, <1>6, <1>7, <1>8, <1>9, <1>10, <1>11, <1>12,
           <1>13, <1>14, <1>15, <1>16, <1>17 DEF Next, Serve

-----------------------------------------------------------------------------
(* The parts of the invariant, one lemma each.                              *)

LEMMA PollsStep ==
    ASSUME Typed, PollsSound, Moves
    PROVE  PollsSound'
<1> SUFFICES ASSUME NEW w \in Workers, req'[w].op = "poll"
             PROVE  /\ req'[w].node \in Nodes
                    /\ \A t \in req'[w].srv : status'[t] # "unborn" /\ order'[t].server = req'[w].node
                    /\ \A t \in req'[w].hit : /\ status'[t] # "unborn"
                                              /\ order'[t].client = req'[w].node
                                              /\ order'[t].kind = "iperf3" => started'[t]
  BY DEF PollsSound
<1>1. CASE req'[w] = req[w]
  <2>1. req[w].srv \subseteq Tasks /\ req[w].hit \subseteq Tasks
    BY DEF Typed, Requests
  <2> QED BY <1>1, <2>1 DEF Moves, RowsMove, PollsSound
<1>2. CASE req'[w] # req[w]
  <2>1. PICK n \in Nodes : Poll(w, n)
    BY <1>2 DEF Moves, RequestsMove
  <2>2. /\ req'[w].node = n /\ req'[w].srv = ServerClaims(n) /\ req'[w].hit = ClientClaims(n)
        /\ status' = status /\ order' = order /\ started' = started
    BY <2>1 DEF Poll, rows, Typed
  <2>3. /\ \A t \in ServerClaims(n) : status[t] # "unborn" /\ order[t].server = n
        /\ \A t \in ClientClaims(n) : /\ status[t] # "unborn" /\ order[t].client = n
                                      /\ order[t].kind = "iperf3" => started[t]
    BY DEF ServerClaims, ClientClaims, Active
  <2> QED BY <2>2, <2>3
<1> QED BY <1>1, <1>2

LEMMA HandedStep ==
    ASSUME Typed, Typed', PollsSound, HandedSound, Moves
    PROVE  HandedSound'
<1> SUFFICES ASSUME NEW i \in handed'
             PROVE  /\ status'[i[1]] # "unborn"
                    /\ i[2] = "server" => started'[i[1]]
                    /\ i[2] = "client" => /\ status'[i[1]] # "pending"
                                          /\ order'[i[1]].kind = "iperf3" => started'[i[1]]
  BY DEF HandedSound
<1>0. i[1] \in Tasks
  BY DEF Typed, Items
<1>1. CASE i \in handed
  BY <1>0, <1>1 DEF HandedSound, Moves, RowsMove
<1>2. CASE i \notin handed
  <2>1. PICK w \in Workers : CommitPoll(w) /\ i \in Claims(w)
    BY <1>2 DEF Moves, AgentsMove
  <2>2. \/ i[1] \in req[w].srv /\ i[2] = "server"
        \/ i[1] \in req[w].hit /\ i[2] = "client"
    BY <2>1 DEF Claims
  <2>3. /\ status[i[1]] # "unborn"
        /\ i[2] = "client" /\ order[i[1]].kind = "iperf3" => started[i[1]]
    BY <2>1, <2>2 DEF PollsSound, CommitPoll
  <2>4. /\ i[1] \in req[w].srv => started'[i[1]]
        /\ i[1] \in req[w].hit => status'[i[1]] = "running"
    BY <1>0, <2>1 DEF CommitPoll, Become
  <2> QED BY <1>0, <2>2, <2>3, <2>4 DEF Moves, RowsMove
<1> QED BY <1>1, <1>2

LEMMA LockStep ==
    ASSUME Typed, LockSound, Moves
    PROVE  LockSound'
<1>1. CASE /\ admission' = admission
           /\ \A w \in Workers : req'[w].op = "insert" <=> req[w].op = "insert"
  <2>1. ASSUME admission # NoWorker, NEW t \in IperfIds PROVE status'[t] # "pending"
    BY <1>1, <2>1 DEF LockSound, Moves, RowsMove, Births, Tasks
  <2> QED BY <1>1, <2>1 DEF LockSound
<1>2. ASSUME NEW w \in Workers, Admit(w) PROVE LockSound'
  <2>1. /\ admission = NoWorker /\ admission' = w /\ status' = status
        /\ \A t \in IperfIds : status[t] # "pending"
    BY <1>2 DEF Admit, LockFree, rows, Active
  <2>2. \A k \in Workers : req'[k].op = (IF k = w THEN "insert" ELSE req[k].op)
    BY <1>2 DEF Admit, Doing, Writing, Request, Typed
  <2> QED BY <2>1, <2>2, NullAssumption DEF LockSound
<1>3. ASSUME NEW w \in Workers, NEW o \in IperfOrders, Insert(w, o) PROVE LockSound'
  <2>1. admission = w /\ admission' = NoWorker
    BY <1>3 DEF Insert, LockSound
  <2>2. \A k \in Workers : req'[k].op = (IF k = w THEN "idle" ELSE req[k].op)
    BY <1>3 DEF Insert, Doing, Writing, Request, Typed
  <2> QED BY <2>1, <2>2, NullAssumption DEF LockSound
<1> QED BY <1>1, <1>2, <1>3 DEF Moves, LockMoves

LEMMA IdsStep ==
    ASSUME Typed, IdsInOrder, Moves
    PROVE  IdsInOrder'
<1> SUFFICES ASSUME NEW t \in IperfIds, NEW u \in IperfIds,
                    status'[t] # "unborn", status'[u] = "unborn"
             PROVE  t < u
  BY DEF IdsInOrder
<1>1. status[u] = "unborn"
  BY DEF Moves, RowsMove, Tasks
<1>2. CASE status[t] = "unborn"
  BY <1>1, <1>2 DEF Moves, Births
<1> QED BY <1>1, <1>2 DEF IdsInOrder

LEMMA OnePendingStep ==
    ASSUME Typed, LockSound, OnePending, Moves
    PROVE  OnePending'
<1> SUFFICES ASSUME NEW t \in IperfIds, NEW u \in IperfIds,
                    status'[t] = "pending", status'[u] = "pending", t # u
             PROVE  FALSE
  BY DEF OnePending
<1>1. status[t] \in {"pending", "unborn"} /\ status[u] \in {"pending", "unborn"}
  BY DEF Moves, RowsMove, Tasks
<1>2. CASE status[t] = "pending" /\ status[u] = "pending"
  BY <1>2 DEF OnePending
<1>3. CASE status[t] = "unborn"
  BY <1>1, <1>3, NullAssumption DEF Moves, Births, LockSound
<1>4. CASE status[u] = "unborn"
  BY <1>1, <1>4, NullAssumption DEF Moves, Births, LockSound
<1> QED BY <1>1, <1>2, <1>3, <1>4

LEMMA DoneStep ==
    ASSUME RanSound, DoneWasRun, Moves
    PROVE  DoneWasRun'
<1>1. ran \subseteq ran'
  BY DEF Moves, AgentsMove, Begin
<1> QED BY <1>1 DEF DoneWasRun, RanSound, Moves, DoneMoves

LEMMA ClaimsOwned ==
    ASSUME Typed, PollsSound, NEW w \in Workers, req[w].op = "poll", NEW i \in Claims(w)
    PROVE  i \in Items /\ Runner(i) = req[w].node
BY DEF Typed, Requests, Items, Claims, Runner, PollsSound

LEMMA BeginPicks ==
    ASSUME Typed, NEW n \in Nodes, Begin(n)
    PROVE  \E i \in agent[n].batch : /\ agent'[n] = At("running", agent[n].batch \ {i}, i)
                                     /\ ran' = ran \cup {i}
BY DEF Begin, Typed

LEMMA RanStep ==
    ASSUME Typed, LanesSound, RanSound, [Next]_vars, Moves
    PROVE  RanSound'
<1>1. ran' \subseteq handed'
  <2>1. ASSUME NEW n \in Nodes, Begin(n) PROVE ran' \subseteq handed
    <3>1. PICK i \in agent[n].batch : ran' = ran \cup {i}
      BY <2>1, BeginPicks
    <3>2. i \in handed
      BY DEF LanesSound
    <3> QED BY <3>1, <3>2 DEF RanSound
  <2>2. ran' \subseteq handed
    BY <2>1 DEF Moves, AgentsMove, RanSound
  <2> QED BY <2>2 DEF Moves, AgentsMove
<1>2. ran \subseteq ran'
  BY DEF Moves, AgentsMove, Begin
<1>3. ASSUME NEW m \in posts', m \notin posts PROVE m.item \in ran
  <2>1. ASSUME NEW n \in Nodes, NEW out \in {"done", "failed"}, Report(n, out) PROVE m.item \in ran
    BY <1>3, <2>1 DEF Report, LanesSound, Executing
  <2>2. ASSUME NEW n \in Nodes, Raise(n) PROVE m.item \in ran
    BY <1>3, <2>2 DEF Raise, Repost, LanesSound
  <2>3. ASSUME NEW r \in posts, HandleResult(r) PROVE m.item \in ran
    BY <1>3, <2>3 DEF HandleResult, Awaits, Repost, RanSound
  <2>4. \/ \E n \in Nodes, out \in {"done", "failed"} : Report(n, out)
        \/ \E n \in Nodes : Raise(n)
        \/ \E r \in posts : HandleResult(r)
    BY <1>3 DEF Next, Serve, CommitSweep, Refuse, Admit, Insert, TrimJobs, CommitCancel,
                CommitPoll, Vanished, View, Create, CreateJob, ReadCancel, Poll, GiveUp, Begin,
                Restart, vars
  <2> QED BY <2>1, <2>2, <2>3, <2>4
<1> QED BY <1>1, <1>2, <1>3 DEF RanSound

\* Work an agent holds stays its own and unstarted until it begins it.
LEMMA BatchKept ==
    ASSUME Typed, LanesSound, HandedSound, Moves,
           NEW n \in Nodes, ~Begin(n), NEW i \in agent[n].batch
    PROVE  i \in handed' /\ i \notin ran' /\ Runner(i)' = n
<1>1. i \in handed /\ i \notin ran /\ Runner(i) = n /\ i[1] \in Tasks
  BY DEF LanesSound, Typed, Items
<1>2. i \in handed'
  BY <1>1 DEF Moves, AgentsMove
<1>3. i \notin ran'
  <2>1. ASSUME NEW k \in Nodes, Begin(k) PROVE i \notin ran'
    <3>1. PICK j \in agent[k].batch : ran' = ran \cup {j}
      BY <2>1, BeginPicks
    <3>2. Runner(j) = k /\ k # n
      BY <2>1 DEF LanesSound
    <3> QED BY <1>1, <3>1, <3>2
  <2> QED BY <1>1, <2>1 DEF Moves, AgentsMove
<1>4. order'[i[1]] = order[i[1]]
  BY <1>1 DEF HandedSound, Moves, RowsMove
<1> QED BY <1>1, <1>2, <1>3, <1>4 DEF Runner

LEMMA LanesStep ==
    ASSUME Typed, PollsSound, LanesSound, HandedSound, RanSound, NoRedelivery, Moves
    PROVE  LanesSound'
<1> DEFINE Sound(a, n) ==
      /\ a.lane = "polling" <=> a.wait # NoWorker
      /\ a.wait # NoWorker => req'[a.wait].op = "poll" /\ req'[a.wait].node = n
      /\ \A i \in a.batch : i \in handed' /\ i \notin ran' /\ Runner(i)' = n
      /\ a.lane \in Executing => a.item \in ran'
<1> SUFFICES ASSUME NEW n \in Nodes PROVE Sound(agent'[n], n)
  BY DEF LanesSound
<1>0. ran \subseteq ran'
  BY DEF Moves, AgentsMove, Begin
<1>1. CASE agent'[n] = agent[n] /\ ~Begin(n)
  <2>1. ASSUME NEW w \in Workers, agent[n].wait = w
        PROVE  req'[w].op = "poll" /\ req'[w].node = n
    <3>1. req[w].op = "poll" /\ req[w].node = n
      BY <2>1, NullAssumption DEF LanesSound
    <3>2. ~CommitPoll(w)
      BY <1>1, <2>1, <3>1, NullAssumption DEF CommitPoll, NextUp, AtRest, At, Typed
    <3>3. ~Vanished(w)
      BY <1>1, <2>1, NullAssumption DEF Vanished, AtRest, At
    <3> QED BY <3>1, <3>2, <3>3 DEF Moves, RequestsMove
  <2>2. agent[n].wait \in Workers \cup {NoWorker}
    BY DEF Typed, Agents
  <2> QED BY <1>0, <1>1, <2>1, <2>2, BatchKept DEF LanesSound
<1>2. ASSUME NEW w \in Workers, CommitPoll(w), agent[n].wait = w, agent'[n] = NextUp(Claims(w))
      PROVE  Sound(agent'[n], n)
  <2>1. req[w].op = "poll" /\ req[w].node = n /\ agent[n].lane = "polling"
    BY <1>2, NullAssumption DEF LanesSound
  <2>2. handed' = handed \cup Claims(w) /\ ran' = ran /\ order' = order
    BY <1>2, <2>1 DEF CommitPoll
  <2>3. \A i \in Claims(w) : i \in handed' /\ i \notin ran' /\ Runner(i)' = n
    BY <1>2, <2>1, <2>2, ClaimsOwned DEF NoRedelivery, RanSound, Runner
  <2> QED BY <1>2, <2>3 DEF NextUp, AtRest, At, Executing
<1>3. ASSUME NEW w \in Workers, Poll(w, n) PROVE Sound(agent'[n], n)
  <2>1. agent'[n] = [lane |-> "polling", wait |-> w, batch |-> {}, item |-> NoItem]
    BY <1>3 DEF Poll, Typed
  <2>2. req'[w].op = "poll" /\ req'[w].node = n
    BY <1>3 DEF Poll, Typed
  <2> QED BY <2>1, <2>2, NullAssumption DEF Executing
<1>4. CASE Begin(n)
  <2>1. PICK i \in agent[n].batch :
          /\ agent'[n] = At("running", agent[n].batch \ {i}, i)
          /\ ran' = ran \cup {i}
    BY <1>4, BeginPicks
  <2>2. handed' = handed /\ order' = order
    BY <1>4 DEF Begin, rows
  <2> QED BY <2>1, <2>2 DEF At, LanesSound, Executing, Runner
<1>5. ASSUME ran' = ran, ~Begin(n),
             \/ agent'[n] = AtRest
             \/ agent'[n] = NextUp(agent[n].batch)
             \/ /\ agent[n].lane \in Executing
                /\ \E l \in Executing : agent'[n] = At(l, agent[n].batch, agent[n].item)
      PROVE  Sound(agent'[n], n)
  <2>1. agent[n].lane \in Executing => agent[n].item \in ran'
    BY <1>5 DEF LanesSound
  <2> QED BY <1>5, <2>1, BatchKept DEF NextUp, AtRest, At, Executing
<1> QED BY <1>1, <1>2, <1>3, <1>4, <1>5 DEF Moves, AgentsMove, AgentMoves

LEMMA NoRedeliveryStep ==
    ASSUME Typed, Typed', PollsSound, LanesSound, LanesSound', HandedSound, NoRedelivery, Moves
    PROVE  NoRedelivery'
<1> SUFFICES ASSUME NEW n \in Nodes, NEW w, w = agent'[n].wait,
                    agent'[n].lane = "polling", NEW i, i \in Claims(w)', i \in handed'
             PROVE  FALSE
  BY DEF NoRedelivery, Claims
<1>1. w \in Workers /\ req'[w].op = "poll" /\ req'[w].node = n
  BY DEF LanesSound, Typed, Agents
<1>2. CASE req'[w] = req[w]
  <2>1. req[w].op = "poll" /\ req[w].node = n /\ i \in Claims(w)
    BY <1>1, <1>2 DEF Claims
  <2>2. agent'[n] = agent[n]
    <3>1. ~Poll(w, n)
      BY <2>1 DEF Poll
    <3>2. ~Begin(n)
      <4>1. ASSUME Begin(n) PROVE FALSE
        <5>1. PICK j \in agent[n].batch : agent'[n] = At("running", agent[n].batch \ {j}, j)
          BY <4>1, BeginPicks
        <5> QED BY <5>1 DEF At
      <4> QED BY <4>1
    <3>3. \A k \in Workers : agent'[n] # NextUp(Claims(k))
      BY DEF NextUp, AtRest, At
    <3>4. agent'[n] # NextUp(agent[n].batch) /\ agent'[n] # AtRest
      BY DEF NextUp, AtRest, At
    <3>5. \A l \in Executing : agent'[n] # At(l, agent[n].batch, agent[n].item)
      BY DEF At, Executing
    <3>6. AgentMoves(n)
      BY DEF Moves, AgentsMove
    <3> QED BY <1>1, <3>1, <3>2, <3>3, <3>4, <3>5, <3>6 DEF AgentMoves
  <2>3. i \notin handed
    BY <2>1, <2>2 DEF NoRedelivery
  <2>4. PICK k \in Workers : /\ CommitPoll(k) /\ i \in Claims(k)
                             /\ agent[req[k].node].wait = k
    BY <2>3 DEF Moves, AgentsMove
  <2>5. req[k].op = "poll" /\ req'[k].op = "idle"
    BY <2>4 DEF CommitPoll, Doing, Writing, Request, Typed
  <2>6. k # w
    BY <1>1, <2>5
  <2>7. req[k].node = n
    BY <1>1, <2>1, <2>4, <2>5, ClaimsOwned
  <2> QED BY <2>2, <2>4, <2>6, <2>7
<1>3. CASE req'[w] # req[w]
  <2>1. PICK k \in Nodes : Poll(w, k)
    BY <1>1, <1>3 DEF Moves, RequestsMove
  <2>2. /\ req'[w].srv = ServerClaims(k) /\ req'[w].hit = ClientClaims(k) /\ handed' = handed
    BY <1>1, <2>1 DEF Poll, Typed
  <2>3. \/ i[1] \in ServerClaims(k) /\ i[2] = "server"
        \/ i[1] \in ClientClaims(k) /\ i[2] = "client"
    BY <2>2 DEF Claims
  <2> QED BY <2>2, <2>3 DEF HandedSound, ServerClaims, ClientClaims
<1> QED BY <1>2, <1>3

LEMMA SafeInit == Init => Safe
<1> SUFFICES ASSUME Init PROVE Safe
  OBVIOUS
<1>1. /\ \A w \in Workers : req[w].op = "idle"
      /\ \A n \in Nodes : agent[n] = AtRest
      /\ \A t \in Tasks : status[t] = "unborn"
      /\ posts = {} /\ handed = {} /\ ran = {} /\ admission = NoWorker
  BY DEF Init, Idle, Request
<1>2. PollsSound /\ HandedSound /\ RanSound
  BY <1>1 DEF PollsSound, HandedSound, RanSound
<1>3. LanesSound /\ NoRedelivery
  BY <1>1 DEF LanesSound, NoRedelivery, AtRest, At, Executing
<1>4. LockSound
  BY <1>1, NullAssumption DEF LockSound
<1>5. IdsInOrder /\ OnePending /\ DoneWasRun
  BY <1>1 DEF IdsInOrder, OnePending, DoneWasRun, Tasks
<1> QED BY <1>2, <1>3, <1>4, <1>5 DEF Safe

LEMMA SafeStep == Typed /\ Typed' /\ Safe /\ [Next]_vars => Safe'
<1> SUFFICES ASSUME Typed, Typed', Safe, [Next]_vars PROVE Safe'
  OBVIOUS
<1>1. Moves
  BY StepsMove
<1>2. PollsSound' /\ HandedSound' /\ LockSound' /\ IdsInOrder' /\ OnePending' /\ DoneWasRun'
  BY <1>1, PollsStep, HandedStep, LockStep, IdsStep, OnePendingStep, DoneStep DEF Safe
<1>3. RanSound' /\ LanesSound'
  BY <1>1, RanStep, LanesStep DEF Safe
<1>4. NoRedelivery'
  BY <1>1, <1>3, NoRedeliveryStep DEF Safe
<1> QED BY <1>2, <1>3, <1>4 DEF Safe

\* The inductive invariant holds in every reachable state.
THEOREM InvariantHolds == Spec => [](Typed /\ Safe)
<1>1. Init => Typed /\ Safe
  BY TypeInit, SafeInit
<1>2. (Typed /\ Safe) /\ [Next]_vars => (Typed /\ Safe)'
  BY TypeStep, SafeStep
<1> QED BY <1>1, <1>2, PTL DEF Spec

\* No lost reply, retry, restart or second worker makes anything run twice.
THEOREM NothingTwice == Spec => []NoRedelivery
<1>1. Typed /\ Safe => NoRedelivery
  BY DEF Safe
<1> QED BY <1>1, InvariantHolds, PTL

\* No client of a test is handed out ahead of its server.
THEOREM ServerGoesFirst == Spec => []ServerFirst
<1>1. Typed /\ Safe => ServerFirst
  BY DEF Safe, HandedSound, ServerFirst
<1> QED BY <1>1, InvariantHolds, PTL

\* The admission lock lets one speed test wait at a time.
THEOREM OneTestPending == Spec => []OnePending
<1>1. Typed /\ Safe => OnePending
  BY DEF Safe
<1> QED BY <1>1, InvariantHolds, PTL

\* Nothing is "done" that its client never started.
THEOREM DoneMeansRun == Spec => []DoneWasRun
<1>1. Typed /\ Safe => DoneWasRun
  BY DEF Safe
<1> QED BY <1>1, InvariantHolds, PTL

-----------------------------------------------------------------------------
(* The dispatcher implements TaskContract.                                  *)

LEMMA OfferIs ==
    /\ DOMAIN Offer = Tasks /\ Offer = [t \in Tasks |-> Offer[t]]
    /\ \A t \in Tasks : /\ Offer[t] = "none" <=> status[t] = "unborn"
                        /\ Offer[t] = "open" <=> status[t] = "pending"
                        /\ Offer[t] \in {"none", "open", "closed"}
BY DEF Offer

LEMMA OfferIsNext ==
    /\ DOMAIN Offer' = Tasks /\ Offer' = [t \in Tasks |-> Offer'[t]]
    /\ \A t \in Tasks : /\ Offer'[t] = "none" <=> status'[t] = "unborn"
                        /\ Offer'[t] = "open" <=> status'[t] = "pending"
                        /\ Offer'[t] \in {"none", "open", "closed"}
BY DEF Offer

\* The row a speed test gets is not trimmed by the insert that creates it, and no
\* row trimmed then was pending: only its own offer changes.
LEMMA InsertPublishes ==
    ASSUME Typed, Safe, NEW w \in Workers, NEW o \in IperfOrders, Insert(w, o)
    PROVE  Contract!Next
<1>1. PICK t \in Fresh(IperfIds) :
         status' = Delete([status EXCEPT ![t] = "pending"],
                          Trimmed(Tests \cup {t}))
  BY DEF Insert
<1>2. t \in IperfIds /\ t \in Tasks /\ status[t] = "unborn"
  BY <1>1 DEF Fresh, Tasks
<1>3. \A u \in IperfIds : status[u] # "pending"
  BY NullAssumption DEF Safe, LockSound, Insert
<1>4. t \notin Trimmed(Tests \cup {t})
  <2> DEFINE newer == {u \in Tests \cup {t} : u > t}
  <2>1. \A u \in IperfIds : Exists(u) => u < t
    BY <1>2 DEF Safe, IdsInOrder, Exists, Active, Terminal
  <2>2. ASSUME NEW u \in newer PROVE FALSE
    <3>1. u \in IperfIds /\ u > t /\ (Exists(u) \/ u = t)
      BY <1>2 DEF Tests
    <3> QED BY <1>2, <2>1, <3>1, IdsAssumption
  <2>3. newer = {}
    BY <2>2
  <2>4. Cardinality(newer) = 0
    BY <2>3, FS_EmptySet
  <2> QED BY <2>4, KeepAssumption DEF Trimmed
<1>5. status'[t] = "pending"
  BY <1>1, <1>2, <1>4 DEF Delete, Typed
<1>6. ASSUME NEW u \in Tasks, u # t
      PROVE  \/ status'[u] = status[u]
             \/ status'[u] = "deleted" /\ status[u] \notin {"unborn", "pending"}
  <2>1. \/ status'[u] = status[u]
        \/ status'[u] = "deleted" /\ u \in IperfIds /\ Exists(u)
    BY <1>1, <1>6 DEF Delete, Trimmed, Tests, Typed
  <2> QED BY <1>3, <2>1 DEF Exists, Active, Terminal
<1>7. Offer' = [Offer EXCEPT ![t] = "open"]
  BY <1>2, <1>5, <1>6, OfferIs, OfferIsNext
<1>8. Offer[t] = "none" /\ \A u \in IperfIds : Offer[u] # "open"
  BY <1>2, <1>3, OfferIs DEF Tasks
<1>9. handed' = handed /\ ran' = ran
  BY DEF Insert
<1>10. Contract!Publish(t)
  BY <1>7, <1>8, <1>9 DEF Contract!Publish
<1> QED BY <1>2, <1>10 DEF Contract!Next

LEMMA CreateJobPublishes ==
    ASSUME Typed, NEW w \in Workers, NEW o \in JobOrders, CreateJob(w, o)
    PROVE  Contract!Next
<1>1. PICK t \in Fresh(JobIds) : status' = [status EXCEPT ![t] = "pending"]
  BY DEF CreateJob
<1>2. t \notin IperfIds /\ t \in Tasks /\ status[t] = "unborn"
  BY <1>1, IdsAssumption DEF Fresh, Tasks
<1>3. status'[t] = "pending" /\ \A u \in Tasks : u # t => status'[u] = status[u]
  BY <1>1, <1>2 DEF Typed
<1>4. Offer[t] = "none" /\ Offer' = [Offer EXCEPT ![t] = "open"]
  BY <1>2, <1>3, OfferIs, OfferIsNext
<1>5. handed' = handed /\ ran' = ran
  BY DEF CreateJob
<1>6. Contract!Publish(t)
  BY <1>2, <1>4, <1>5 DEF Contract!Publish
<1> QED BY <1>2, <1>6 DEF Contract!Next

\* A reply that is still awaited takes parts nobody was handed before.
LEMMA PollTakes ==
    ASSUME Typed, Safe, NEW w \in Workers, CommitPoll(w), handed' = handed \cup Claims(w),
           agent[req[w].node].wait = w
    PROVE  Contract!Next
<1>1. req[w].op = "poll" /\ req[w].node \in Nodes /\ ran' = ran /\ RowsPresent(w)
  BY DEF CommitPoll, Safe, PollsSound
<1>2. Claims(w) \cap handed = {}
  BY <1>1, NullAssumption DEF Safe, NoRedelivery, LanesSound
<1>3. Claims(w) \in SUBSET (Tasks \X {"server", "client"})
  BY <1>1, ClaimsOwned DEF Items, Safe
<1>4. \A i \in Claims(w) : Offer[i[1]] # "none"
  BY <1>1, <1>3, OfferIs DEF Claims, Safe, PollsSound
<1> DEFINE clients == {i[1] : i \in {j \in Claims(w) : j[2] = "client"}}
<1>5. clients = req[w].hit
  <2>1. ASSUME NEW t \in req[w].hit PROVE t \in clients
    <3>1. <<t, "client">> \in {j \in Claims(w) : j[2] = "client"} /\ <<t, "client">>[1] = t
      BY DEF Claims
    <3> QED BY <3>1
  <2>2. ASSUME NEW t \in clients PROVE t \in req[w].hit
    BY DEF Claims
  <2> QED BY <2>1, <2>2
<1>6. \A t \in Tasks : status'[t] = IF t \in clients THEN "running" ELSE status[t]
  BY <1>5 DEF CommitPoll, Become
<1>7. \A t \in clients : Exists(t)
  BY <1>1, <1>5 DEF RowsPresent
<1>8. \A t \in Tasks : Offer'[t] = IF t \in clients /\ Offer[t] = "open" THEN "closed" ELSE Offer[t]
  BY <1>6, <1>7, OfferIs, OfferIsNext DEF Exists, Active, Terminal
<1>9. Offer' = [t \in Tasks |-> IF t \in clients /\ Offer[t] = "open" THEN "closed" ELSE Offer[t]]
  BY <1>8, OfferIsNext
<1>10. Contract!Take(Claims(w))
  BY <1>1, <1>2, <1>4, <1>9 DEF Contract!Take, Contract!Closing
<1> QED BY <1>3, <1>10 DEF Contract!Next

LEMMA BeginBegins ==
    ASSUME Typed, Safe, NEW n \in Nodes, Begin(n)
    PROVE  Contract!Next
<1>1. PICK i \in agent[n].batch : ran' = ran \cup {i}
  BY BeginPicks
<1>2. i \in handed \ ran /\ i \in Tasks \X {"server", "client"}
  BY DEF Safe, LanesSound, Typed, Items
<1>3. handed' = handed /\ Offer' = Offer
  BY DEF Begin, rows, Offer
<1>4. Contract!Begin(i)
  BY <1>1, <1>2, <1>3 DEF Contract!Begin
<1> QED BY <1>2, <1>4 DEF Contract!Next

\* Every other step withdraws offers at most.
LEMMA OtherStepsClose ==
    ASSUME Typed, RowsMove, handed' = handed, ran' = ran,
           \A t \in Tasks : status[t] = "unborn" => status'[t] = "unborn"
    PROVE  Contract!Next
<1> DEFINE S == {t \in Tasks : Offer'[t] # Offer[t]}
<1>1. \A t \in Tasks : Offer'[t] = IF t \in S /\ Offer[t] = "open" THEN "closed" ELSE Offer[t]
  BY OfferIs, OfferIsNext DEF RowsMove
<1>2. Contract!Closing(S)
  BY <1>1, OfferIsNext DEF Contract!Closing
<1>3. Contract!Close
  BY <1>2 DEF Contract!Close
<1> QED BY <1>3 DEF Contract!Next

\* Every behaviour of the dispatcher is one the contract allows.
THEOREM Refines == Spec => Implements
<1>1. Init => Contract!Init
  BY DEF Init, Contract!Init, Offer
<1>2. Typed /\ Safe /\ [Next]_vars => [Contract!Next]_(Contract!vars)
  <2> SUFFICES ASSUME Typed, Safe, [Next]_vars PROVE Contract!Next
    OBVIOUS
  <2>1. Moves
    BY StepsMove
  <2>2. CASE \E w \in Workers, o \in IperfOrders : Insert(w, o)
    BY <2>2, InsertPublishes
  <2>3. CASE \E w \in Workers, o \in JobOrders : CreateJob(w, o)
    BY <2>3, CreateJobPublishes
  <2>4. CASE \E w \in Workers : /\ CommitPoll(w) /\ handed' = handed \cup Claims(w)
                                /\ agent[req[w].node].wait = w
    BY <2>4, PollTakes
  <2>5. CASE \E n \in Nodes : Begin(n)
    BY <2>5, BeginBegins
  <2>6. CASE /\ handed' = handed /\ ran' = ran
             /\ \A t \in Tasks : status[t] = "unborn" => status'[t] = "unborn"
    BY <2>1, <2>6, OtherStepsClose DEF Moves
  <2> QED BY <2>1, <2>2, <2>3, <2>4, <2>5, <2>6 DEF Moves, Births, AgentsMove
<1> QED BY <1>1, <1>2, InvariantHolds, PTL DEF Spec, Implements, Contract!Spec
=============================================================================
