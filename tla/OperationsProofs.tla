-------------------------- MODULE OperationsProofs --------------------------
(***************************************************************************)
(* Proofs about the monitors, the alert rules, the website integrations    *)
(* and saves of websites, for any number of monitors, editors, rules,      *)
(* workers, visitors, modules and saves; and about all of them together.   *)
(***************************************************************************)
EXTENDS MCOperations, CollectionLemmas

(* Monitors and what the agent knows of them.                              *)

Results == [mon : Mons, ts : 1 .. MaxProbes, at : {"sent", "found", "stored"}]
Pendings == {e \in Editors : editing[e].at # "none"}

\* Each edit raises the counter at most once, whatever the editors have read.
BumpsBounded ==
  /\ IsFiniteSet(Pendings)
  /\ counter + Cardinality(Pendings) <= edits
  /\ \A e \in Editors : editing[e].at = "read" => editing[e].seen + Cardinality(Pendings) <= edits

\* The agent knows, and results are about, monitors that were created; a stored
\* result is in the history of its monitor, if that is there.
KnownCreated ==
  /\ \A m \in DOMAIN held.mons : rows[m] # New
  /\ \A m \in DOMAIN fetch.mons : rows[m] # New
  /\ \A r \in results : rows[r.mon] # New
  /\ \A r \in results : r.at = "stored" /\ Existing(r.mon) => r.ts \in checks[r.mon]

MonitorInv == MonitorTypeOK /\ BumpsBounded /\ KnownCreated

LEMMA NoneIsAnother == New # Gone /\ New # Elsewhere /\ Gone # Elsewhere
  <1>1. ASSUME NEW a, NEW b PROVE Cardinality({a, b}) # 3
    <2>1. IsFiniteSet({a}) /\ Cardinality({a}) = 1
      BY FS_Singleton
    <2>2. {a, b} = {a} \cup {b}
      OBVIOUS
    <2> QED BY <2>1, <2>2, FS_AddElement
  <1>2. New = Gone => {New, Gone, Elsewhere} = {Gone, Elsewhere}
    OBVIOUS
  <1>3. New = Elsewhere => {New, Gone, Elsewhere} = {Gone, Elsewhere}
    OBVIOUS
  <1>4. Gone = Elsewhere => {New, Gone, Elsewhere} = {New, Elsewhere}
    OBVIOUS
  <1>5. /\ {New, Gone, Elsewhere} # {Gone, Elsewhere}
        /\ {New, Gone, Elsewhere} # {New, Elsewhere}
    <2>1. Cardinality({Gone, Elsewhere}) # 3 /\ Cardinality({New, Elsewhere}) # 3
      BY <1>1
    <2> QED BY <2>1, MonitorAssumption
  <1> QED BY <1>2, <1>3, <1>4, <1>5

LEMMA ListsTyped ==
  /\ Nothing \in Lists /\ DOMAIN Nothing = {}
  /\ \A l \in Lists : DOMAIN l \subseteq Mons /\ \A m \in DOMAIN l : l[m] \in Targets
  /\ Shown(rows) \in Lists /\ DOMAIN Shown(rows) = {k \in Mons : rows[k] \in Targets}
  <1>1. Nothing \in [{} -> Targets] /\ DOMAIN Nothing = {}
    BY DEF Nothing
  <1>2. ASSUME NEW l \in Lists PROVE DOMAIN l \subseteq Mons /\ \A m \in DOMAIN l : l[m] \in Targets
    BY DEF Lists
  <1>3. Shown(rows) \in Lists /\ DOMAIN Shown(rows) = {k \in Mons : rows[k] \in Targets}
    <2> DEFINE S == {k \in Mons : rows[k] \in Targets}
    <2>1. Shown(rows) \in [S -> Targets] /\ S \in SUBSET Mons
      BY DEF Shown
    <2> QED BY <2>1 DEF Lists
  <1> QED BY <1>1, <1>2, <1>3 DEF Lists

LEMMA MonitorsStart == MonitorInit => MonitorInv
  <1> SUFFICES ASSUME MonitorInit PROVE MonitorInv
    OBVIOUS
  <1>1. MonitorTypeOK
    BY ListsTyped, MonitorAssumption DEF MonitorInit, MonitorTypeOK, NoBump, Unset, NoFetch
  <1>2. Pendings = {} /\ \A e \in Editors : editing[e].at = "none"
    BY DEF MonitorInit, Pendings, NoBump
  <1>3. BumpsBounded
    BY <1>2, FS_EmptySet DEF MonitorInit, BumpsBounded
  <1>4. KnownCreated
    BY ListsTyped DEF MonitorInit, KnownCreated, Unset, NoFetch
  <1> QED BY <1>1, <1>3, <1>4 DEF MonitorInv

LEMMA BumpsFinite ==
  ASSUME MonitorInv
  PROVE  /\ Cardinality(Pendings) \in Nat /\ counter \in Nat /\ edits \in Nat /\ edits <= MaxEdits
         /\ MaxEdits \in Nat
  BY FS_CardinalityType, MonitorAssumption DEF MonitorInv, BumpsBounded, MonitorTypeOK

\* An edit that is committed makes room for the bump that is to come.
LEMMA SavesKeep ==
  ASSUME MonitorInv, NEW e \in Editors, Saves(e)
  PROVE  /\ BumpsBounded' /\ edits' \in 0 .. MaxEdits
         /\ editing' \in [Editors -> [at : {"none", "saved", "read"}, seen : 0 .. MaxEdits]]
         /\ UNCHANGED <<counter, held, fetch, results, clock>>
  <1>1. /\ editing[e].at = "none" /\ edits < MaxEdits /\ edits' = edits + 1
        /\ editing' = [editing EXCEPT ![e].at = "saved"]
        /\ UNCHANGED <<counter, held, fetch, results, clock>>
    BY DEF Saves, NoBump
  <1>2. editing \in [Editors -> [at : {"none", "saved", "read"}, seen : 0 .. MaxEdits]]
    BY DEF MonitorInv, MonitorTypeOK
  <1>3. editing' \in [Editors -> [at : {"none", "saved", "read"}, seen : 0 .. MaxEdits]]
        /\ editing'[e].at = "saved" /\ \A o \in Editors : o # e => editing'[o] = editing[o]
    BY <1>1, <1>2
  <1>4. Pendings' = Pendings \cup {e} /\ e \notin Pendings
    BY <1>1, <1>3 DEF Pendings
  <1>5. IsFiniteSet(Pendings') /\ Cardinality(Pendings') = Cardinality(Pendings) + 1
    BY <1>4, FS_AddElement DEF MonitorInv, BumpsBounded
  <1>6. counter' + Cardinality(Pendings') <= edits' /\ edits' \in 0 .. MaxEdits
    BY <1>1, <1>5, BumpsFinite DEF MonitorInv, BumpsBounded
  <1>7. ASSUME NEW o \in Editors, editing'[o].at = "read"
        PROVE  editing'[o].seen + Cardinality(Pendings') <= edits'
    <2>1. o # e /\ editing'[o] = editing[o]
      BY <1>3, <1>7
    <2>2. editing[o].seen \in Nat /\ editing[o].seen + Cardinality(Pendings) <= edits
      BY <1>2, <1>7, <2>1 DEF MonitorInv, BumpsBounded
    <2> QED BY <1>1, <1>5, <2>1, <2>2, BumpsFinite
  <1> QED BY <1>1, <1>3, <1>5, <1>6, <1>7 DEF BumpsBounded

\* A bump that is over, done or not, gives the room back.
LEMMA BumpOver ==
  ASSUME MonitorInv, NEW e \in Editors, editing[e].at # "none",
         editing' = [editing EXCEPT ![e] = NoBump], UNCHANGED edits,
         counter' = counter \/ (editing[e].at = "read" /\ counter' = editing[e].seen + 1)
  PROVE  /\ BumpsBounded' /\ counter' \in 0 .. MaxEdits
         /\ editing' \in [Editors -> [at : {"none", "saved", "read"}, seen : 0 .. MaxEdits]]
  <1>1. editing \in [Editors -> [at : {"none", "saved", "read"}, seen : 0 .. MaxEdits]]
    BY DEF MonitorInv, MonitorTypeOK
  <1>2. NoBump \in [at : {"none", "saved", "read"}, seen : 0 .. MaxEdits] /\ NoBump.at = "none"
    BY MonitorAssumption DEF NoBump
  <1>3. editing' \in [Editors -> [at : {"none", "saved", "read"}, seen : 0 .. MaxEdits]]
        /\ editing'[e].at = "none" /\ \A o \in Editors : o # e => editing'[o] = editing[o]
    BY <1>1, <1>2
  <1>4. Pendings' = Pendings \ {e} /\ e \in Pendings
    BY <1>3 DEF Pendings
  <1>5. IsFiniteSet(Pendings') /\ Cardinality(Pendings') = Cardinality(Pendings) - 1
    BY <1>4, FS_RemoveElement DEF MonitorInv, BumpsBounded
  <1>a. Cardinality(Pendings') \in Nat
    BY <1>5, FS_CardinalityType
  <1>6. counter' + Cardinality(Pendings') <= edits' /\ counter' \in 0 .. MaxEdits
    <2>1. editing[e].seen \in Nat
      BY <1>1
    <2>2. editing[e].at = "read" => editing[e].seen + Cardinality(Pendings) <= edits
      BY DEF MonitorInv, BumpsBounded
    <2>3. counter + Cardinality(Pendings) <= edits
      BY DEF MonitorInv, BumpsBounded
    <2> QED BY <1>5, <1>a, <2>1, <2>2, <2>3, BumpsFinite
  <1>7. ASSUME NEW o \in Editors, editing'[o].at = "read"
        PROVE  editing'[o].seen + Cardinality(Pendings') <= edits'
    <2>1. o # e /\ editing'[o] = editing[o]
      BY <1>3, <1>7
    <2>2. editing[o].seen \in Nat /\ editing[o].seen + Cardinality(Pendings) <= edits
      BY <1>1, <1>7, <2>1 DEF MonitorInv, BumpsBounded
    <2> QED BY <1>5, <2>1, <2>2, BumpsFinite
  <1> QED BY <1>3, <1>5, <1>6, <1>7 DEF BumpsBounded

-----------------------------------------------------------------------------
LEMMA EditKeeps ==
  ASSUME MonitorInv, NEW e \in Editors, NEW m \in Mons, NEW t \in Targets \cup {Elsewhere},
         CreateMonitor(e, m, t) \/ UpdateMonitor(e, m, t) \/ RemoveMonitor(e, m)
  PROVE  MonitorInv'
  <1>1. Saves(e) /\ MonitorTypeOK /\ KnownCreated
    BY DEF CreateMonitor, UpdateMonitor, RemoveMonitor, MonitorInv
  <1>2. \E row \in Targets \cup {Gone, Elsewhere} : rows' = [rows EXCEPT ![m] = row]
    BY DEF CreateMonitor, UpdateMonitor, RemoveMonitor
  <1>3. /\ rows' \in [Mons -> Targets \cup {New, Gone, Elsewhere}]
        /\ rows'[m] # New /\ \A o \in Mons : o # m => rows'[o] = rows[o]
    BY <1>1, <1>2, MonitorAssumption, NoneIsAnother DEF MonitorTypeOK
  <1>4. \/ UNCHANGED <<checks, last>>
        \/ /\ rows'[m] = Gone
           /\ checks' = [checks EXCEPT ![m] = {}] /\ last' = [last EXCEPT ![m] = 0]
    <2>1. CASE RemoveMonitor(e, m)
      BY <1>1, <2>1 DEF RemoveMonitor, MonitorTypeOK
    <2>2. CASE ~RemoveMonitor(e, m)
      BY <2>2 DEF CreateMonitor, UpdateMonitor
    <2> QED BY <2>1, <2>2
  <1>5. /\ checks' \in [Mons -> SUBSET (1 .. MaxProbes)] /\ last' \in [Mons -> 0 .. MaxProbes]
        /\ \A o \in Mons : last'[o] # 0 => last'[o] \in checks'[o]
    BY <1>1, <1>4, MonitorAssumption DEF MonitorTypeOK
  <1>6. MonitorTypeOK'
    BY <1>1, <1>3, <1>5, SavesKeep DEF MonitorTypeOK
  <1>7. \A o \in Mons : rows[o] # New => rows'[o] # New
    BY <1>3
  <1>8. UNCHANGED <<held, fetch, results>>
    BY <1>1 DEF Saves
  <1>9. \A r \in results : r \in Results
    BY <1>1 DEF MonitorTypeOK, Results
  <1>10. DOMAIN held.mons \subseteq Mons /\ DOMAIN fetch.mons \subseteq Mons
    BY <1>1, ListsTyped DEF MonitorTypeOK
  <1>11. ASSUME NEW r \in results, r.at = "stored", rows'[r.mon] \notin {New, Gone}
         PROVE  r.ts \in checks'[r.mon]
    <2>1. rows[r.mon] # New /\ r.mon \in Mons
      BY <1>1, <1>9 DEF KnownCreated, Results
    <2>2. CASE UNCHANGED checks /\ rows[r.mon] \notin {New, Gone}
      BY <1>1, <1>11, <2>2 DEF KnownCreated, Existing
    <2>3. CASE rows'[m] = Gone /\ checks' = [checks EXCEPT ![m] = {}]
      <3>1. r.mon # m
        BY <1>11, <2>3
      <3>2. checks'[r.mon] = checks[r.mon] /\ rows[r.mon] = rows'[r.mon]
        BY <1>1, <1>3, <2>1, <2>3, <3>1 DEF MonitorTypeOK
      <3> QED BY <1>1, <1>11, <3>2 DEF KnownCreated, Existing
    <2>4. CASE UNCHANGED checks /\ rows[r.mon] \in {New, Gone}
      <3>1. r.mon = m /\ rows[m] = Gone
        BY <1>3, <1>11, <2>1, <2>4
      <3> QED BY <3>1, <1>11, NoneIsAnother DEF CreateMonitor, UpdateMonitor, RemoveMonitor, Existing
    <2> QED BY <1>4, <2>2, <2>3, <2>4
  <1>12. KnownCreated'
    BY <1>1, <1>7, <1>8, <1>9, <1>10, <1>11 DEF KnownCreated, Existing, Results
  <1> QED BY <1>1, <1>6, <1>12, SavesKeep DEF MonitorInv

\* The bump changes nothing else.
LEMMA BumpKeeps ==
  ASSUME MonitorInv, NEW e \in Editors, ReadCounter(e) \/ PutCounter(e) \/ BumpLost(e)
  PROVE  MonitorInv'
  <1>1. UNCHANGED <<rows, edits, held, fetch, checkVars>> /\ MonitorTypeOK /\ KnownCreated /\ BumpsBounded
    BY DEF ReadCounter, PutCounter, BumpLost, MonitorInv
  <1>2. BumpsBounded' /\ counter' \in 0 .. MaxEdits
        /\ editing' \in [Editors -> [at : {"none", "saved", "read"}, seen : 0 .. MaxEdits]]
    <2>1. CASE ReadCounter(e)
      <3>1. editing \in [Editors -> [at : {"none", "saved", "read"}, seen : 0 .. MaxEdits]]
            /\ counter \in 0 .. MaxEdits
        BY <1>1 DEF MonitorTypeOK
      <3>2. editing' \in [Editors -> [at : {"none", "saved", "read"}, seen : 0 .. MaxEdits]]
            /\ editing'[e].seen = counter /\ editing'[e].at = "read"
            /\ \A o \in Editors : o # e => editing'[o] = editing[o]
        BY <2>1, <3>1 DEF ReadCounter
      <3>3. Pendings' = Pendings
        BY <2>1, <3>2 DEF Pendings, ReadCounter
      <3> QED BY <2>1, <1>1, <3>1, <3>2, <3>3 DEF BumpsBounded, ReadCounter
    <2>2. CASE PutCounter(e)
      BY <2>2, BumpOver DEF PutCounter
    <2>3. CASE BumpLost(e)
      BY <2>3, BumpOver, <1>1 DEF BumpLost
    <2> QED BY <2>1, <2>2, <2>3
  <1>3. MonitorTypeOK'
    BY <1>1, <1>2 DEF MonitorTypeOK, checkVars
  <1>4. KnownCreated'
    BY <1>1 DEF KnownCreated, Existing, checkVars
  <1> QED BY <1>2, <1>3, <1>4 DEF MonitorInv

LEMMA FetchKeeps ==
  ASSUME MonitorInv,
         Refresh \/ ReadList \/ ReadVersion \/ Adopt \/ FetchFails \/ AgentRestarts
  PROVE  MonitorInv'
  <1> DEFINE Fetches == [at : {"none", "asked", "listed", "answered"}, version : 0 .. MaxEdits, mons : Lists]
             Holds == [version : 0 .. MaxEdits, mons : Lists]
  <1>1. UNCHANGED <<rows, counter, editing, checkVars>> /\ MonitorTypeOK /\ KnownCreated /\ BumpsBounded
    BY DEF Refresh, ReadList, ReadVersion, Adopt, FetchFails, AgentRestarts, MonitorInv
  <1>2. fetch \in Fetches /\ held \in Holds /\ counter \in 0 .. MaxEdits
    BY <1>1 DEF MonitorTypeOK
  <1>3. NoFetch \in Fetches /\ Unset \in Holds /\ NoFetch.mons = Nothing /\ Unset.mons = Nothing
    BY ListsTyped, MonitorAssumption DEF NoFetch, Unset
  <1>4. /\ fetch' \in Fetches /\ held' \in Holds
        /\ fetch'.mons \in {Nothing, fetch.mons, Shown(rows)} /\ held'.mons \in {Nothing, held.mons, fetch.mons}
    <2>1. CASE Refresh
      <3>1. fetch' = [at |-> "asked", version |-> 0, mons |-> Nothing] /\ UNCHANGED held
        BY <2>1 DEF Refresh, NoFetch
      <3> QED BY <1>2, <3>1, ListsTyped, MonitorAssumption
    <2>2. CASE ReadList
      <3>1. fetch' = [at |-> "listed", version |-> fetch.version, mons |-> Shown(rows)] /\ UNCHANGED held
        BY <2>2, <1>2 DEF ReadList
      <3> QED BY <1>1, <1>2, <3>1, ListsTyped
    <2>3. CASE ReadVersion
      <3>1. fetch' = [at |-> "answered", version |-> counter, mons |-> fetch.mons] /\ UNCHANGED held
        BY <2>3, <1>2 DEF ReadVersion
      <3> QED BY <1>2, <3>1
    <2>4. CASE Adopt
      <3>1. fetch' = NoFetch /\ held' = [version |-> fetch.version, mons |-> fetch.mons]
        BY <2>4 DEF Adopt, Applied
      <3> QED BY <1>2, <1>3, <3>1
    <2>5. CASE FetchFails \/ AgentRestarts
      <3>1. fetch' = NoFetch /\ (held' = held \/ held' = Unset)
        BY <2>5 DEF FetchFails, AgentRestarts
      <3> QED BY <1>2, <1>3, <3>1
    <2> QED BY <2>1, <2>2, <2>3, <2>4, <2>5
  <1>5. edits' \in 0 .. MaxEdits /\ edits' >= edits /\ edits \in 0 .. MaxEdits
    BY <1>1, MonitorAssumption DEF Refresh, ReadList, ReadVersion, Adopt, FetchFails, AgentRestarts, MonitorTypeOK
  <1>6. MonitorTypeOK'
    BY <1>1, <1>4, <1>5 DEF MonitorTypeOK, checkVars
  <1>7. BumpsBounded'
    <2>1. Pendings' = Pendings /\ Cardinality(Pendings) \in Nat /\ counter \in Nat
      BY <1>1, BumpsFinite DEF Pendings
    <2>2. \A e \in Editors : editing[e].seen \in Nat
      BY <1>1 DEF MonitorTypeOK
    <2> QED BY <1>1, <1>5, <2>1, <2>2 DEF BumpsBounded
  <1>8. \A m \in DOMAIN Shown(rows) : rows[m] # New
    BY <1>1, ListsTyped, MonitorAssumption
  <1>9. KnownCreated'
    BY <1>1, <1>4, <1>8, ListsTyped DEF KnownCreated, Existing, checkVars
  <1> QED BY <1>6, <1>7, <1>9 DEF MonitorInv

-----------------------------------------------------------------------------
\* What a step of a probe or its result may do.
LEMMA ResultKeeps ==
  ASSUME MonitorInv, UNCHANGED configVars,
         results' \subseteq Results, clock' \in 0 .. MaxProbes,
         checks' \in [Mons -> SUBSET (1 .. MaxProbes)], last' \in [Mons -> 0 .. MaxProbes],
         \A m \in Mons : checks[m] \subseteq checks'[m],
         \A m \in Mons : last'[m] # last[m] => last'[m] \in checks'[m],
         \A r \in results' : r \in results \/ rows[r.mon] # New,
         \A r \in results' : r \in results \/ (r.at = "stored" => r.ts \in checks'[r.mon])
  PROVE  MonitorInv'
  <1>1. MonitorTypeOK /\ KnownCreated /\ BumpsBounded
    BY DEF MonitorInv
  <1>2. MonitorTypeOK'
    <2>1. \A m \in Mons : last'[m] # 0 => last'[m] \in checks'[m]
      BY <1>1 DEF MonitorTypeOK
    <2> QED BY <1>1, <2>1 DEF MonitorTypeOK, configVars, Results
  <1>3. BumpsBounded'
    BY <1>1 DEF BumpsBounded, Pendings, configVars
  <1>4. KnownCreated'
    <2>1. \A r \in results' : rows[r.mon] # New
      BY <1>1 DEF KnownCreated
    <2>2. ASSUME NEW r \in results', r.at = "stored", Existing(r.mon)
          PROVE  r.ts \in checks'[r.mon]
      BY <1>1, <2>2 DEF KnownCreated, Results
    <2> QED BY <1>1, <2>1, <2>2 DEF KnownCreated, Existing, configVars
  <1> QED BY <1>2, <1>3, <1>4 DEF MonitorInv

LEMMA Forwarded ==
  ASSUME MonitorInv, NEW r \in results, NEW at \in {"found", "stored"}, Forward(r, at)
  PROVE  /\ results' \subseteq Results
         /\ \A q \in results' : q \in results \/ (q.mon = r.mon /\ q.ts = r.ts /\ q.at = at)
  <1>1. r \in Results /\ results \subseteq Results
    BY DEF MonitorInv, MonitorTypeOK, Results
  <1>2. PICK q : q = [r EXCEPT !.at = at]
    OBVIOUS
  <1>3. q \in Results /\ q.mon = r.mon /\ q.ts = r.ts /\ q.at = at
    BY <1>1, <1>2 DEF Results
  <1>4. results' = (results \ {r}) \cup {q}
    BY <1>2 DEF Forward
  <1> QED BY <1>1, <1>3, <1>4

LEMMA ProbeKeeps ==
  ASSUME MonitorInv, NEW m \in Mons, Probe(m)
  PROVE  MonitorInv'
  <1>1. MonitorTypeOK /\ KnownCreated
    BY DEF MonitorInv
  <1>2. PICK q : q = [mon |-> m, ts |-> clock + 1, at |-> "sent"]
    OBVIOUS
  <1>3. q \in Results /\ q.at = "sent" /\ q.mon = m /\ clock' \in 0 .. MaxProbes
    BY <1>1, <1>2, MonitorAssumption DEF Probe, MonitorTypeOK, Results
  <1>4. results' = results \cup {q} /\ UNCHANGED <<configVars, checks, last>> /\ rows[m] # New
    BY <1>1, <1>2 DEF Probe, KnownCreated
  <1> QED BY <1>1, <1>3, <1>4, ResultKeeps DEF MonitorTypeOK, Results

LEMMA ResultServed ==
  ASSUME MonitorInv, NEW r \in results,
         LookUp(r) \/ InsertCheck(r) \/ UpdateLast(r) \/ ResultLost(r)
  PROVE  MonitorInv'
  <1>1. MonitorTypeOK /\ KnownCreated /\ r \in Results /\ rows[r.mon] # New /\ results \subseteq Results
    BY DEF MonitorInv, KnownCreated, MonitorTypeOK, Results
  <1>2. UNCHANGED <<configVars, clock>> /\ clock \in 0 .. MaxProbes
    BY <1>1 DEF LookUp, InsertCheck, UpdateLast, ResultLost, MonitorTypeOK
  <1>3. checks \in [Mons -> SUBSET (1 .. MaxProbes)] /\ last \in [Mons -> 0 .. MaxProbes]
    BY <1>1 DEF MonitorTypeOK
  <1>4. CASE LookUp(r)
    <2>1. UNCHANGED <<checks, last>>
      BY <1>4 DEF LookUp
    <2>2. results' \subseteq Results /\ \A q \in results' : q \in results \/ (q.mon = r.mon /\ q.at = "found")
      BY <1>1, <1>4, Forwarded DEF LookUp
    <2> QED BY <1>1, <1>2, <1>3, <2>1, <2>2, ResultKeeps
  <1>5. CASE InsertCheck(r) /\ Existing(r.mon)
    <2>1. UNCHANGED last /\ Forward(r, "stored") /\ checks' = [checks EXCEPT ![r.mon] = checks[r.mon] \cup {r.ts}]
      BY <1>5 DEF InsertCheck
    <2>2. results' \subseteq Results
          /\ \A q \in results' : q \in results \/ (q.mon = r.mon /\ q.ts = r.ts /\ q.at = "stored")
      BY <2>1, Forwarded
    <2>3. r.mon \in Mons /\ r.ts \in 1 .. MaxProbes
      BY <1>1 DEF Results
    <2>4. /\ checks' \in [Mons -> SUBSET (1 .. MaxProbes)]
          /\ \A m \in Mons : checks[m] \subseteq checks'[m]
          /\ r.ts \in checks'[r.mon]
      BY <1>3, <2>1, <2>3
    <2> QED BY <1>1, <1>2, <1>3, <2>1, <2>2, <2>4, ResultKeeps
  <1>6. CASE (InsertCheck(r) /\ ~Existing(r.mon)) \/ ResultLost(r)
    <2>1. UNCHANGED <<checks, last>> /\ results' = results \ {r}
      BY <1>6 DEF InsertCheck, ResultLost
    <2> QED BY <1>1, <1>2, <1>3, <2>1, ResultKeeps
  <1>7. CASE UpdateLast(r)
    <2>1. UNCHANGED checks /\ results' = results \ {r}
      BY <1>7 DEF UpdateLast
    <2>2. /\ last' \in [Mons -> 0 .. MaxProbes]
          /\ \A m \in Mons : last'[m] # last[m] => last'[m] \in checks[m]
      <3>1. CASE Existing(r.mon)
        <4>1. r.ts \in checks[r.mon] /\ r.mon \in Mons /\ r.ts \in 0 .. MaxProbes
          BY <1>1, <1>7, <3>1 DEF KnownCreated, UpdateLast, Results
        <4>2. last' = [last EXCEPT ![r.mon] = r.ts]
          BY <1>7, <3>1 DEF UpdateLast, Updatable
        <4> QED BY <1>3, <4>1, <4>2
      <3>2. CASE ~Existing(r.mon)
        BY <1>3, <1>7, <3>2 DEF UpdateLast, Updatable
      <3> QED BY <3>1, <3>2
    <2> QED BY <1>1, <1>2, <1>3, <2>1, <2>2, ResultKeeps
  <1> QED BY <1>4, <1>5, <1>6, <1>7

LEMMA MonitorsKept == MonitorInv /\ [MonitorNext]_monitorVars => MonitorInv'
  <1> SUFFICES ASSUME MonitorInv, [MonitorNext]_monitorVars PROVE MonitorInv'
    OBVIOUS
  <1>1. CASE UNCHANGED monitorVars
    BY <1>1 DEF monitorVars, configVars, checkVars, MonitorInv, MonitorTypeOK, BumpsBounded,
       Pendings, KnownCreated, Existing
  <1> QED BY <1>1, EditKeeps, BumpKeeps, FetchKeeps, ProbeKeeps, ResultServed DEF MonitorNext, Edit

\* The counter never outruns the edits, and the last check a monitor shows is one of
\* its history, for any monitors, editors and late results (repositories/monitor.py).
THEOREM MonitorsTyped == MonitorSpec => []MonitorTypeOK
  BY MonitorsStart, MonitorsKept, PTL DEF MonitorSpec, MonitorInv
-----------------------------------------------------------------------------
(* The evaluation of alert rules.                                          *)

\* What an evaluation changes is never committed: the stored state is the first.
NeverCommitted == \A r \in Rules : rule[r] # NoRule => slot[r] = Fresh

AlertInv == TypeOK /\ NeverCommitted

LEMMA AlertsStart == Init => AlertInv
  BY DEF Init, AlertInv, TypeOK, NeverCommitted, Closed, NoRows, Quiet, Bells

LEMMA SessionsTyped ==
  ASSUME TypeOK, NEW w \in Workers
  PROVE  /\ session[w].todo \in [Rules -> {NoRule} \cup Rows]
         /\ session[w].dirty \in [Rules -> {NoRule} \cup Slots]
         /\ Closed \in [todo : [Rules -> {NoRule} \cup Rows], dirty : [Rules -> {NoRule} \cup Slots]]
  BY DEF TypeOK, Closed, NoRows

LEMMA EvaluateKeeps ==
  ASSUME AlertInv, NEW w \in Workers, NEW r \in Rules, Evaluate(w, r)
  PROVE  AlertInv'
  <1> DEFINE s == slot[r]
             d == session[w].todo[r].debounce
             new == Evaluated(s, target[r], d)
             one == [session[w] EXCEPT !.todo[r] = NoRule, !.dirty[r] = new]
  <1>1. s = Fresh /\ UNCHANGED <<rule, slot, target>>
    BY DEF Evaluate, AlertInv, NeverCommitted
  <1>2. new \in Slots
    <2>1. target[r] \in Looks
      BY DEF AlertInv, TypeOK
    <2>2. Fresh \in Slots /\ [state |-> "firing", bad |-> Fresh.bad + 1] \in Slots
          /\ [state |-> Fresh.state, bad |-> Fresh.bad + 1] \in Slots
      BY DEF Fresh, Slots
    <2> QED BY <1>1, <2>1, <2>2 DEF Evaluated, Looks
  <1>3. session' = [session EXCEPT ![w] = one]
    BY DEF Evaluate
  <1>4. one \in [todo : [Rules -> {NoRule} \cup Rows], dirty : [Rules -> {NoRule} \cup Slots]]
    <2> HIDE DEF new
    <2>1. session[w] \in [todo : [Rules -> {NoRule} \cup Rows], dirty : [Rules -> {NoRule} \cup Slots]]
      BY DEF AlertInv, TypeOK
    <2> QED BY <1>2, <2>1
  <1>5. streak' \in [Rules -> Nat]
    <2>1. Counted(streak[r], s, target[r]) \in Nat
      BY DEF Counted, AlertInv, TypeOK
    <2>2. streak' = [streak EXCEPT ![r] = Counted(streak[r], s, target[r])]
      BY DEF Evaluate
    <2> QED BY <2>1, <2>2 DEF AlertInv, TypeOK
  <1>6. bell' \in Bells
    <2>1. \A event \in {"fired", "resolved", "remind"} : [rule |-> r, event |-> event] \in Bells
      BY DEF Bells
    <2>2. bell' \in {bell, [rule |-> r, event |-> "fired"], [rule |-> r, event |-> "resolved"],
                     [rule |-> r, event |-> "remind"]}
      BY DEF Evaluate
    <2> QED BY <2>1, <2>2 DEF AlertInv, TypeOK
  <1> HIDE DEF one
  <1>7. session' \in [Workers -> [todo : [Rules -> {NoRule} \cup Rows],
                                  dirty : [Rules -> {NoRule} \cup Slots]]]
    BY <1>3, <1>4 DEF AlertInv, TypeOK
  <1> QED BY <1>1, <1>5, <1>6, <1>7 DEF AlertInv, TypeOK, NeverCommitted

LEMMA AlertsKept == AlertInv /\ [Next]_vars => AlertInv'
  <1> SUFFICES ASSUME AlertInv, [Next]_vars PROVE AlertInv'
    OBVIOUS
  <1> USE DEF AlertInv, TypeOK, NeverCommitted
  <1>1. ASSUME NEW r \in Rules, NEW d \in Debounces, Create(r, d) PROVE AlertInv'
    BY <1>1 DEF Create, Restart, Rows, Slots, Fresh
  <1>2. ASSUME NEW r \in Rules, NEW d \in Debounces, NEW on \in BOOLEAN, Update(r, d, on) PROVE AlertInv'
    BY <1>2 DEF Update, Restart, Rows
  <1>3. ASSUME NEW r \in Rules, Delete(r) PROVE AlertInv'
    BY <1>3 DEF Delete
  <1>4. ASSUME NEW r \in Rules, NEW look \in Looks, Change(r, look) PROVE AlertInv'
    BY <1>4 DEF Change
  <1>5. ASSUME NEW w \in Workers, NEW S \in SUBSET Rules, LookAt(w, S) PROVE AlertInv'
    <2> DEFINE todo == [r \in Rules |-> IF r \in S THEN rule[r] ELSE NoRule]
    <2>1. todo \in [Rules -> {NoRule} \cup Rows]
      OBVIOUS
    <2>2. session' = [session EXCEPT ![w].todo = todo] /\ UNCHANGED <<rule, slot, target, bell, streak>>
      BY <1>5 DEF LookAt
    <2> HIDE DEF todo
    <2> QED BY <2>1, <2>2
  <1>6. ASSUME NEW w \in Workers, NEW r \in Rules, Evaluate(w, r) PROVE AlertInv'
    BY <1>6, EvaluateKeeps
  <1>7. ASSUME NEW w \in Workers, NEW r \in Rules, Fail(w, r) PROVE AlertInv'
    BY <1>7, SessionsTyped DEF Fail
  <1>8. ASSUME NEW w \in Workers, Close(w) PROVE AlertInv'
    BY <1>8, SessionsTyped DEF Close
  <1>9. CASE UNCHANGED vars
    BY <1>9 DEF vars
  <1> QED BY <1>1, <1>2, <1>3, <1>4, <1>5, <1>6, <1>7, <1>8, <1>9 DEF Next

-----------------------------------------------------------------------------
(* Integrations behind the proxy.                                          *)

Asks == [at : {"out", "launch"} \cup Served, mod : Mods \cup {NoMod},
         login : Logins \cup {NoMod}, ticket : 0 .. MaxTickets]
Sealed(ttl) == [serial : Tickets, mod : Mods, login : Logins, left : 0 .. ttl]
Inside == {v \in Visitors : visitor[v].at \in Served}
InsideOf(m) == {v \in Visitors : visitor[v].at \in Served /\ visitor[v].mod = m}

RecordsTyped ==
  /\ mods \in [Mods -> {"new", "on", "off", "gone"}]
  /\ injected \in [Mods -> [draft : Versions, active : Versions \ {"bad"},
                            previous : Versions \ {"bad"}]]
  /\ tickets \subseteq Sealed(TicketTTL)
  /\ grants \subseteq Sealed(GrantTTL)
  /\ alive \subseteq Logins
  /\ issues \in 0 .. MaxTickets

\* Whoever is under way is so for a module, and only launches know a session.
VisitorsTyped ==
  /\ visitor \in [Visitors -> Asks]
  /\ \A v \in Visitors : visitor[v].at # "out" => visitor[v].mod \in Mods
  /\ \A v \in Visitors : visitor[v].at = "launch" => visitor[v].login \in Logins

\* The requests and sockets under way are finitely many, and the counters count them.
CountersTrue ==
  /\ inflight \in [total : Nat, of : [Mods -> Nat]]
  /\ IsFiniteSet(Inside)
  /\ inflight.total = Cardinality(Inside) /\ inflight.total <= MaxInflight
  /\ \A m \in Mods : inflight.of[m] = Cardinality(InsideOf(m)) /\ inflight.of[m] <= MaxPerModule

IntegrationInv == RecordsTyped /\ VisitorsTyped /\ CountersTrue

LEMMA IntegrationsStart == IntegrationInit => IntegrationInv
  <1> SUFFICES ASSUME IntegrationInit PROVE IntegrationInv
    OBVIOUS
  <1>1. RecordsTyped
    BY IntegrationAssumption DEF IntegrationInit, RecordsTyped, Blank, Versions
  <1>2. \A v \in Visitors : visitor[v] = Out
    BY DEF IntegrationInit
  <1>3. VisitorsTyped
    BY <1>2, IntegrationAssumption DEF IntegrationInit, VisitorsTyped, Asks, Out
  <1>4. Inside = {} /\ \A m \in Mods : InsideOf(m) = {}
    BY <1>2 DEF Inside, InsideOf, Served, Out
  <1>5. CountersTrue
    BY <1>4, FS_EmptySet, IntegrationAssumption DEF IntegrationInit, CountersTrue
  <1> QED BY <1>1, <1>3, <1>5 DEF IntegrationInv

LEMMA UnexpiredTyped ==
  ASSUME RecordsTyped
  PROVE  /\ Unexpired(tickets) \subseteq Sealed(TicketTTL) /\ Unexpired(grants) \subseteq Sealed(GrantTTL)
         /\ Elapsed(tickets) \subseteq Sealed(TicketTTL) /\ Elapsed(grants) \subseteq Sealed(GrantTTL)
         /\ \A m : Without(tickets, m) \subseteq Sealed(TicketTTL) /\ Without(grants, m) \subseteq Sealed(GrantTTL)
  <1>1. ASSUME NEW n \in Nat, NEW records, records \subseteq Sealed(n)
        PROVE  Elapsed(records) \subseteq Sealed(n)
    <2> SUFFICES ASSUME NEW q \in records, q.left > 0
                 PROVE  [q EXCEPT !.left = q.left - 1] \in Sealed(n)
      BY DEF Elapsed
    <2>1. q \in Sealed(n) /\ q.left - 1 \in 0 .. n
      BY <1>1 DEF Sealed
    <2> QED BY <2>1 DEF Sealed
  <1>2. TicketTTL \in Nat /\ GrantTTL \in Nat
    BY IntegrationAssumption
  <1>3. Elapsed(tickets) \subseteq Sealed(TicketTTL) /\ Elapsed(grants) \subseteq Sealed(GrantTTL)
    BY <1>1, <1>2 DEF RecordsTyped
  <1> QED BY <1>3 DEF RecordsTyped, Unexpired, Without

-----------------------------------------------------------------------------
\* The dispatcher's counters.

LEMMA InsideFinite ==
  ASSUME CountersTrue, NEW m \in Mods
  PROVE  IsFiniteSet(InsideOf(m)) /\ Cardinality(Inside) \in Nat /\ Cardinality(InsideOf(m)) \in Nat
  <1>1. InsideOf(m) \subseteq Inside
    BY DEF Inside, InsideOf
  <1> QED BY <1>1, FS_Subset, FS_CardinalityType DEF CountersTrue

LEMMA CountsIn ==
  ASSUME IntegrationInv, NEW v \in Visitors, NEW m \in Mods, NEW r \in Asks,
         Is(v, "out"), Room(m), CountIn(m), Becomes(v, r), r.at \in Served, r.mod = m
  PROVE  CountersTrue'
  <1>1. \A w \in Visitors : visitor'[w] = IF w = v THEN r ELSE visitor[w]
    BY DEF Becomes, IntegrationInv, VisitorsTyped
  <1>2. v \notin Inside /\ v \notin InsideOf(m)
    BY DEF Is, Inside, InsideOf, Served
  <1>3. Inside' = Inside \cup {v}
    BY <1>1 DEF Inside
  <1>4. InsideOf(m)' = InsideOf(m) \cup {v}
    BY <1>1 DEF InsideOf
  <1>5. \A o \in Mods : o # m => InsideOf(o)' = InsideOf(o)
    BY <1>1, <1>2 DEF InsideOf, Is, Served
  <1>6. /\ inflight.total \in Nat /\ inflight.of \in [Mods -> Nat]
        /\ inflight' = [total |-> inflight.total + 1, of |-> [inflight.of EXCEPT ![m] = inflight.of[m] + 1]]
    BY DEF CountIn, IntegrationInv, CountersTrue
  <1>7. /\ inflight' \in [total : Nat, of : [Mods -> Nat]]
        /\ inflight'.total = inflight.total + 1
        /\ inflight'.of[m] = inflight.of[m] + 1
        /\ \A o \in Mods : o # m => inflight'.of[o] = inflight.of[o]
    BY <1>6
  <1>8. inflight.total = Cardinality(Inside) /\ inflight.of[m] = Cardinality(InsideOf(m))
        /\ IsFiniteSet(Inside) /\ IsFiniteSet(InsideOf(m))
    BY InsideFinite DEF IntegrationInv, CountersTrue
  <1>9. IsFiniteSet(Inside') /\ Cardinality(Inside') = Cardinality(Inside) + 1
    BY <1>2, <1>3, <1>8, FS_AddElement
  <1>10. Cardinality(InsideOf(m)') = Cardinality(InsideOf(m)) + 1
    BY <1>2, <1>4, <1>8, FS_AddElement
  <1>11. inflight'.total <= MaxInflight /\ inflight'.of[m] <= MaxPerModule
    BY <1>6, <1>7, IntegrationAssumption DEF Room
  <1>12. ASSUME NEW o \in Mods
         PROVE  inflight'.of[o] = Cardinality(InsideOf(o)') /\ inflight'.of[o] <= MaxPerModule
    <2>1. CASE o = m
      BY <1>7, <1>8, <1>10, <1>11, <2>1
    <2>2. CASE o # m
      BY <1>5, <1>7, <2>2 DEF IntegrationInv, CountersTrue
    <2> QED BY <2>1, <2>2
  <1>13. (\A o \in Mods : inflight.of[o] = Cardinality(InsideOf(o)) /\ inflight.of[o] <= MaxPerModule)'
    BY <1>12
  <1> QED BY <1>7, <1>8, <1>9, <1>11, <1>13 DEF CountersTrue

LEMMA CountsOut ==
  ASSUME IntegrationInv, NEW v \in Visitors, visitor[v].at \in Served,
         CountOut(visitor[v].mod), Becomes(v, Out)
  PROVE  CountersTrue'
  <1> DEFINE m == visitor[v].mod
  <1>1. \A w \in Visitors : visitor'[w] = IF w = v THEN Out ELSE visitor[w]
    BY DEF Becomes, IntegrationInv, VisitorsTyped
  <1>2. v \in Inside /\ v \in InsideOf(m) /\ m \in Mods
    BY DEF Inside, InsideOf, Served, IntegrationInv, VisitorsTyped
  <1>a. PICK k \in Mods : k = m
    BY <1>2
  <1>3. Inside' = Inside \ {v}
    BY <1>1 DEF Inside, Out, Served
  <1>4. InsideOf(k)' = InsideOf(k) \ {v}
    BY <1>1 DEF InsideOf, Out, Served
  <1>5. \A o \in Mods : o # k => InsideOf(o)' = InsideOf(o)
    BY <1>1, <1>a DEF InsideOf, Out, Served
  <1>6. /\ inflight.total \in Nat /\ inflight.of \in [Mods -> Nat]
        /\ inflight' = [total |-> inflight.total - 1, of |-> [inflight.of EXCEPT ![k] = inflight.of[k] - 1]]
    BY <1>a DEF CountOut, IntegrationInv, CountersTrue
  <1>8. inflight.total = Cardinality(Inside) /\ inflight.of[k] = Cardinality(InsideOf(k))
        /\ IsFiniteSet(Inside) /\ IsFiniteSet(InsideOf(k))
    BY InsideFinite DEF IntegrationInv, CountersTrue
  <1>9. IsFiniteSet(Inside') /\ Cardinality(Inside') = Cardinality(Inside) - 1
    BY <1>2, <1>3, <1>8, FS_RemoveElement
  <1>10. IsFiniteSet(InsideOf(k)') /\ Cardinality(InsideOf(k)') = Cardinality(InsideOf(k)) - 1
    BY <1>2, <1>a, <1>4, <1>8, FS_RemoveElement
  <1>11. Cardinality(Inside') \in Nat /\ Cardinality(InsideOf(k)') \in Nat
    BY <1>9, <1>10, FS_CardinalityType
  <1>7. /\ inflight' \in [total : Nat, of : [Mods -> Nat]]
        /\ inflight'.total = inflight.total - 1
        /\ inflight'.of[k] = inflight.of[k] - 1
        /\ \A o \in Mods : o # k => inflight'.of[o] = inflight.of[o]
    BY <1>6, <1>8, <1>9, <1>10, <1>11
  <1>12. inflight.total <= MaxInflight /\ inflight.of[k] <= MaxPerModule
    BY DEF IntegrationInv, CountersTrue
  <1>13. inflight'.total <= MaxInflight /\ inflight'.of[k] <= MaxPerModule
    BY <1>6, <1>7, <1>12, IntegrationAssumption
  <1>14. ASSUME NEW o \in Mods
         PROVE  inflight'.of[o] = Cardinality(InsideOf(o)') /\ inflight'.of[o] <= MaxPerModule
    <2>1. CASE o = k
      BY <1>7, <1>8, <1>10, <1>13, <2>1
    <2>2. CASE o # k
      BY <1>5, <1>7, <2>2 DEF IntegrationInv, CountersTrue
    <2> QED BY <2>1, <2>2
  <1>15. (\A o \in Mods : inflight.of[o] = Cardinality(InsideOf(o)) /\ inflight.of[o] <= MaxPerModule)'
    BY <1>14
  <1> QED BY <1>7, <1>8, <1>9, <1>13, <1>15 DEF CountersTrue

\* A step in which nobody comes in or goes out leaves the counters true.
LEMMA CountsStay ==
  ASSUME IntegrationInv, UNCHANGED inflight, NEW v \in Visitors, NEW r \in Asks, Becomes(v, r),
         \/ visitor[v].at \notin Served /\ r.at \notin Served
         \/ visitor[v].at \in Served /\ r.at \in Served /\ r.mod = visitor[v].mod
  PROVE  CountersTrue'
  <1>1. \A w \in Visitors : visitor'[w] = IF w = v THEN r ELSE visitor[w]
    BY DEF Becomes, IntegrationInv, VisitorsTyped
  <1>2. Inside' = Inside
    BY <1>1 DEF Inside
  <1>3. \A m \in Mods : InsideOf(m)' = InsideOf(m)
    BY <1>1 DEF InsideOf
  <1> QED BY <1>2, <1>3 DEF IntegrationInv, CountersTrue

\* What a request becomes keeps the requests typed.
LEMMA VisitorBecomes ==
  ASSUME IntegrationInv, NEW v \in Visitors, NEW r \in Asks, Becomes(v, r),
         r.at # "out" => r.mod \in Mods, r.at = "launch" => r.login \in Logins
  PROVE  VisitorsTyped'
  <1>1. visitor' \in [Visitors -> Asks] /\ \A w \in Visitors : visitor'[w] = IF w = v THEN r ELSE visitor[w]
    BY DEF Becomes, IntegrationInv, VisitorsTyped
  <1> QED BY <1>1 DEF IntegrationInv, VisitorsTyped

LEMMA OutIsAsk == Out \in Asks /\ Out.at = "out" /\ Out.at \notin Served
  BY IntegrationAssumption DEF Out, Asks, Served

-----------------------------------------------------------------------------
LEMMA IntegrationsKept == IntegrationInv /\ [IntegrationNext]_integrationVars => IntegrationInv'
  <1> SUFFICES ASSUME IntegrationInv, [IntegrationNext]_integrationVars PROVE IntegrationInv'
    OBVIOUS
  <1>a. RecordsTyped /\ VisitorsTyped /\ CountersTrue
    BY DEF IntegrationInv
  <1>b. UNCHANGED <<visitor, inflight>> => VisitorsTyped' /\ CountersTrue'
    BY <1>a DEF VisitorsTyped, CountersTrue, Inside, InsideOf
  <1>1. CASE IntegrationTick
    <2>1. RecordsTyped'
      BY <1>1, <1>a, UnexpiredTyped DEF IntegrationTick, RecordsTyped
    <2> QED BY <1>1, <1>b, <2>1 DEF IntegrationTick, IntegrationInv
  <1>2. CASE CreateModule \/ PatchModule \/ DeleteModule
    <2>1. CASE CreateModule
      <3>1. RecordsTyped'
        BY <2>1, <1>a DEF CreateModule, RecordsTyped
      <3> QED BY <2>1, <1>b, <3>1 DEF CreateModule, IntegrationInv
    <2>2. CASE PatchModule
      <3>1. RecordsTyped'
        BY <2>2, <1>a, UnexpiredTyped DEF PatchModule, RecordsTyped
      <3> QED BY <2>2, <1>b, <3>1 DEF PatchModule, IntegrationInv
    <2>3. CASE DeleteModule
      <3>1. Blank \in [draft : Versions, active : Versions \ {"bad"}, previous : Versions \ {"bad"}]
        BY DEF Blank, Versions
      <3>2. RecordsTyped'
        BY <2>3, <3>1, <1>a, UnexpiredTyped DEF DeleteModule, RecordsTyped
      <3> QED BY <2>3, <1>b, <3>2 DEF DeleteModule, IntegrationInv
    <2> QED BY <1>2, <2>1, <2>2, <2>3
  <1>3. CASE Draft \/ Apply \/ Rollback
    <2>1. UNCHANGED <<mods, tickets, grants, alive, visitor, inflight, issues>>
      BY <1>3 DEF Draft, Apply, Rollback
    <2>2. injected' \in [Mods -> [draft : Versions, active : Versions \ {"bad"},
                                  previous : Versions \ {"bad"}]]
      <3> DEFINE V == [draft : Versions, active : Versions \ {"bad"}, previous : Versions \ {"bad"}]
      <3>1. injected \in [Mods -> V]
        BY <1>a DEF RecordsTyped
      <3>2. ASSUME NEW m \in Mods, NEW d \in {"good", "bad"}
            PROVE  [injected[m] EXCEPT !.draft = d] \in V
        <4>1. injected[m] \in V /\ d \in Versions
          BY <3>1, <3>2 DEF Versions
        <4> QED BY <4>1
      <3>3. ASSUME NEW m \in Mods, Publishable(m)
            PROVE  [injected[m] EXCEPT !.previous = injected[m].active, !.active = injected[m].draft] \in V
        <4>1. injected[m] \in V /\ injected[m].draft \in Versions \ {"bad"}
          BY <3>1, <3>3 DEF Versions, Publishable
        <4> QED BY <4>1
      <3>4. ASSUME NEW m \in Mods
            PROVE  [injected[m] EXCEPT !.active = injected[m].previous, !.previous = injected[m].active] \in V
        <4>1. injected[m] \in V
          BY <3>1
        <4> QED BY <4>1
      <3>5. \E m \in Mods, row \in V : injected' = [injected EXCEPT ![m] = row]
        <4>1. CASE Draft
          <5>1. PICK m \in Mods, d \in {"good", "bad"} : injected' = [injected EXCEPT ![m].draft = d]
            BY <4>1 DEF Draft
          <5> QED BY <5>1, <3>2
        <4>2. CASE Apply
          <5>1. PICK m \in Mods : Publishable(m) /\ injected' = [injected EXCEPT ![m].previous = injected[m].active,
                                                                            ![m].active = injected[m].draft]
            BY <4>2 DEF Apply
          <5>2. injected' = [injected EXCEPT ![m] =
                  [injected[m] EXCEPT !.previous = injected[m].active, !.active = injected[m].draft]]
            BY <5>1, <3>1
          <5> QED BY <5>1, <5>2, <3>3
        <4>3. CASE Rollback
          <5>1. PICK m \in Mods : injected' = [injected EXCEPT ![m].active = injected[m].previous,
                                                               ![m].previous = injected[m].active]
            BY <4>3 DEF Rollback
          <5>2. injected' = [injected EXCEPT ![m] =
                  [injected[m] EXCEPT !.active = injected[m].previous, !.previous = injected[m].active]]
            BY <5>1, <3>1
          <5> QED BY <5>2, <3>4
        <4> QED BY <1>3, <4>1, <4>2, <4>3
      <3> QED BY <3>1, <3>5
    <2>3. RecordsTyped'
      BY <2>1, <2>2, <1>a DEF RecordsTyped
    <2> QED BY <2>1, <2>3, <1>b DEF IntegrationInv
  <1>4. CASE SessionEnds
    <2>1. RecordsTyped'
      BY <1>4, <1>a DEF SessionEnds, RecordsTyped
    <2> QED BY <1>4, <2>1, <1>b DEF SessionEnds, IntegrationInv
  <1>5. ASSUME NEW v \in Visitors, Launch(v) PROVE IntegrationInv'
    <2>1. PICK m \in Mods, s \in alive : Becomes(v, [Out EXCEPT !.at = "launch", !.mod = m, !.login = s])
      BY <1>5 DEF Launch
    <2>2. PICK r : r = [Out EXCEPT !.at = "launch", !.mod = m, !.login = s]
      OBVIOUS
    <2>3. r \in Asks /\ r.at = "launch" /\ r.mod = m /\ r.login \in Logins /\ r.at \notin Served
      <3>1. Out = [at |-> "out", mod |-> NoMod, login |-> NoMod, ticket |-> 0]
        BY DEF Out
      <3>2. r = [at |-> "launch", mod |-> m, login |-> s, ticket |-> 0]
        BY <2>2, <3>1
      <3>3. m \in Mods /\ s \in Logins /\ 0 \in 0 .. MaxTickets
        BY <1>a, IntegrationAssumption DEF RecordsTyped
      <3> QED BY <3>2, <3>3 DEF Asks, Served
    <2>4. UNCHANGED <<mods, injected, tickets, grants, alive, inflight, issues>> /\ visitor[v].at \notin Served
      BY <1>5 DEF Launch, Is, Served
    <2> QED BY <2>1, <2>2, <2>3, <2>4, <1>a, VisitorBecomes, CountsStay DEF IntegrationInv, RecordsTyped
  <1>6. ASSUME NEW v \in Visitors, Issue(v) PROVE IntegrationInv'
    <2>1. visitor[v].at \notin Served /\ visitor[v].mod \in Mods /\ visitor[v].login \in Logins
          /\ UNCHANGED <<mods, injected, alive, inflight>> /\ Becomes(v, Out)
      BY <1>6, <1>a DEF Issue, Is, Served, VisitorsTyped
    <2>2. issues' \in 1 .. MaxTickets
      BY <1>6, <1>a, IntegrationAssumption DEF Issue, RecordsTyped
    <2>3. [serial |-> issues', mod |-> visitor[v].mod, login |-> visitor[v].login, left |-> TicketTTL]
            \in Sealed(TicketTTL)
      BY <2>1, <2>2, IntegrationAssumption DEF Sealed, Tickets
    <2>4. tickets' \subseteq Sealed(TicketTTL) /\ grants' \subseteq Sealed(GrantTTL)
      BY <1>6, <1>a, <2>3, UnexpiredTyped DEF Issue
    <2>5. RecordsTyped'
      BY <2>1, <2>2, <2>4, <1>a DEF RecordsTyped
    <2> QED BY <2>1, <2>5, OutIsAsk, VisitorBecomes, CountsStay DEF IntegrationInv
  <1>7. ASSUME NEW v \in Visitors, Arrive(v) PROVE IntegrationInv'
    <2>1. PICK m \in Mods, t \in 0 .. issues, kind \in {"refused", "start", "use"} :
            Room(m) /\ CountIn(m) /\ Becomes(v, [Out EXCEPT !.at = kind, !.mod = m, !.ticket = t])
      BY <1>7 DEF Arrive
    <2>2. PICK r : r = [Out EXCEPT !.at = kind, !.mod = m, !.ticket = t]
      OBVIOUS
    <2>3. r \in Asks /\ r.at \in Served /\ r.mod = m /\ r.at # "launch"
      <3>1. Out = [at |-> "out", mod |-> NoMod, login |-> NoMod, ticket |-> 0]
        BY DEF Out
      <3>2. r = [at |-> kind, mod |-> m, login |-> NoMod, ticket |-> t]
        BY <2>2, <3>1
      <3>3. m \in Mods /\ t \in 0 .. MaxTickets /\ kind \in {"refused", "start", "use"}
        BY <1>a, IntegrationAssumption DEF RecordsTyped
      <3> QED BY <3>2, <3>3 DEF Asks, Served
    <2>4. UNCHANGED <<mods, injected, tickets, grants, alive, issues>> /\ Is(v, "out")
      BY <1>7 DEF Arrive
    <2>5. RecordsTyped'
      BY <2>4, <1>a DEF RecordsTyped
    <2> QED BY <2>1, <2>2, <2>3, <2>4, <2>5, VisitorBecomes, CountsIn DEF IntegrationInv
  <1>8. ASSUME NEW v \in Visitors, Redeem(v) PROVE IntegrationInv'
    <2>1. visitor[v].at \in Served /\ CountOut(visitor[v].mod) /\ Becomes(v, Out)
          /\ UNCHANGED <<mods, injected, alive, issues>>
      BY <1>8 DEF Redeem, Is, Served
    <2>2. PICK t \in Redeemable(v) :
            /\ tickets' = Unexpired(tickets) \ {t}
            /\ grants' = Unexpired(grants) \cup {[t EXCEPT !.left = GrantTTL]}
      BY <1>8 DEF Redeem
    <2>3. t \in Sealed(TicketTTL)
      BY <1>a, UnexpiredTyped DEF Redeemable
    <2>4. [t EXCEPT !.left = GrantTTL] \in Sealed(GrantTTL)
      BY <2>3, IntegrationAssumption DEF Sealed
    <2>5. tickets' \subseteq Sealed(TicketTTL) /\ grants' \subseteq Sealed(GrantTTL)
      BY <2>2, <2>4, <1>a, UnexpiredTyped
    <2>6. RecordsTyped'
      BY <2>1, <2>5, <1>a DEF RecordsTyped
    <2> QED BY <2>1, <2>6, OutIsAsk, VisitorBecomes, CountsOut DEF IntegrationInv
  <1>9. ASSUME NEW v \in Visitors, Open(v) PROVE IntegrationInv'
    <2>1. PICK r : r = [visitor[v] EXCEPT !.at = "open"]
      OBVIOUS
    <2>2. Becomes(v, r) /\ visitor[v].at \in Served /\ UNCHANGED <<mods, injected, tickets, grants, alive, inflight, issues>>
      BY <1>9, <2>1 DEF Open, Is, Served
    <2>3. visitor[v] \in Asks /\ visitor[v].mod \in Mods
      BY <1>a, <2>2 DEF VisitorsTyped, Served
    <2>4. r \in Asks /\ r.at = "open" /\ r.mod = visitor[v].mod /\ r.at \in Served
      BY <2>1, <2>3 DEF Asks, Served
    <2>5. RecordsTyped'
      BY <2>2, <1>a DEF RecordsTyped
    <2> QED BY <2>2, <2>3, <2>4, <2>5, VisitorBecomes, CountsStay DEF IntegrationInv
  <1>10. ASSUME NEW v \in Visitors, Watch(v) PROVE IntegrationInv'
    <2>1. visitor[v].at \in Served /\ CountOut(visitor[v].mod) /\ Becomes(v, Out)
          /\ UNCHANGED <<mods, injected, tickets, grants, alive, issues>>
      BY <1>10 DEF Watch, Is, Served
    <2>2. RecordsTyped'
      BY <2>1, <1>a DEF RecordsTyped
    <2> QED BY <2>1, <2>2, OutIsAsk, VisitorBecomes, CountsOut DEF IntegrationInv
  <1>11. ASSUME NEW v \in Visitors, End(v) PROVE IntegrationInv'
    <2>1. Becomes(v, Out) /\ UNCHANGED <<mods, injected, tickets, grants, alive, issues>>
      BY <1>11 DEF End
    <2>2. RecordsTyped'
      BY <2>1, <1>a DEF RecordsTyped
    <2>3. CASE Is(v, "launch")
      <3>1. UNCHANGED inflight /\ visitor[v].at \notin Served
        BY <1>11, <2>3 DEF End, Is, Served
      <3> QED BY <2>1, <2>2, <3>1, OutIsAsk, VisitorBecomes, CountsStay DEF IntegrationInv
    <2>4. CASE ~Is(v, "launch")
      <3>1. visitor[v].at \in Served /\ CountOut(visitor[v].mod)
        BY <1>11, <2>4, <1>a DEF End, Is, Served, VisitorsTyped, Asks
      <3> QED BY <2>1, <2>2, <3>1, OutIsAsk, VisitorBecomes, CountsOut DEF IntegrationInv
    <2> QED BY <2>3, <2>4
  <1>12. CASE UNCHANGED integrationVars
    BY <1>12, <1>a, <1>b DEF integrationVars, IntegrationInv, RecordsTyped
  <1> QED BY <1>1, <1>2, <1>3, <1>4, <1>5, <1>6, <1>7, <1>8, <1>9, <1>10, <1>11, <1>12 DEF IntegrationNext

LEMMA IntegrationsTyped == IntegrationInv => IntegrationTypeOK
  BY DEF IntegrationInv, RecordsTyped, CountersTrue, IntegrationTypeOK, Inside, InsideOf, Served, Sealed

\* The dispatcher's counters are the requests and sockets under way, however many
\* integrations there are and however requests end (routers/integrations_host.py).
THEOREM CountersAreExact == IntegrationSpec => []IntegrationTypeOK
  BY IntegrationsStart, IntegrationsKept, IntegrationsTyped, PTL DEF IntegrationSpec
-----------------------------------------------------------------------------
(* Saves of websites.                                                      *)

Entries == [key : SaveKeys, on : Sites \cup {NoSite}, site : Sites]

\* A save that is being checked knows what to write; one that creates has a key.
SaversSound == \A s \in Savers : saver[s].at = "checking" =>
  /\ saver[s].content \in Contents
  /\ saver[s].on = NoSite => saver[s].key # NoKey

\* What is remembered of the saves that created a website: a website each, and no two
\* under one key.
EntriesSound ==
  /\ \A e \in ToSet(kept) : e.on = NoSite => made[e.site] = e.key /\ site[e.site] # "new"
  /\ \A e, f \in ToSet(kept) : e.on = NoSite /\ f.on = NoSite /\ e.key = f.key => e.site = f.site
  /\ \A m \in Sites : made[m] # NoKey => StillMade(kept, m)

SavesInv == SavesTypeOK /\ SaversSound /\ EntriesSound

LEMMA KeptTyped ==
  ASSUME SavesTypeOK
  PROVE  kept \in Seq(Entries) /\ Len(kept) <= Remembered /\ Len(kept) \in Nat
         /\ ToSet(kept) \subseteq Entries
  <1>1. kept \in {q \in Seq(Entries) : Len(q) <= Remembered}
    BY SaveAssumption, BoundedSequences DEF SavesTypeOK, Entries
  <1> QED BY <1>1, Elements

LEMMA SavesStart == SavesInit => SavesInv
  <1> SUFFICES ASSUME SavesInit PROVE SavesInv
    OBVIOUS
  <1>1. kept = <<>> /\ kept \in Seq(Entries) /\ Len(kept) <= Remembered
    BY SaveAssumption DEF SavesInit
  <1>2. kept \in BoundedSeq(Entries, Remembered)
    BY <1>1, SaveAssumption, BoundedSequences
  <1>3. ToSet(kept) = {}
    BY <1>1, Elements
  <1>4. SavesTypeOK
    BY <1>2 DEF SavesInit, SavesTypeOK, Unsent, Entries
  <1> QED BY <1>3, <1>4 DEF SavesInit, SavesInv, SaversSound, EntriesSound, Unsent

\* A save without a key remembers nothing; one with a key, and room for it, does.
LEMMA Remembers ==
  ASSUME SavesInv, NEW e \in Entries
  PROVE  /\ Append(Forgotten, e) \in BoundedSeq(Entries, Remembered)
         /\ ToSet(Append(Forgotten, e)) = ToSet(Forgotten) \cup {e}
         /\ ToSet(Forgotten) \subseteq ToSet(kept)
  <1>1. kept \in Seq(Entries) /\ Len(kept) <= Remembered /\ Len(kept) \in Nat
    BY KeptTyped DEF SavesInv
  <1>2. kept # <<>> => /\ Tail(kept) \in Seq(Entries) /\ Len(Tail(kept)) = Len(kept) - 1
                       /\ ToSet(Tail(kept)) \subseteq ToSet(kept)
    <2>1. kept # <<>> => Tail(kept) \in Seq(Entries) /\ Len(Tail(kept)) = Len(kept) - 1
      BY <1>1
    <2>2. kept # <<>> => ToSet(Tail(kept)) \subseteq ToSet(kept)
      BY <1>1, Beheaded
    <2> QED BY <2>1, <2>2
  <1>3. kept = <<>> => Len(kept) = 0
    OBVIOUS
  <1>4. PICK q : q = Forgotten
    OBVIOUS
  <1>5. q \in Seq(Entries) /\ Len(q) \in Nat /\ Len(q) + 1 <= Remembered /\ ToSet(q) \subseteq ToSet(kept)
    <2>1. CASE Len(kept) >= Remembered
      <3>1. kept # <<>> /\ q = Tail(kept)
        BY <1>1, <1>3, <1>4, <2>1, SaveAssumption DEF Forgotten
      <3>2. q \in Seq(Entries) /\ Len(q) = Len(kept) - 1 /\ ToSet(q) \subseteq ToSet(kept)
        BY <1>2, <3>1
      <3>3. Len(q) \in Nat
        BY <3>2
      <3> QED BY <1>1, <3>2, <3>3, SaveAssumption
    <2>2. CASE ~(Len(kept) >= Remembered)
      <3>1. q = kept
        BY <1>4, <2>2 DEF Forgotten
      <3> QED BY <1>1, <2>2, <3>1, SaveAssumption
    <2> QED BY <2>1, <2>2
  <1>6. PICK t : t = Append(q, e)
    OBVIOUS
  <1>7. t \in Seq(Entries) /\ ToSet(t) = ToSet(q) \cup {e}
    BY <1>5, <1>6, Appended
  <1>8. Len(t) = Len(q) + 1
    BY <1>5, <1>6
  <1>9. Len(t) <= Remembered
    BY <1>5, <1>8
  <1>10. t \in BoundedSeq(Entries, Remembered)
    BY <1>7, <1>9, SaveAssumption, BoundedSequences
  <1> QED BY <1>4, <1>5, <1>6, <1>7, <1>10

LEMMA Expires ==
  ASSUME SavesInv, kept # <<>>
  PROVE  Tail(kept) \in BoundedSeq(Entries, Remembered) /\ ToSet(Tail(kept)) \subseteq ToSet(kept)
  <1>1. kept \in Seq(Entries) /\ Len(kept) <= Remembered /\ Len(kept) \in Nat
    BY KeptTyped DEF SavesInv
  <1>2. PICK t : t = Tail(kept)
    OBVIOUS
  <1>3. t \in Seq(Entries) /\ Len(t) = Len(kept) - 1
    BY <1>1, <1>2
  <1>4. ToSet(t) \subseteq ToSet(kept)
    BY <1>1, <1>2, Beheaded
  <1>5. Len(t) <= Remembered
    BY <1>1, <1>3, SaveAssumption
  <1>6. t \in BoundedSeq(Entries, Remembered)
    BY <1>3, <1>5, SaveAssumption, BoundedSequences
  <1> QED BY <1>2, <1>4, <1>6

LEMMA WriteKeeps ==
  ASSUME SavesInv, NEW s \in Savers, WriteSite(s)
  PROVE  SavesInv'
  <1> DEFINE r == saver[s]
  <1>1. PICK id \in Sites :
          /\ IF r.on = NoSite THEN site[id] = "new" ELSE id = r.on
          /\ site' = [site EXCEPT ![id] = r.content]
          /\ kept' = IF r.key = NoKey THEN kept ELSE Remember(r.key, r.on, id)
          /\ made' = [m \in Sites |->
               IF ~StillMade(kept', m) THEN NoKey
               ELSE IF m = id /\ r.on = NoSite THEN r.key ELSE made[m]]
    BY DEF WriteSite
  <1>2. /\ r.at = "checking" /\ r.content \in Contents /\ r.content # "new" /\ r.key \in SaveKeys \cup {NoKey}
        /\ r.on \in Sites \cup {NoSite} /\ (r.on = NoSite => r.key # NoKey)
        /\ saver' = [saver EXCEPT ![s] = Unsent]
    BY SaveAssumption DEF WriteSite, SavesInv, SavesTypeOK, SaversSound
  <1>3. r.on = NoSite => \A e \in ToSet(kept) : e.on = NoSite => e.key # r.key /\ e.site # id
    <2>1. \A e \in ToSet(kept) : r.key # NoKey => ~(e.key = r.key /\ e.on = r.on)
      BY DEF WriteSite, Admissible, Known
    <2> QED BY <1>1, <1>2, <2>1 DEF SavesInv, EntriesSound
  <1> DEFINE new == [key |-> r.key, on |-> r.on, site |-> id]
  <1>4. r.key # NoKey => new \in Entries /\ kept' = Append(Forgotten, new)
    BY <1>1, <1>2 DEF Remember, Entries
  <1>5. /\ kept' \in BoundedSeq(Entries, Remembered)
        /\ \A e \in ToSet(kept') : e \in Entries /\ (e \in ToSet(kept) \/ (r.key # NoKey /\ e = new))
    <2>1. CASE r.key = NoKey
      BY <1>1, <2>1, KeptTyped DEF SavesInv, SavesTypeOK, Entries
    <2>2. CASE r.key # NoKey
      BY <1>4, <2>2, Remembers, KeptTyped DEF SavesInv
    <2> QED BY <2>1, <2>2
  <1>6. /\ new.key = r.key /\ new.on = r.on /\ new.site = id
        /\ r.on # NoSite => id = r.on
    BY <1>1
  <1> HIDE DEF new
  <1>7. /\ \A m \in Sites : made'[m] = IF ~StillMade(kept', m) THEN NoKey
                                       ELSE IF m = id /\ r.on = NoSite THEN r.key ELSE made[m]
        /\ made' \in [Sites -> SaveKeys \cup {NoKey}]
    BY <1>1, <1>2 DEF SavesInv, SavesTypeOK
  <1>8. /\ site' \in [Sites -> Contents \cup {"new", "gone"}]
        /\ \A m \in Sites : site[m] # "new" \/ m = id => site'[m] # "new"
    BY <1>1, <1>2 DEF SavesInv, SavesTypeOK
  <1>9. SavesTypeOK'
    BY <1>2, <1>5, <1>7, <1>8 DEF SavesInv, SavesTypeOK, Unsent, Entries
  <1>10. SaversSound'
    BY <1>2 DEF SavesInv, SavesTypeOK, SaversSound, Unsent
  <1>11. ASSUME NEW e \in ToSet(kept'), e.on = NoSite
         PROVE  made'[e.site] = e.key /\ site'[e.site] # "new"
    <2>1. e.site \in Sites /\ StillMade(kept', e.site)
      BY <1>5, <1>11 DEF Entries, StillMade
    <2>2. CASE e \in ToSet(kept)
      <3>1. made[e.site] = e.key /\ site[e.site] # "new"
        BY <1>11, <2>2 DEF SavesInv, EntriesSound
      <3>2. ~(e.site = id /\ r.on = NoSite)
        BY <1>3, <1>11, <2>2
      <3> QED BY <1>7, <1>8, <2>1, <3>1, <3>2
    <2>3. CASE e = new
      BY <1>6, <1>7, <1>8, <1>11, <2>1, <2>3
    <2> QED BY <1>5, <2>2, <2>3
  <1>12. ASSUME NEW e \in ToSet(kept'), NEW f \in ToSet(kept'),
                e.on = NoSite, f.on = NoSite, e.key = f.key
         PROVE  e.site = f.site
    <2>1. CASE e \in ToSet(kept) /\ f \in ToSet(kept)
      BY <1>12, <2>1 DEF SavesInv, EntriesSound
    <2>2. CASE e = new \/ f = new
      BY <1>3, <1>5, <1>6, <1>12, <2>2
    <2> QED BY <1>5, <2>1, <2>2
  <1>13. \A m \in Sites : made'[m] # NoKey => StillMade(kept', m)
    BY <1>7
  <1>14. EntriesSound'
    BY <1>11, <1>12, <1>13 DEF EntriesSound, StillMade
  <1> QED BY <1>9, <1>10, <1>14 DEF SavesInv

LEMMA SavesKept == SavesInv /\ [SavesNext]_saveVars => SavesInv'
  <1> SUFFICES ASSUME SavesInv, [SavesNext]_saveVars PROVE SavesInv'
    OBVIOUS
  <1>1. ASSUME NEW s \in Savers, BeginSave(s) PROVE SavesInv'
    <2>1. PICK k \in SaveKeys \cup {NoKey}, m \in Present \cup {NoSite}, c \in Contents :
            /\ m = NoSite => k # NoKey
            /\ saver' = [saver EXCEPT ![s] =
                 [at |-> "checking", key |-> k, on |-> m, content |-> c,
                  before |-> IF m = NoSite THEN NoSite ELSE site[m]]]
      BY <1>1 DEF BeginSave
    <2>2. UNCHANGED <<site, kept, made>> /\ m \in Sites \cup {NoSite}
      BY <1>1, <2>1 DEF BeginSave, Present
    <2>3. ASSUME NEW o \in Savers
          PROVE  \/ saver'[o] = saver[o]
                 \/ /\ saver'[o].at = "checking" /\ saver'[o].key = k /\ saver'[o].on = m
                    /\ saver'[o].content = c
      BY <2>1, <2>3 DEF SavesInv, SavesTypeOK
    <2>4. SavesTypeOK'
      BY <2>1, <2>2, <2>3 DEF SavesInv, SavesTypeOK
    <2>5. SaversSound'
      BY <2>1, <2>3 DEF SavesInv, SaversSound
    <2>6. EntriesSound'
      BY <2>2 DEF SavesInv, EntriesSound, StillMade
    <2> QED BY <2>4, <2>5, <2>6 DEF SavesInv
  <1>2. ASSUME NEW s \in Savers, Unsaved(s) PROVE SavesInv'
    <2>1. saver' = [saver EXCEPT ![s] = Unsent] /\ UNCHANGED <<site, kept, made>>
      BY <1>2 DEF Unsaved
    <2>2. \A o \in Savers : saver'[o] = saver[o] \/ saver'[o] = Unsent
      BY <2>1 DEF SavesInv, SavesTypeOK
    <2>3. SavesTypeOK'
      BY <2>1, <2>2 DEF SavesInv, SavesTypeOK, Unsent
    <2>4. SaversSound'
      BY <2>2 DEF SavesInv, SaversSound, Unsent
    <2>5. EntriesSound'
      BY <2>1 DEF SavesInv, EntriesSound, StillMade
    <2> QED BY <2>3, <2>4, <2>5 DEF SavesInv
  <1>3. ASSUME KeyExpires PROVE SavesInv'
    <2>1. /\ kept # <<>> /\ kept' = Tail(kept) /\ UNCHANGED <<site, saver>>
          /\ made' = [m \in Sites |-> IF StillMade(kept', m) THEN made[m] ELSE NoKey]
      BY <1>3 DEF KeyExpires
    <2>2. kept' \in BoundedSeq(Entries, Remembered) /\ ToSet(kept') \subseteq ToSet(kept)
      BY <2>1, Expires
    <2>3. SavesTypeOK'
      BY <2>1, <2>2 DEF SavesInv, SavesTypeOK, Entries
    <2>4. SaversSound'
      BY <2>1 DEF SavesInv, SaversSound
    <2>5. \A e \in ToSet(kept') : e.on = NoSite =>
            made'[e.site] = made[e.site] /\ e \in ToSet(kept)
      <3> SUFFICES ASSUME NEW e \in ToSet(kept'), e.on = NoSite
                   PROVE  made'[e.site] = made[e.site] /\ e \in ToSet(kept)
        OBVIOUS
      <3>1. e \in ToSet(kept) /\ e.site \in Sites
        BY <2>2, KeptTyped DEF SavesInv, Entries
      <3>2. StillMade(kept', e.site)
        BY DEF StillMade
      <3> QED BY <2>1, <3>1, <3>2
    <2>6. \A m \in Sites : made'[m] # NoKey => StillMade(kept', m)
      BY <2>1
    <2>7. EntriesSound'
      BY <2>1, <2>2, <2>5, <2>6 DEF SavesInv, EntriesSound, StillMade
    <2> QED BY <2>3, <2>4, <2>7 DEF SavesInv
  <1>4. ASSUME NEW m \in Sites, DirectCreate(m) \/ DirectEdit(m) \/ DirectDelete(m)
        PROVE  SavesInv'
    <2>1. /\ UNCHANGED <<kept, saver, made>>
          /\ \E c \in Contents \cup {"gone"} : site' = [site EXCEPT ![m] = c]
      BY <1>4 DEF DirectCreate, DirectEdit, DirectDelete
    <2>2. /\ site' \in [Sites -> Contents \cup {"new", "gone"}]
          /\ \A o \in Sites : site[o] # "new" => site'[o] # "new"
      BY <2>1, SaveAssumption DEF SavesInv, SavesTypeOK
    <2>3. SavesTypeOK'
      BY <2>1, <2>2 DEF SavesInv, SavesTypeOK
    <2>4. SaversSound'
      BY <2>1 DEF SavesInv, SaversSound
    <2>5. \A e \in ToSet(kept) : e.site \in Sites
      BY KeptTyped DEF SavesInv, Entries
    <2>6. EntriesSound'
      BY <2>1, <2>2, <2>5 DEF SavesInv, EntriesSound, StillMade
    <2> QED BY <2>3, <2>4, <2>6 DEF SavesInv
  <1>5. ASSUME UNCHANGED saveVars PROVE SavesInv'
    BY <1>5 DEF saveVars, SavesInv, SavesTypeOK, SaversSound, EntriesSound, StillMade
  <1> QED BY <1>1, <1>2, <1>3, <1>4, <1>5, WriteKeeps DEF SavesNext

\* At no time does more than one website come from one remembered save, and a save
\* replaces only what it has read.
THEOREM WebsitesAreKept == SavesSpec => WebsitesKept
  <1>1. SavesInv => \A k \in SaveKeys : Cardinality({m \in Sites : made[m] = k}) <= 1
    <2> SUFFICES ASSUME SavesInv, NEW k \in SaveKeys
                 PROVE  Cardinality({m \in Sites : made[m] = k}) <= 1
      OBVIOUS
    <2>1. ASSUME NEW m \in Sites, made[m] = k
          PROVE  \E e \in ToSet(kept) : e.site = m /\ e.on = NoSite /\ e.key = k
      <3>1. StillMade(kept, m)
        BY <2>1, SaveAssumption DEF SavesInv, EntriesSound
      <3> QED BY <2>1, <3>1 DEF SavesInv, EntriesSound, StillMade
    <2>2. ASSUME NEW m \in Sites, NEW o \in Sites, made[m] = k, made[o] = k PROVE m = o
      BY <2>1, <2>2 DEF SavesInv, EntriesSound
    <2> QED BY <2>2, AtMostOne
  <1>2. SavesInv /\ [SavesNext]_saveVars =>
          [\A s \in Savers, m \in Sites :
             (WriteSite(s) /\ site'[m] # site[m] /\ site[m] # "new") => site[m] = saver[s].before]_saveVars
    <2> SUFFICES ASSUME SavesInv, NEW s \in Savers, NEW m \in Sites, WriteSite(s),
                        site'[m] # site[m], site[m] # "new"
                 PROVE  site[m] = saver[s].before
      OBVIOUS
    <2>1. PICK id \in Sites : /\ IF saver[s].on = NoSite THEN site[id] = "new" ELSE id = saver[s].on
                              /\ site' = [site EXCEPT ![id] = saver[s].content]
      BY DEF WriteSite
    <2>2. m = id
      BY <2>1 DEF SavesInv, SavesTypeOK
    <2>3. Unchanged(s)
      BY DEF WriteSite, Admissible
    <2> QED BY <2>1, <2>2, <2>3 DEF Unchanged
  <1> QED BY <1>1, <1>2, SavesStart, SavesKept, PTL DEF SavesSpec, WebsitesKept
-----------------------------------------------------------------------------
(* The four together: a behaviour lets one of them move.                   *)

OperationsInv == MonitorInv /\ AlertInv /\ IntegrationInv /\ SavesInv

\* Every variable of the four keeps its type, the last check of a monitor is one of
\* its history, and the dispatcher's counters are the requests under way, for every
\* value of the constants.
THEOREM OperationsTypeCorrect == OperationsSpec => []OperationsTypeOK
  <1>1. OperationsInit => OperationsInv
    BY MonitorsStart, AlertsStart, IntegrationsStart, SavesStart DEF OperationsInit, OperationsInv
  <1>2. OperationsInv /\ [OperationsNext]_<<area, monitorVars, vars, integrationVars, saveVars>>
          => OperationsInv'
    <2> SUFFICES ASSUME OperationsInv,
                        [OperationsNext]_<<area, monitorVars, vars, integrationVars, saveVars>>
                 PROVE  OperationsInv'
      OBVIOUS
    <2>1. MonitorInv /\ AlertInv /\ IntegrationInv /\ SavesInv
      BY DEF OperationsInv
    <2>2. /\ [MonitorNext]_monitorVars /\ [Next]_vars
          /\ [IntegrationNext]_integrationVars /\ [SavesNext]_saveVars
      BY DEF OperationsNext
    <2> QED BY <2>1, <2>2, MonitorsKept, AlertsKept, IntegrationsKept, SavesKept DEF OperationsInv
  <1>3. OperationsInv => OperationsTypeOK
    BY IntegrationsTyped DEF OperationsInv, OperationsTypeOK, MonitorInv, AlertInv, SavesInv
  <1> QED BY <1>1, <1>2, <1>3, PTL DEF OperationsSpec
=============================================================================
