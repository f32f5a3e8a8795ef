------------------------- MODULE NodeReportsProofs -------------------------
(***************************************************************************)
(* The safety of reporting and uninstalling, for any number of workers,    *)
(* samples and requests and any size of the queue.                         *)
(***************************************************************************)
EXTENDS NodeReports, FiniteSetTheorems, WellFoundedInduction, TLAPS

\* A handler past the heartbeat carries a sample. A sample that is carried was
\* taken, nothing older is queued, and the parts inserted so far are stored: for
\* a request r, a queue Q, t samples taken and the database D.
Fits(r, Q, t, D) ==
    /\ r.op \in {"net", "sys", "reply"} => r.sample # NoSample
    /\ r.sample # NoSample => r.sample <= t /\ \A u \in Q : r.sample <= u
    /\ r.op \in {"sys", "reply"} => <<r.sample, "net">> \in D
    /\ r.op = "reply" => <<r.sample, "sys">> \in D
CarriedSound == \A w \in Threads : Fits(call[w], queue, taken, metrics)

\* The queue is younger than the database.
StoredSound ==
    /\ queue \subseteq 1..taken
    /\ \A x \in metrics : x[1] <= taken /\ \A u \in queue : x[1] <= u

\* The tasks lane awaits a request of its own kind, or none.
LaneSound ==
    /\ errand.wait # NoThread <=> errand.step \in {"polling", "posting done", "posting failed"}
    /\ errand.step = "polling" => call[errand.wait].op \in PollOps
    /\ errand.step \in {"posting done", "posting failed"} => call[errand.wait].op \in ResultOps

\* What may still become an instruction has been asked for and not been told: an
\* order in the row or in the hands of the awaited poll, and one on its way back.
Awaited(o) == errand.step = "polling" /\ call[errand.wait].op = o
Claiming == node.uninstall = "pending" \/ Awaited("claim")
Telling == Awaited("tell")
Budget ==
    /\ told <= asks
    /\ Claiming \/ Telling => told < asks
    /\ Claiming /\ Telling => told + 1 < asks

Safe == CarriedSound /\ StoredSound /\ LaneSound /\ Budget
-----------------------------------------------------------------------------

\* A set of samples that is not empty has an oldest one.
LEMMA OldestIsFirst ==
    ASSUME NEW Q \in SUBSET Samples, Q # {}
    PROVE  Oldest(Q) \in Q /\ \A u \in Q : Oldest(Q) <= u
<1> DEFINE R == {ss \in Nat \X Nat : ss[1] < ss[2]}
<1>1. IsWellFoundedOn(R, Nat)
  BY NatLessThanWellFounded DEF OpToRel
<1>2. Q \subseteq Nat
  BY SizesAssumption DEF Samples
<1>3. PICK s \in Q : \A u \in Q : ~ (<<u, s>> \in R)
  <2> HIDE DEF R
  <2> QED BY <1>1, <1>2, WFMin
<1>4. \A u \in Q : s <= u
  <2>1. ASSUME NEW u \in Q PROVE s <= u
    <3>1. u \in Nat /\ s \in Nat /\ ~(<<u, s>> \in R)
      BY <1>2, <1>3
    <3> QED BY <3>1
  <2> QED BY <2>1
<1> QED BY <1>4 DEF Oldest

LEMMA SamplesFinite ==
    ASSUME NEW Q \in SUBSET Samples
    PROVE  IsFiniteSet(Q) /\ Cardinality(Q) \in Nat
<1>1. IsFiniteSet(Samples)
  BY FS_Interval, SizesAssumption DEF Samples
<1> QED BY <1>1, FS_Subset, FS_CardinalityType

\* The deque keeps its bound, and a full one gives up its oldest sample only.
LEMMA AppendedBounded ==
    ASSUME NEW Q \in SUBSET Samples, Cardinality(Q) <= QueueMax, NEW s \in Samples
    PROVE  /\ Appended(Q, s) \in SUBSET Samples
           /\ Cardinality(Appended(Q, s)) <= QueueMax
<1>1. IsFiniteSet(Q) /\ Cardinality(Q) \in Nat /\ QueueMax \in Nat \ {0}
  BY SamplesFinite, SizesAssumption
<1>2. CASE Cardinality(Q) < QueueMax
  <2>1. Cardinality(Q \cup {s}) \in {Cardinality(Q), Cardinality(Q) + 1}
    BY <1>1, FS_AddElement
  <2> QED BY <1>1, <1>2, <2>1 DEF Appended
<1>3. CASE ~(Cardinality(Q) < QueueMax)
  <2>1. Q # {}
    BY <1>1, <1>3, FS_EmptySet
  <2>2. Oldest(Q) \in Q
    BY <2>1, OldestIsFirst
  <2>3. IsFiniteSet(Q \ {Oldest(Q)}) /\ Cardinality(Q \ {Oldest(Q)}) = Cardinality(Q) - 1
    BY <1>1, <2>2, FS_RemoveElement
  <2> DEFINE R == Q \ {Oldest(Q)}
  <2>4. \/ Cardinality(R \cup {s}) = Cardinality(R)
        \/ Cardinality(R \cup {s}) = Cardinality(R) + 1
    <3> HIDE DEF R
    <3>1. IsFiniteSet(R)
      BY <2>3 DEF R
    <3> QED BY <3>1, FS_AddElement
  <2> QED BY <1>1, <1>3, <2>3, <2>4 DEF Appended
<1> QED BY <1>2, <1>3

LEMMA RemovedBounded ==
    ASSUME NEW Q \in SUBSET Samples, Cardinality(Q) <= QueueMax, NEW s
    PROVE  Cardinality(Q \ {s}) <= QueueMax
<1>1. Cardinality(Q \ {s}) <= Cardinality(Q)
  BY SamplesFinite, FS_Subset, Q \ {s} \subseteq Q
<1> QED BY <1>1, SamplesFinite, Q \ {s} \in SUBSET Samples, SizesAssumption

LEMMA NoneQueued == Cardinality({}) <= QueueMax
BY FS_EmptySet, SizesAssumption

LEMMA IdleType == IdleThread \in Calls
BY DEF IdleThread, Plain, NewCall, Calls

LEMMA AtRestType == LaneAtRest \in Lanes
BY DEF LaneAtRest, AtWork, Lanes

LEMMA MissedType == ReportsTypeOK => Missed \in Lanes /\ \A w \in Threads : MissedBy(w) \in Lanes
BY AtRestType DEF Missed, MissedBy, AtWork, Lanes, ReportsTypeOK

LEMMA WorkType ==
    ASSUME NEW w \in Threads \cup {NoThread},
           NEW step \in {"idle", "polling", "told", "done", "failed", "posting done", "posting failed"}
    PROVE  AtWork(step, w) \in Lanes
BY DEF AtWork, Lanes

\* A handler moves on to another stage.
LEMMA StageType ==
    ASSUME ReportsTypeOK, NEW w \in Threads,
           NEW o \in {"idle", "ask"} \cup ReportOps \cup PollOps \cup ResultOps, Advance(w, o)
    PROVE  call' \in [Threads -> Calls]
<1>1. [call[w] EXCEPT !.op = o] \in Calls
  BY DEF ReportsTypeOK, Calls
<1> QED BY <1>1 DEF Advance, ReportsTypeOK

LEMMA AcceptType ==
    ASSUME ReportsTypeOK, NEW w \in Threads, NEW r \in Calls, Accept(w, r)
    PROVE  call' \in [Threads -> Calls]
BY DEF Accept, ReportsTypeOK

LEMMA OverType ==
    ASSUME ReportsTypeOK, NEW w \in Threads, Over(w)
    PROVE  call' \in [Threads -> Calls]
BY IdleType DEF Over, ReportsTypeOK

-----------------------------------------------------------------------------
LEMMA TypeInit == ReportsInit => ReportsTypeOK
<1> SUFFICES ASSUME ReportsInit PROVE ReportsTypeOK
  OBVIOUS
<1>1. node \in Rows
  BY DEF ReportsInit, NewNode, Rows
<1>2. queue \subseteq Samples /\ Cardinality(queue) <= QueueMax /\ taken \in 0..MaxSamples
  BY NoneQueued, SizesAssumption DEF ReportsInit
<1> QED BY <1>1, <1>2, IdleType, AtRestType DEF ReportsInit, ReportsTypeOK

\* What a request or a lane becomes keeps its type.
LEMMA TypeStep == ReportsTypeOK /\ CarriedSound /\ [ReportsNext]_reportsVars => ReportsTypeOK'
<1> SUFFICES ASSUME ReportsTypeOK, CarriedSound, [ReportsNext]_reportsVars PROVE ReportsTypeOK'
  OBVIOUS
<1> USE DEF process, history
<1>1. ASSUME NEW w \in Threads, Send(w) PROVE ReportsTypeOK'
  <2>1. CASE Post(w)
    <3>1. Oldest(queue) \in Samples
      BY <2>1, OldestIsFirst DEF Post, ReportsTypeOK
    <3>2. NewCall("report", Oldest(queue), "none") \in Calls
      BY <3>1 DEF NewCall, Calls, ReportOps
    <3> QED BY <2>1, <3>2 DEF Post, Accept, ReportsTypeOK
  <2>2. CASE Beat(w) \/ AskUninstall(w) \/ PollUninstall(w)
    <3>1. \A o \in {"report", "ask", "poll"} : Plain(o) \in Calls
      BY DEF Plain, NewCall, Calls, ReportOps, PollOps
    <3>2. call' \in [Threads -> Calls]
      BY <2>2, <3>1, AcceptType DEF Beat, AskUninstall, PollUninstall
    <3> QED BY <2>2, <3>2, WorkType DEF Beat, AskUninstall, PollUninstall, ReportsTypeOK
  <2>3. CASE PostResult(w)
    <3>1. NewCall("result", NoSample, errand.step) \in Calls
      BY <2>3 DEF PostResult, NewCall, Calls, ResultOps
    <3> QED BY <2>3, <3>1 DEF PostResult, Accept, ReportsTypeOK, AtWork, Lanes
  <2> QED BY <1>1, <2>1, <2>2, <2>3 DEF Send
<1>2. ASSUME NEW w \in Threads, Read(w) PROVE ReportsTypeOK'
  <2>1. [call[w] EXCEPT !.op = "beat", !.dirty = ToWrite(node)] \in Calls
    BY DEF ToWrite, ReportsTypeOK, Calls, ReportOps
  <2>2. call' \in [Threads -> Calls]
    BY <1>2, <2>1, OverType DEF Read, ReportsTypeOK
  <2> QED BY <1>2, <2>2 DEF Read, Refused, ReportsTypeOK
<1>3. ASSUME NEW w \in Threads, CommitBeat(w) PROVE ReportsTypeOK'
  <2>1. Beaten(call[w].dirty) \in Rows
    BY DEF Beaten, Rows, ReportsTypeOK
  <2>2. NewCall("net", call[w].sample, "none") \in Calls
    BY DEF NewCall, Calls, ReportOps, ReportsTypeOK
  <2> QED BY <1>3, <2>1, <2>2, IdleType DEF CommitBeat, ReportsTypeOK
<1>4. ASSUME NEW w \in Threads, NEW part \in Parts, InsertPart(w, part) PROVE ReportsTypeOK'
  <2>1. call[w].sample \in Samples \cup {NoSample}
    BY DEF ReportsTypeOK, Calls
  <2>2. call' \in [Threads -> Calls]
    BY <1>4, StageType DEF InsertPart, ReportOps
  <2>3. <<call[w].sample, part>> \in Samples \X Parts
    BY <1>4, <2>1 DEF InsertPart, CarriedSound, Fits, Parts
  <2> QED BY <1>4, <2>1, <2>2, <2>3 DEF InsertPart, ReportsTypeOK
<1>5. ASSUME NEW w \in Threads, Reply(w) PROVE ReportsTypeOK'
  <2>1. Popped(call[w].sample) \in SUBSET Samples /\ Cardinality(Popped(call[w].sample)) <= QueueMax
    BY RemovedBounded DEF Popped, ReportsTypeOK
  <2>2. queue' \in SUBSET Samples /\ Cardinality(queue') <= QueueMax
    BY <1>5, <2>1 DEF Reply, ReportsTypeOK
  <2> QED BY <1>5, <2>2, IdleType DEF Reply, Over, ReportsTypeOK
<1>6. ASSUME NEW w \in Threads, CommitAsk(w) \/ CommitClaim(w) PROVE ReportsTypeOK'
  BY <1>6, IdleType DEF CommitAsk, CommitClaim, Over, Advance, ReportsTypeOK, Rows, Calls, PollOps
<1>7. ASSUME NEW w \in Threads, ReadPoll(w) \/ Tell(w) PROVE ReportsTypeOK'
  <2>1. call' \in [Threads -> Calls]
    BY <1>7, StageType, OverType DEF ReadPoll, Tell, PollOps
  <2>2. errand' \in Lanes
    BY <1>7, MissedType, WorkType DEF ReadPoll, Tell, ReportsTypeOK
  <2> QED BY <1>7, <2>1, <2>2 DEF ReadPoll, Tell, ReportsTypeOK
<1>8. ASSUME NEW w \in Threads, CommitResult(w) PROVE ReportsTypeOK'
  <2>1. call[w].result \in {"none", "done", "failed"}
    BY DEF ReportsTypeOK, Calls
  <2> QED BY <1>8, <2>1 DEF CommitResult, Advance, ReportsTypeOK, Rows, Calls, ResultOps
<1>9. ASSUME NEW w \in Threads, CommitOffline(w) \/ CommitUnmanaged(w) \/ Ack(w) PROVE ReportsTypeOK'
  <2>1. call' \in [Threads -> Calls]
    BY <1>9, StageType, OverType DEF CommitOffline, CommitUnmanaged, Ack, ResultOps
  <2>2. node' \in Rows
    BY <1>9 DEF CommitOffline, CommitUnmanaged, Ack, ReportsTypeOK, Rows
  <2> QED BY <1>9, <2>1, <2>2, AtRestType DEF CommitOffline, CommitUnmanaged, Ack, ReportsTypeOK
<1>10. ASSUME NEW w \in Threads, Die(w) PROVE ReportsTypeOK'
  BY <1>10, IdleType, MissedType DEF Die, Over, Refused, ReportsTypeOK
<1>11. CASE Sample
  <2>1. CASE taken < MaxSamples /\ taken' = taken + 1 /\ queue' = Appended(queue, taken + 1)
    <3>1. taken + 1 \in Samples /\ taken + 1 \in 0..MaxSamples
      BY <2>1, SizesAssumption DEF ReportsTypeOK, Samples
    <3>2. queue' \in SUBSET Samples /\ Cardinality(queue') <= QueueMax
      BY <2>1, <3>1, AppendedBounded DEF ReportsTypeOK
    <3> QED BY <1>11, <2>1, <3>1, <3>2 DEF Sample, ReportsTypeOK
  <2>2. CASE UNCHANGED <<taken, queue>>
    BY <1>11, <2>2 DEF Sample, ReportsTypeOK
  <2> QED BY <1>11, <2>1, <2>2 DEF Sample
<1>12. CASE GiveUpPost \/ Launch \/ LaneGivesUp
  BY <1>12, MissedType, WorkType DEF GiveUpPost, Launch, LaneGivesUp, ReportsTypeOK
<1>13. CASE RemoveNode \/ Survive
  BY <1>13 DEF RemoveNode, Survive, ReportsTypeOK, Rows
<1>14. CASE Install \/ RestartAgent \/ AgentLeaves
  BY <1>14, AtRestType, NoneQueued DEF Install, RestartAgent, AgentLeaves, Afresh, ReportsTypeOK
<1>15. CASE UNCHANGED reportsVars
  BY <1>15 DEF reportsVars, ReportsTypeOK
<1> QED
  BY <1>1, <1>2, <1>3, <1>4, <1>5, <1>6, <1>7, <1>8, <1>9, <1>10, <1>11, <1>12, <1>13, <1>14, <1>15
     DEF ReportsNext, Handle, Parts

-----------------------------------------------------------------------------
(* Samples.                                                                 *)

\* What a handler carries stays sound while samples are taken, stored and popped.
LEMMA FitsKept ==
    ASSUME NEW r \in Calls, NEW Q \in SUBSET Samples, NEW t \in Nat, NEW D,
           NEW P \in SUBSET Samples, NEW u \in Nat, NEW E,
           Fits(r, Q, t, D), t <= u, D \subseteq E, P \subseteq Q \cup {u}
    PROVE  Fits(r, P, u, E)
<1>1. r.sample \in Nat
  BY SizesAssumption DEF Calls, Samples, NoSample
<1>2. r.sample # NoSample => r.sample <= u /\ \A x \in P : r.sample <= x
  BY <1>1, SizesAssumption DEF Fits, Samples
<1> QED BY <1>2 DEF Fits

LEMMA PlainFits ==
    ASSUME NEW o \in {"idle", "ask", "report", "beat"} \cup PollOps \cup ResultOps, NEW res,
           NEW Q, NEW t, NEW D
    PROVE  /\ Fits(NewCall(o, NoSample, res), Q, t, D)
           /\ Fits(Plain(o), Q, t, D)
           /\ Fits(IdleThread, Q, t, D)
BY DEF Fits, NewCall, Plain, IdleThread, PollOps, ResultOps

\* Moving on, other than through the stages of a report.
LEMMA StageFits ==
    ASSUME NEW r \in Calls, NEW Q, NEW t, NEW D, Fits(r, Q, t, D),
           NEW o \in {"idle", "ask"} \cup PollOps \cup ResultOps
    PROVE  Fits([r EXCEPT !.op = o], Q, t, D)
BY DEF Fits, Calls, PollOps, ResultOps

\* Samples are taken, popped and stored; one handler moves.
LEMMA OneFits ==
    ASSUME ReportsTypeOK, ReportsTypeOK', CarriedSound, taken <= taken', metrics \subseteq metrics',
           queue' \subseteq queue \cup {taken'},
           NEW w \in Threads, \A v \in Threads \ {w} : call'[v] = call[v],
           Fits(call'[w], queue', taken', metrics')
    PROVE  CarriedSound'
<1>1. ASSUME NEW v \in Threads, v # w PROVE Fits(call'[v], queue', taken', metrics')
  <2>1. Fits(call[v], queue, taken, metrics) /\ call[v] \in Calls /\ call'[v] = call[v]
    BY <1>1 DEF CarriedSound, ReportsTypeOK
  <2>2. taken \in Nat /\ taken' \in Nat /\ queue \in SUBSET Samples /\ queue' \in SUBSET Samples
    BY SizesAssumption DEF ReportsTypeOK
  <2> QED BY <2>1, <2>2, FitsKept
<1> QED BY <1>1 DEF CarriedSound

LEMMA AllFit ==
    ASSUME ReportsTypeOK, ReportsTypeOK', CarriedSound, taken <= taken', metrics \subseteq metrics',
           queue' \subseteq queue \cup {taken'}, call' = call
    PROVE  CarriedSound'
<1>1. ASSUME NEW v \in Threads PROVE Fits(call'[v], queue', taken', metrics')
  <2>1. Fits(call[v], queue, taken, metrics) /\ call[v] \in Calls /\ call'[v] = call[v]
    BY DEF CarriedSound, ReportsTypeOK
  <2>2. taken \in Nat /\ taken' \in Nat /\ queue \in SUBSET Samples /\ queue' \in SUBSET Samples
    BY SizesAssumption DEF ReportsTypeOK
  <2> QED BY <2>1, <2>2, FitsKept
<1> QED BY <1>1 DEF CarriedSound

LEMMA CarriedStep ==
    ASSUME ReportsTypeOK, ReportsTypeOK', CarriedSound, StoredSound, [ReportsNext]_reportsVars
    PROVE  CarriedSound'
<1> USE DEF process, history
<1>0. taken \in Nat /\ queue \subseteq Samples /\ (\A w \in Threads : call[w] \in Calls /\ Fits(call[w], queue, taken, metrics))
  BY SizesAssumption DEF ReportsTypeOK, CarriedSound
<1>1. ASSUME NEW w \in Threads, Post(w) PROVE CarriedSound'
  <2>1. Oldest(queue) \in queue /\ \A u \in queue : Oldest(queue) <= u
    BY <1>0, <1>1, OldestIsFirst DEF Post
  <2>2. Fits(NewCall("report", Oldest(queue), "none"), queue, taken, metrics)
    <3> DEFINE o == Oldest(queue)
    <3>1. o \in queue /\ \A u \in queue : o <= u
      BY <2>1
    <3> HIDE DEF o
    <3>3. o <= taken
      BY <1>0, <3>1 DEF StoredSound
    <3>2. Fits(NewCall("report", o, "none"), queue, taken, metrics)
      BY <3>1, <3>3 DEF Fits, NewCall
    <3> QED BY <3>2 DEF o
  <2>3. call'[w] = NewCall("report", Oldest(queue), "none") /\ \A v \in Threads \ {w} : call'[v] = call[v]
    BY <1>1 DEF Post, Accept, ReportsTypeOK
  <2> QED BY <1>0, <1>1, <2>2, <2>3, OneFits DEF Post
<1>2. ASSUME NEW w \in Threads, Beat(w) \/ AskUninstall(w) \/ PollUninstall(w) \/ PostResult(w) PROVE CarriedSound'
  <2>1. PICK o \in {"report", "ask"} \cup PollOps \cup ResultOps, res \in {"none", "done", "failed"} :
           Accept(w, NewCall(o, NoSample, res))
    BY <1>2 DEF Beat, AskUninstall, PollUninstall, PostResult, Plain, PollOps, ResultOps
  <2>2. call'[w] = NewCall(o, NoSample, res) /\ \A v \in Threads \ {w} : call'[v] = call[v]
    BY <2>1 DEF Accept, ReportsTypeOK
  <2>3. UNCHANGED <<queue, taken, metrics>>
    BY <1>2 DEF Beat, AskUninstall, PollUninstall, PostResult
  <2> QED BY <1>0, <2>2, <2>3, PlainFits, OneFits
<1>3. ASSUME NEW w \in Threads, Read(w) PROVE CarriedSound'
  <2>1. UNCHANGED <<queue, taken, metrics>> /\ call[w].op = "report"
    BY <1>3 DEF Read
  <2>2. \A v \in Threads \ {w} : call'[v] = call[v]
    BY <1>3 DEF Read, Over, ReportsTypeOK
  <2>3. \/ call'[w] = IdleThread
        \/ call'[w] = [call[w] EXCEPT !.op = "beat", !.dirty = ToWrite(node)]
    BY <1>3 DEF Read, Over, ReportsTypeOK
  <2>4. Fits(call'[w], queue, taken, metrics)
    <3>1. Fits([call[w] EXCEPT !.op = "beat", !.dirty = ToWrite(node)], queue, taken, metrics)
      BY <1>0 DEF Fits, Calls
    <3> QED BY <2>3, <3>1, PlainFits
  <2> QED BY <1>0, <2>1, <2>2, <2>4, OneFits
<1>4. ASSUME NEW w \in Threads, CommitBeat(w) PROVE CarriedSound'
  <2>1. UNCHANGED <<queue, taken, metrics>> /\ \A v \in Threads \ {w} : call'[v] = call[v]
    BY <1>4 DEF CommitBeat, ReportsTypeOK
  <2>2. \/ call'[w] = IdleThread
        \/ call[w].sample # NoSample /\ call'[w] = NewCall("net", call[w].sample, "none")
    BY <1>4 DEF CommitBeat, ReportsTypeOK
  <2>3. Fits(call'[w], queue, taken, metrics)
    <3>1. call[w].sample # NoSample => Fits(NewCall("net", call[w].sample, "none"), queue, taken, metrics)
      BY <1>0 DEF Fits, NewCall
    <3> QED BY <2>2, <3>1, PlainFits
  <2> QED BY <1>0, <2>1, <2>3, OneFits
<1>5. ASSUME NEW w \in Threads, NEW part \in Parts, InsertPart(w, part) PROVE CarriedSound'
  <2>1. UNCHANGED <<queue, taken>> /\ metrics' = metrics \cup {<<call[w].sample, part>>}
    BY <1>5 DEF InsertPart
  <2>2. \A v \in Threads \ {w} : call'[v] = call[v]
    BY <1>5 DEF InsertPart, Advance, ReportsTypeOK
  <2>3. call'[w] = [call[w] EXCEPT !.op = IF part = "net" THEN "sys" ELSE "reply"]
    BY <1>5 DEF InsertPart, Advance, ReportsTypeOK
  <2>4. call'[w].sample = call[w].sample /\ call'[w].op = IF part = "net" THEN "sys" ELSE "reply"
    BY <1>0, <2>3 DEF Calls
  <2>5. call[w].op = part
    BY <1>5 DEF InsertPart
  <2>6. Fits(call'[w], queue', taken', metrics')
    BY <1>0, <2>1, <2>4, <2>5 DEF Fits, Parts
  <2> QED BY <1>0, <2>1, <2>2, <2>6, OneFits
<1>6. ASSUME NEW w \in Threads, Reply(w) \/ CommitAsk(w) \/ Tell(w) \/ Ack(w) \/ Die(w) PROVE CarriedSound'
  <2>1. Over(w) /\ UNCHANGED <<taken, metrics>> /\ queue' \subseteq queue
    BY <1>6 DEF Reply, CommitAsk, Tell, Ack, Die, Popped
  <2>2. call'[w] = IdleThread /\ \A v \in Threads \ {w} : call'[v] = call[v]
    BY <2>1 DEF Over, ReportsTypeOK
  <2> QED BY <1>0, <2>1, <2>2, PlainFits, OneFits
<1>7. ASSUME NEW w \in Threads,
             ReadPoll(w) \/ CommitClaim(w) \/ CommitResult(w) \/ CommitOffline(w) \/ CommitUnmanaged(w)
      PROVE  CarriedSound'
  <2>1. UNCHANGED <<queue, taken, metrics>>
    BY <1>7 DEF ReadPoll, CommitClaim, CommitResult, CommitOffline, CommitUnmanaged
  <2>2. Over(w) \/ \E o \in PollOps \cup ResultOps : Advance(w, o)
    BY <1>7 DEF ReadPoll, CommitClaim, CommitResult, CommitOffline, CommitUnmanaged, PollOps, ResultOps
  <2>3. \A v \in Threads \ {w} : call'[v] = call[v]
    BY <2>2 DEF Over, Advance, ReportsTypeOK
  <2>4. call'[w] = IdleThread \/ \E o \in PollOps \cup ResultOps : call'[w] = [call[w] EXCEPT !.op = o]
    BY <2>2 DEF Over, Advance, ReportsTypeOK
  <2>5. Fits(call'[w], queue, taken, metrics)
    <3>1. CASE call'[w] = IdleThread
      BY <3>1, PlainFits
    <3>2. ASSUME NEW o \in PollOps \cup ResultOps, call'[w] = [call[w] EXCEPT !.op = o]
          PROVE  Fits(call'[w], queue, taken, metrics)
      BY <1>0, <3>2, StageFits
    <3> QED BY <2>4, <3>1, <3>2
  <2> QED BY <1>0, <2>1, <2>3, <2>5, OneFits
<1>8. CASE Sample
  <2>1. call' = call /\ metrics' = metrics /\ taken <= taken'
    BY <1>0, <1>8 DEF Sample
  <2>2. queue' \subseteq queue \cup {taken'}
    BY <1>8 DEF Sample, Appended
  <2> QED BY <2>1, <2>2, AllFit
<1>9. CASE GiveUpPost \/ Launch \/ LaneGivesUp \/ RemoveNode \/ Survive \/ Install \/ RestartAgent \/ AgentLeaves \/ UNCHANGED reportsVars
  <2>1. UNCHANGED <<call, metrics, taken>> /\ queue' \subseteq queue
    BY <1>9 DEF GiveUpPost, Launch, LaneGivesUp, RemoveNode, Survive, Install, RestartAgent, AgentLeaves, Afresh, reportsVars
  <2> QED BY <1>0, <2>1, AllFit
<1> QED
  BY <1>1, <1>2, <1>3, <1>4, <1>5, <1>6, <1>7, <1>8, <1>9 DEF ReportsNext, Send, Handle, Parts

LEMMA StoredStep ==
    ASSUME ReportsTypeOK, ReportsTypeOK', CarriedSound, StoredSound, [ReportsNext]_reportsVars
    PROVE  StoredSound'
<1> USE DEF process, history
<1>0. taken \in Nat /\ queue \subseteq Samples /\ metrics \subseteq Samples \X Parts /\ Samples \subseteq Nat
  BY SizesAssumption DEF ReportsTypeOK, Samples
<1>1. ASSUME NEW w \in Threads, NEW part \in Parts, InsertPart(w, part) PROVE StoredSound'
  <2>1. Fits(call[w], queue, taken, metrics) /\ call[w].op = part
    BY <1>1 DEF CarriedSound, InsertPart
  <2>2. call[w].sample <= taken /\ \A u \in queue : call[w].sample <= u
    BY <2>1 DEF Fits, Parts
  <2>3. UNCHANGED <<queue, taken>> /\ metrics' = metrics \cup {<<call[w].sample, part>>}
    BY <1>1 DEF InsertPart
  <2>4. ASSUME NEW x \in metrics' PROVE x[1] <= taken /\ \A u \in queue : x[1] <= u
    <3>1. CASE x \in metrics
      BY <3>1 DEF StoredSound
    <3>2. CASE x = <<call[w].sample, part>>
      BY <2>2, <3>2
    <3> QED BY <2>3, <3>1, <3>2
  <2> QED BY <2>3, <2>4 DEF StoredSound
<1>2. CASE Sample
  <2>1. taken' = taken \/ taken' = taken + 1
    BY <1>2 DEF Sample
  <2>2. \A u \in queue' : u \in queue \/ (taken' = taken + 1 /\ u = taken + 1)
    BY <1>2 DEF Sample, Appended
  <2>3. metrics' = metrics /\ queue \subseteq 1..taken /\ taken' \in Nat
    BY <1>0, <1>2, <2>1 DEF Sample, StoredSound
  <2>4. queue' \subseteq 1..taken'
    <3>1. ASSUME NEW u \in queue' PROVE u \in 1..taken'
      <4>1. CASE u \in queue
        <5>1. u \in 1..taken
          BY <2>3, <4>1
        <5> QED BY <1>0, <2>1, <5>1
      <4>2. CASE taken' = taken + 1 /\ u = taken + 1
        BY <1>0, <4>2
      <4> QED BY <2>2, <4>1, <4>2
    <3> QED BY <3>1
  <2>5. ASSUME NEW x \in metrics PROVE x[1] <= taken' /\ \A u \in queue' : x[1] <= u
    <3>1. x[1] \in Nat /\ x[1] <= taken /\ \A u \in queue : x[1] <= u
      BY <1>0 DEF StoredSound
    <3>2. x[1] <= taken'
      BY <1>0, <2>1, <3>1
    <3>3. ASSUME NEW u \in queue' PROVE x[1] <= u
      <4>1. CASE u \in queue
        BY <3>1, <4>1
      <4>2. CASE u = taken + 1
        BY <1>0, <3>1, <4>2
      <4> QED BY <2>2, <4>1, <4>2
    <3> QED BY <3>2, <3>3
  <2> QED BY <2>3, <2>4, <2>5 DEF StoredSound
<1>3. CASE UNCHANGED <<taken, metrics>> /\ queue' \subseteq queue
  BY <1>3 DEF StoredSound
<1>4. ASSUME NEW w \in Threads, Send(w) PROVE UNCHANGED <<taken, metrics>> /\ queue' \subseteq queue
  BY <1>4 DEF Send, Post, Beat, AskUninstall, PollUninstall, PostResult
<1>5. ASSUME NEW w \in Threads, Handle(w), ~ \E part \in Parts : InsertPart(w, part)
      PROVE  UNCHANGED <<taken, metrics>> /\ queue' \subseteq queue
  BY <1>5 DEF Handle, Read, CommitBeat, Reply, Popped, CommitAsk, ReadPoll, CommitClaim, Tell,
              CommitResult, CommitOffline, CommitUnmanaged, Ack, Parts
<1>6. ASSUME NEW w \in Threads, Die(w) PROVE UNCHANGED <<taken, metrics>> /\ queue' \subseteq queue
  BY <1>6 DEF Die
<1>7. CASE GiveUpPost \/ Launch \/ LaneGivesUp \/ RemoveNode \/ Survive \/ Install \/ RestartAgent \/ AgentLeaves \/ UNCHANGED reportsVars
  BY <1>3, <1>7 DEF GiveUpPost, Launch, LaneGivesUp, RemoveNode, Survive, Install, RestartAgent, AgentLeaves, Afresh, reportsVars
<1> QED BY <1>1, <1>2, <1>3, <1>4, <1>5, <1>6, <1>7 DEF ReportsNext

-----------------------------------------------------------------------------
(* The tasks lane.                                                          *)

\* What a handler that the lane does not wait for does is nothing to the lane.
LEMMA LaneElsewhere ==
    ASSUME ReportsTypeOK, LaneSound, errand' = errand, NEW w \in Threads,
           \A v \in Threads \ {w} : call'[v] = call[v],
           call[w].op \notin PollOps \cup ResultOps \/ errand.wait # w
    PROVE  LaneSound' /\ (Awaited("claim")' => Awaited("claim")) /\ (Telling' => Telling)
<1>1. errand.wait \in Threads \cup {NoThread} /\ NoThread \notin Threads
  BY SizesAssumption DEF ReportsTypeOK, Lanes
<1>2. errand.wait # NoThread => errand.wait \in Threads \ {w} /\ call'[errand.wait] = call[errand.wait]
  BY <1>1 DEF LaneSound
<1> QED BY <1>2 DEF LaneSound, Awaited, Telling

\* A request that is stopped, or that the lane has given up, leaves it no order.
LEMMA LaneFree ==
    ASSUME errand' \in {LaneAtRest, Missed, AtWork("told", NoThread), AtWork("done", NoThread), AtWork("failed", NoThread)}
    PROVE  LaneSound' /\ ~Awaited("claim")' /\ ~Telling'
<1>1. errand' \in {LaneAtRest, AtWork("told", NoThread), AtWork("done", NoThread), AtWork("failed", NoThread)}
  BY DEF Missed
<1>2. PICK step \in {"idle", "told", "done", "failed"} : errand' = [step |-> step, wait |-> NoThread]
  BY <1>1 DEF LaneAtRest, AtWork
<1>3. errand'.wait = NoThread /\ errand'.step \notin {"polling", "posting done", "posting failed"}
  BY <1>2
<1> QED BY <1>3 DEF LaneSound, Awaited, Telling

\* What makes no new order and tells none keeps the budget.
LEMMA BudgetKept ==
    ASSUME ReportsTypeOK, Budget, UNCHANGED <<asks, told>>,
           node'.uninstall = "pending" => Claiming, Awaited("claim")' => Claiming, Telling' => Telling
    PROVE  Budget'
<1>1. asks \in Nat /\ told \in Nat /\ (Claiming' => Claiming)
  BY DEF ReportsTypeOK, Claiming
<1> QED BY <1>1 DEF Budget

\* A new request goes to a worker nobody waits for.
LEMMA LaneAccept ==
    ASSUME ReportsTypeOK, LaneSound, NEW w \in Threads, NEW r, Accept(w, r)
    PROVE  /\ errand.wait # w /\ call[w].op \notin PollOps \cup ResultOps
           /\ call'[w] = r /\ \A v \in Threads \ {w} : call'[v] = call[v]
BY SizesAssumption DEF Accept, Free, ReportsTypeOK, LaneSound, PollOps, ResultOps

LEMMA OverOthers ==
    ASSUME ReportsTypeOK, NEW w \in Threads, Over(w)
    PROVE  call'[w] = IdleThread /\ \A v \in Threads \ {w} : call'[v] = call[v]
BY DEF Over, ReportsTypeOK

LEMMA StageOthers ==
    ASSUME ReportsTypeOK, NEW w \in Threads, NEW o, Advance(w, o)
    PROVE  call'[w].op = o /\ \A v \in Threads \ {w} : call'[v] = call[v]
BY DEF Advance, ReportsTypeOK, Calls

LEMMA LaneStep ==
    ASSUME ReportsTypeOK, ReportsTypeOK', LaneSound, Budget, [ReportsNext]_reportsVars
    PROVE  LaneSound' /\ Budget'
<1> USE DEF process, history
<1>1. ASSUME NEW w \in Threads, Post(w) \/ Beat(w) \/ AskUninstall(w) PROVE LaneSound' /\ Budget'
  <2>1. UNCHANGED <<node, errand, asks, told>> /\ \E r : Accept(w, r)
    BY <1>1 DEF Post, Beat, AskUninstall
  <2>2. LaneSound' /\ (Awaited("claim")' => Awaited("claim")) /\ (Telling' => Telling)
    BY <2>1, LaneAccept, LaneElsewhere
  <2> QED BY <2>1, <2>2, BudgetKept DEF Claiming
<1>2. ASSUME NEW w \in Threads, PollUninstall(w) PROVE LaneSound' /\ Budget'
  <2>1. UNCHANGED <<node, asks, told>> /\ errand' = AtWork("polling", w) /\ Accept(w, Plain("poll"))
    BY <1>2 DEF PollUninstall
  <2>2. errand'.step = "polling" /\ errand'.wait = w /\ call'[w].op = "poll" /\ w # NoThread
    BY <2>1, LaneAccept, SizesAssumption DEF AtWork, Plain, NewCall
  <2>3. LaneSound' /\ ~Awaited("claim")' /\ ~Telling'
    BY <2>2 DEF LaneSound, Awaited, Telling, PollOps
  <2> QED BY <2>1, <2>3, BudgetKept DEF Claiming
<1>3. ASSUME NEW w \in Threads, PostResult(w) PROVE LaneSound' /\ Budget'
  <2>1. UNCHANGED <<node, asks, told>> /\ Accept(w, NewCall("result", NoSample, errand.step))
    BY <1>3 DEF PostResult
  <2>2. /\ errand'.step \in {"posting done", "posting failed"} /\ errand'.wait = w
        /\ call'[w].op = "result" /\ w # NoThread
    <3>1. call'[w].op = "result"
      BY <2>1, LaneAccept DEF NewCall
    <3>2. /\ errand.step \in {"done", "failed"}
          /\ errand' = AtWork(IF errand.step = "done" THEN "posting done" ELSE "posting failed", w)
      BY <1>3 DEF PostResult
    <3>3. errand'.step \in {"posting done", "posting failed"} /\ errand'.wait = w
      BY <3>2 DEF AtWork
    <3> QED BY <3>1, <3>3, SizesAssumption
  <2>3. LaneSound' /\ ~Awaited("claim")' /\ ~Telling'
    BY <2>2 DEF LaneSound, Awaited, Telling, ResultOps
  <2> QED BY <2>1, <2>3, BudgetKept DEF Claiming
<1>4. ASSUME NEW w \in Threads, Read(w) \/ CommitBeat(w) \/ InsertPart(w, "net") \/ InsertPart(w, "sys") \/ Reply(w)
      PROVE  LaneSound' /\ Budget'
  <2>1. call[w].op \in ReportOps /\ UNCHANGED <<errand, asks, told>>
    BY <1>4 DEF Read, CommitBeat, InsertPart, Reply, ReportOps
  <2>2. node'.uninstall = "pending" => node.uninstall = "pending"
    BY <1>4 DEF Read, CommitBeat, Beaten, InsertPart, Reply
  <2>3. \A v \in Threads \ {w} : call'[v] = call[v]
    BY <1>4 DEF Read, CommitBeat, InsertPart, Reply, Over, Advance, ReportsTypeOK
  <2>4. LaneSound' /\ (Awaited("claim")' => Awaited("claim")) /\ (Telling' => Telling)
    BY <2>1, <2>3, LaneElsewhere DEF ReportOps, PollOps, ResultOps
  <2> QED BY <2>1, <2>2, <2>4, BudgetKept DEF Claiming
<1>5. ASSUME NEW w \in Threads, CommitAsk(w) PROVE LaneSound' /\ Budget'
  <2>1. call[w].op = "ask" /\ Over(w) /\ errand' = errand /\ told' = told /\ asks' = asks + 1
    BY <1>5 DEF CommitAsk
  <2>2. LaneSound' /\ (Telling' => Telling)
    BY <2>1, OverOthers, LaneElsewhere DEF PollOps, ResultOps
  <2>3. asks \in Nat /\ told \in Nat
    BY DEF ReportsTypeOK
  <2> QED BY <2>1, <2>2, <2>3 DEF Budget
<1>6. ASSUME NEW w \in Threads, ReadPoll(w) PROVE LaneSound' /\ Budget'
  <2>1. UNCHANGED <<node, asks, told>> /\ call[w].op = "poll"
    BY <1>6 DEF ReadPoll
  <2>2. CASE Claimable /\ Advance(w, "claim") /\ UNCHANGED errand
    <3>1. call'[w].op = "claim" /\ \A v \in Threads \ {w} : call'[v] = call[v]
      BY <2>2, StageOthers
    <3>2. CASE errand.wait # w
      <4>1. LaneSound' /\ (Awaited("claim")' => Awaited("claim")) /\ (Telling' => Telling)
        BY <2>2, <3>1, <3>2, LaneElsewhere
      <4> QED BY <2>1, <4>1, BudgetKept DEF Claiming
    <3>3. CASE errand.wait = w
      <4>1. errand.step = "polling" /\ w # NoThread
        BY <2>1, <3>3, SizesAssumption DEF LaneSound, ResultOps
      <4>2. LaneSound' /\ ~Telling'
        BY <2>2, <3>1, <3>3, <4>1 DEF LaneSound, Telling, Awaited, PollOps
      <4> QED BY <2>1, <2>2, <4>2, BudgetKept DEF Claiming, Claimable
    <3> QED BY <3>2, <3>3
  <2>3. CASE Over(w) /\ errand' = MissedBy(w)
    <3>1. LaneSound' /\ (Awaited("claim")' => Awaited("claim")) /\ (Telling' => Telling)
      BY <2>3, OverOthers, LaneElsewhere, LaneFree DEF MissedBy
    <3> QED BY <2>1, <3>1, BudgetKept DEF Claiming
  <2> QED BY <1>6, <2>2, <2>3 DEF ReadPoll
<1>7. ASSUME NEW w \in Threads, CommitClaim(w) PROVE LaneSound' /\ Budget'
  <2>1. /\ UNCHANGED <<errand, asks, told>> /\ call[w].op = "claim" /\ node'.uninstall = "running"
        /\ call'[w].op = "tell" /\ \A v \in Threads \ {w} : call'[v] = call[v]
    BY <1>7, StageOthers DEF CommitClaim, ReportsTypeOK, Rows
  <2>2. CASE errand.wait # w
    <3>1. LaneSound' /\ (Awaited("claim")' => Awaited("claim")) /\ (Telling' => Telling)
      BY <2>1, <2>2, LaneElsewhere
    <3> QED BY <2>1, <3>1, BudgetKept DEF Claiming
  <2>3. CASE errand.wait = w
    <3>1. errand.step = "polling" /\ w # NoThread
      BY <2>1, <2>3, SizesAssumption DEF LaneSound, ResultOps
    <3>2. LaneSound' /\ Claiming /\ ~Claiming'
      BY <2>1, <2>3, <3>1 DEF LaneSound, Claiming, Awaited, PollOps
    <3>3. asks \in Nat /\ told \in Nat
      BY DEF ReportsTypeOK
    <3> QED BY <2>1, <3>2, <3>3 DEF Budget
  <2> QED BY <2>2, <2>3
<1>8. ASSUME NEW w \in Threads, Tell(w) PROVE LaneSound' /\ Budget'
  <2>1. call[w].op = "tell" /\ Over(w) /\ UNCHANGED <<node, asks>>
    BY <1>8 DEF Tell
  <2>2. CASE errand.wait # w
    <3>1. UNCHANGED <<errand, told>>
      BY <1>8, <2>2 DEF Tell
    <3>2. LaneSound' /\ (Awaited("claim")' => Awaited("claim")) /\ (Telling' => Telling)
      BY <2>1, <2>2, <3>1, OverOthers, LaneElsewhere
    <3> QED BY <2>1, <3>1, <3>2, BudgetKept DEF Claiming
  <2>3. CASE errand.wait = w
    <3>1. errand' = AtWork("told", NoThread) /\ told' = told + 1
      BY <1>8, <2>3 DEF Tell
    <3>2. LaneSound' /\ ~Awaited("claim")' /\ ~Telling'
      BY <3>1, LaneFree
    <3>3. Telling
      BY <2>1, <2>3, SizesAssumption DEF LaneSound, Telling, Awaited, ResultOps
    <3>4. Claiming' => Claiming
      BY <2>1, <3>2 DEF Claiming
    <3>5. asks \in Nat /\ told \in Nat
      BY DEF ReportsTypeOK
    <3> QED BY <2>1, <3>1, <3>2, <3>3, <3>4, <3>5 DEF Budget
  <2> QED BY <2>2, <2>3
<1>9. ASSUME NEW w \in Threads, CommitResult(w) \/ CommitOffline(w) \/ CommitUnmanaged(w)
      PROVE  LaneSound' /\ Budget'
  <2>1. PICK o \in ResultOps : Advance(w, o)
    BY <1>9 DEF CommitResult, CommitOffline, CommitUnmanaged, ResultOps
  <2>2. UNCHANGED <<errand, asks, told>> /\ call[w].op \in ResultOps
    BY <1>9 DEF CommitResult, CommitOffline, CommitUnmanaged, ResultOps
  <2>3. call'[w].op = o /\ \A v \in Threads \ {w} : call'[v] = call[v]
    BY <2>1, StageOthers
  <2>4. node'.uninstall = "pending" => node.uninstall = "pending"
    BY <1>9 DEF CommitResult, CommitOffline, CommitUnmanaged, ReportsTypeOK, Rows, Calls
  <2>5. LaneSound' /\ (Awaited("claim")' => Awaited("claim")) /\ (Telling' => Telling)
    <3>1. CASE errand.wait # w
      BY <2>2, <2>3, <3>1, LaneElsewhere
    <3>2. CASE errand.wait = w
      <4>1. errand.step \in {"posting done", "posting failed"} /\ w # NoThread
        BY <2>2, <3>2, SizesAssumption DEF LaneSound, PollOps, ResultOps
      <4> QED BY <2>2, <2>3, <3>2, <4>1 DEF LaneSound, Telling, Awaited
    <3> QED BY <3>1, <3>2
  <2> QED BY <2>2, <2>4, <2>5, BudgetKept DEF Claiming
<1>10. ASSUME NEW w \in Threads, Ack(w) \/ Die(w) PROVE LaneSound' /\ Budget'
  <2>1. Over(w) /\ UNCHANGED <<node, asks, told>> /\ (errand.wait # w => errand' = errand)
    BY <1>10 DEF Ack, Die, MissedBy
  <2>2. errand.wait = w => errand' \in {LaneAtRest, Missed}
    BY <1>10 DEF Ack, Die, MissedBy
  <2>3. LaneSound' /\ (Awaited("claim")' => Awaited("claim")) /\ (Telling' => Telling)
    BY <2>1, <2>2, OverOthers, LaneElsewhere, LaneFree
  <2> QED BY <2>1, <2>3, BudgetKept DEF Claiming
<1>11. CASE Launch \/ LaneGivesUp \/ Install \/ RestartAgent \/ AgentLeaves
  <2>1. UNCHANGED <<node, asks, told>>
    BY <1>11 DEF Launch, LaneGivesUp, Install, RestartAgent, AgentLeaves, Afresh
  <2>2. errand' \in {LaneAtRest, Missed, AtWork("told", NoThread), AtWork("done", NoThread), AtWork("failed", NoThread)}
    BY <1>11 DEF Launch, LaneGivesUp, Install, RestartAgent, AgentLeaves, Afresh
  <2> QED BY <2>1, <2>2, LaneFree, BudgetKept DEF Claiming
<1>12. CASE Sample \/ GiveUpPost \/ RemoveNode \/ Survive \/ UNCHANGED reportsVars
  <2>1. UNCHANGED <<errand, call, asks, told>> /\ (node'.uninstall = "pending" => node.uninstall = "pending")
    BY <1>12 DEF Sample, GiveUpPost, RemoveNode, Survive, reportsVars, ReportsTypeOK, Rows
  <2>2. LaneSound' /\ (Awaited("claim")' => Awaited("claim")) /\ (Telling' => Telling)
    BY <2>1 DEF LaneSound, Telling, Awaited
  <2> QED BY <2>1, <2>2, BudgetKept DEF Claiming
<1> QED
  BY <1>1, <1>2, <1>3, <1>4, <1>5, <1>6, <1>7, <1>8, <1>9, <1>10, <1>11, <1>12 DEF ReportsNext, Send, Handle
-----------------------------------------------------------------------------

LEMMA SafeInit == ReportsInit => Safe
<1> SUFFICES ASSUME ReportsInit PROVE Safe
  OBVIOUS
<1>1. CarriedSound
  BY PlainFits DEF ReportsInit, CarriedSound
<1>2. StoredSound
  BY DEF ReportsInit, StoredSound
<1>3. LaneSound /\ Budget
  BY DEF ReportsInit, LaneSound, Budget, Claiming, Telling, Awaited, LaneAtRest, AtWork, NewNode
<1> QED BY <1>1, <1>2, <1>3 DEF Safe

\* The inductive invariant of reporting and uninstalling: what handlers carry
\* (handle_report), what the lane awaits and what may still be told (poll_tasks).
THEOREM InvariantHolds == ReportsSpec => [](ReportsTypeOK /\ Safe)
<1>1. ReportsInit => ReportsTypeOK /\ Safe
  BY TypeInit, SafeInit
<1>2. ReportsTypeOK /\ Safe /\ [ReportsNext]_reportsVars => (ReportsTypeOK /\ Safe)'
  BY TypeStep, CarriedStep, StoredStep, LaneStep DEF Safe
<1> QED BY <1>1, <1>2, PTL DEF ReportsSpec

\* The row, the queue, the lane and every request keep their types: the deque never
\* outgrows QUEUE_MAX and no handler inserts a sample it does not have.
THEOREM TypeCorrect == ReportsSpec => []ReportsTypeOK
BY InvariantHolds, PTL

\* Polls that overlap, time out or are answered late never tell an agent to uninstall
\* itself more often than the administrator asked (poll_tasks claims the instruction).
THEOREM ToldOnce == ReportsSpec => []ToldOncePerAsk
<1>1. ReportsTypeOK /\ Safe => ToldOncePerAsk
  BY DEF Safe, Budget, ToldOncePerAsk
<1> QED BY <1>1, InvariantHolds, PTL

-----------------------------------------------------------------------------
(* The contract.                                                            *)

LEMMA FateIs ==
    /\ DOMAIN Fate = Samples /\ Fate = [s \in Samples |-> Fate[s]]
    /\ \A s \in Samples : Fate[s] = IF {s} \X Parts \subseteq metrics THEN "stored"
                                    ELSE IF s > taken THEN "future"
                                    ELSE IF s \in queue THEN "held" ELSE "lost"
BY DEF Fate

LEMMA FateIsNext ==
    /\ DOMAIN Fate' = Samples /\ Fate' = [s \in Samples |-> Fate'[s]]
    /\ \A s \in Samples : Fate'[s] = IF {s} \X Parts \subseteq metrics' THEN "stored"
                                     ELSE IF s > taken' THEN "future"
                                     ELSE IF s \in queue' THEN "held" ELSE "lost"
BY DEF Fate

LEMMA SameCardinality == ASSUME NEW S PROVE Forwarding!Cardinality(S) = Cardinality(S)
BY DEF Forwarding!Cardinality, Cardinality

\* A held sample is queued, and of the queue only the oldest may be stored already.
LEMMA HeldIs ==
    ASSUME ReportsTypeOK, StoredSound
    PROVE  /\ Forwarding!Held \subseteq queue
           /\ \A s \in queue : Fate[s] \in {"held", "stored"}
           /\ \A s, u \in queue : Fate[s] = "stored" => s <= u
<1>1. taken \in Nat /\ queue \subseteq Samples /\ Samples \subseteq Nat
  BY SizesAssumption DEF ReportsTypeOK, Samples
<1>2. Forwarding!Held \subseteq queue
  BY FateIs DEF Forwarding!Held
<1>3. \A s \in queue : Fate[s] \in {"held", "stored"}
  BY <1>1, FateIs DEF StoredSound
<1>4. ASSUME NEW s \in queue, NEW u \in queue, Fate[s] = "stored" PROVE s <= u
  <2>1. {s} \X Parts \subseteq metrics
    BY <1>1, <1>4, FateIs
  <2>2. <<s, "net">> \in metrics
    BY <2>1 DEF Parts
  <2> QED BY <2>2 DEF StoredSound
<1> QED BY <1>2, <1>3, <1>4

\* The rows a report inserts are of the oldest sample held, or of one given up.
LEMMA InsertStores ==
    ASSUME ReportsTypeOK, Safe, NEW w \in Threads, NEW part \in Parts, InsertPart(w, part)
    PROVE  [Forwarding!Next]_Fate
<1> DEFINE s == call[w].sample
<1>1. s \in Samples /\ s <= taken /\ (\A u \in queue : s <= u)
  BY DEF ReportsTypeOK, Calls, Safe, CarriedSound, Fits, InsertPart, Parts
<1>2. taken' = taken /\ queue' = queue /\ metrics' = metrics \cup {<<s, part>>}
  BY DEF InsertPart, history, process
<1> HIDE DEF s
<1>3. \A u \in Samples \ {s} : Fate'[u] = Fate[u]
  <2>1. ASSUME NEW u \in Samples \ {s}
        PROVE  {u} \X Parts \subseteq metrics' <=> {u} \X Parts \subseteq metrics
    BY <1>2
  <2> QED BY <1>2, <2>1, FateIs, FateIsNext
<1>4. CASE {s} \X Parts \subseteq metrics' /\ ~({s} \X Parts \subseteq metrics)
  <2>1. Fate'[s] = "stored"
    BY <1>1, <1>4, FateIsNext
  <2>2. Fate[s] \in {"held", "lost"}
    <3>1. s \in Nat /\ taken \in Nat
      BY <1>1, SizesAssumption DEF ReportsTypeOK, Samples
    <3> QED BY <1>1, <1>4, <3>1, FateIs
  <2>3. Forwarding!First(s)
    BY <1>1, HeldIs DEF Safe, Forwarding!First
  <2>4. Fate' = [Fate EXCEPT ![s] = "stored"]
    BY <1>1, <1>3, <2>1, FateIs, FateIsNext
  <2>5. Forwarding!Store(s)
    BY <2>2, <2>3, <2>4 DEF Forwarding!Store
  <2> QED BY <1>1, <2>5 DEF Forwarding!Next
<1>5. CASE {s} \X Parts \subseteq metrics' <=> {s} \X Parts \subseteq metrics
  <2>1. Fate'[s] = Fate[s]
    BY <1>1, <1>2, <1>5, FateIs, FateIsNext
  <2> QED BY <1>1, <1>3, <2>1, FateIs, FateIsNext
<1> QED BY <1>2, <1>4, <1>5

\* A new sample is held; what a full deque forgets for it is the oldest held
\* sample, or a sample that is stored and whose answer has not come.
LEMMA SampleTakes ==
    ASSUME ReportsTypeOK, Safe, taken < MaxSamples, taken' = taken + 1, queue' = Appended(queue, taken + 1),
           metrics' = metrics
    PROVE  Forwarding!Next
<1> DEFINE s == taken + 1
<1>1. taken \in Nat /\ queue \subseteq Samples /\ Samples \subseteq Nat /\ s \in Samples
  BY SizesAssumption DEF ReportsTypeOK, Samples
<1>2. ~({s} \X Parts \subseteq metrics) /\ s \notin queue
  <2>1. <<s, "net">> \notin metrics
    <3>1. ~(s <= taken)
      BY <1>1
    <3> QED BY <3>1 DEF Safe, StoredSound
  <2>2. s \notin queue
    BY <1>1 DEF Safe, StoredSound
  <2> QED BY <2>1, <2>2 DEF Parts
<1>3. s > taken /\ ~(s > taken') /\ s \in queue'
  BY <1>1 DEF Appended
<1>4. Fate[s] = "future" /\ Fate'[s] = "held"
  BY <1>1, <1>2, <1>3, FateIs, FateIsNext
<1>5. \A u \in Samples : u < s => Fate[u] # "future"
  BY <1>1, FateIs
<1>6. \A u \in Samples \ {s} : u > taken <=> u > taken'
  BY <1>1
<1> HIDE DEF s
<1>7. CASE Cardinality(queue) < QueueMax
  <2>1. \A u \in Samples \ {s} : u \in queue' <=> u \in queue
    BY <1>7 DEF Appended, s
  <2>2. \A u \in Samples \ {s} : Fate'[u] = Fate[u]
    BY <1>6, <2>1, FateIs, FateIsNext
  <2>3. Fate' = [Fate EXCEPT ![s] = "held"]
    BY <1>1, <1>4, <2>2, FateIs, FateIsNext
  <2>4. Forwarding!Take(s)
    BY <1>4, <1>5, <2>3 DEF Forwarding!Take
  <2> QED BY <1>1, <2>4 DEF Forwarding!Next
<1>8. CASE ~(Cardinality(queue) < QueueMax)
  <2> DEFINE o == Oldest(queue)
  <2>1. queue # {} /\ Cardinality(queue) = QueueMax
    BY <1>1, <1>8, SamplesFinite, FS_EmptySet, SizesAssumption DEF ReportsTypeOK
  <2>2. o \in queue /\ \A u \in queue : o <= u
    BY <1>1, <2>1, OldestIsFirst
  <2>3. queue' = (queue \ {o}) \cup {s}
    BY <1>8 DEF Appended, s
  <2> HIDE DEF o
  <2>4. \A u \in Samples \ {s, o} : Fate'[u] = Fate[u]
    BY <1>6, <2>3, FateIs, FateIsNext
  <2>5. o # s /\ o \in Samples
    BY <1>1, <1>2, <2>2
  <2>6. CASE {o} \X Parts \subseteq metrics
    <3>1. Fate'[o] = Fate[o]
      BY <2>5, <2>6, FateIs, FateIsNext
    <3>2. Fate' = [Fate EXCEPT ![s] = "held"]
      BY <1>1, <1>4, <2>4, <3>1, FateIs, FateIsNext
    <3>3. Forwarding!Take(s)
      BY <1>4, <1>5, <3>2 DEF Forwarding!Take
    <3> QED BY <1>1, <3>3 DEF Forwarding!Next
  <2>7. CASE ~({o} \X Parts \subseteq metrics)
    <3>1. o <= taken /\ o \in Nat
      BY <1>1, <2>2 DEF Safe, StoredSound
    <3>2. Fate[o] = "held" /\ Fate'[o] = "lost"
      BY <1>1, <1>6, <2>2, <2>3, <2>5, <2>7, <3>1, FateIs, FateIsNext
    <3>3. Forwarding!Held = queue
      <4>1. ASSUME NEW u \in queue PROVE Fate[u] = "held"
        <5>1. Fate[u] = "stored" => u = o
          BY <1>1, <2>2, HeldIs DEF Safe
        <5> QED BY <2>2, <3>2, <5>1, HeldIs DEF Safe
      <4> QED BY <1>1, <4>1, HeldIs DEF Safe, Forwarding!Held
    <3>4. o \in Forwarding!Held /\ Forwarding!First(o) /\ Cardinality(Forwarding!Held) = QueueMax
      BY <2>1, <2>2, <3>3 DEF Forwarding!First
    <3>5. Fate' = [Fate EXCEPT ![s] = "held", ![o] = "lost"]
      BY <1>1, <1>4, <2>4, <2>5, <3>2, FateIs, FateIsNext
    <3>6. \E u \in Forwarding!Held : /\ Forwarding!First(u) /\ Cardinality(Forwarding!Held) = QueueMax
                                  /\ Fate' = [Fate EXCEPT ![s] = "held", ![u] = "lost"]
      BY <3>4, <3>5
    <3>7. Forwarding!Take(s)
      BY <1>4, <1>5, <3>6, SameCardinality DEF Forwarding!Take
    <3> QED BY <1>1, <3>7 DEF Forwarding!Next
  <2> QED BY <2>6, <2>7
<1> QED BY <1>7, <1>8

\* An answer takes out of the queue what is stored.
LEMMA ReplyPops ==
    ASSUME ReportsTypeOK, Safe, NEW w \in Threads, Reply(w)
    PROVE  UNCHANGED Fate
<1> DEFINE s == call[w].sample
<1>1. taken' = taken /\ metrics' = metrics /\ (queue' = queue \/ queue' = queue \ {s})
  BY DEF Reply, Popped, history
<1>2. s \in Samples /\ <<s, "net">> \in metrics /\ <<s, "sys">> \in metrics
  BY DEF ReportsTypeOK, Calls, Safe, CarriedSound, Fits, Reply
<1> HIDE DEF s
<1>3. {s} \X Parts \subseteq metrics
  BY <1>2 DEF Parts
<1>4. \A u \in Samples : Fate'[u] = Fate[u]
  BY <1>1, <1>3, FateIs, FateIsNext
<1> QED BY <1>4, FateIs, FateIsNext

\* An agent that ends gives up what it holds.
LEMMA EndStops ==
    ASSUME queue' = {}, UNCHANGED <<taken, metrics>>
    PROVE  Forwarding!Next
<1>1. \A u \in Samples : Fate'[u] = IF Fate[u] = "held" THEN "lost" ELSE Fate[u]
  BY FateIs, FateIsNext
<1>2. Fate' = [u \in Samples |-> IF Fate[u] = "held" THEN "lost" ELSE Fate[u]]
  BY <1>1, FateIsNext
<1> QED BY <1>2 DEF Forwarding!Stop, Forwarding!Next

\* Every behaviour of agent and backend is one that store and forward allows: handle_report
\* stores both parts of the oldest sample before report() pops it, and only a full deque or
\* the end of the process gives a sample up.
THEOREM Refines == ReportsSpec => Delivers
<1>1. ReportsInit => Forwarding!Init
  <2> SUFFICES ASSUME ReportsInit PROVE Forwarding!Init
    OBVIOUS
  <2>1. ASSUME NEW s \in Samples PROVE Fate[s] = "future"
    <3>1. s > taken /\ <<s, "net">> \notin metrics
      BY SizesAssumption DEF ReportsInit, Samples
    <3>2. ~({s} \X Parts \subseteq metrics)
      BY <3>1 DEF Parts
    <3> QED BY <3>1, <3>2, FateIs
  <2> QED BY <2>1, FateIs DEF Forwarding!Init
<1>2. ReportsTypeOK /\ Safe /\ [ReportsNext]_reportsVars => [Forwarding!Next]_Fate
  <2> SUFFICES ASSUME ReportsTypeOK, Safe, [ReportsNext]_reportsVars PROVE [Forwarding!Next]_Fate
    OBVIOUS
  <2>1. ASSUME UNCHANGED <<taken, queue, metrics>> PROVE UNCHANGED Fate
    BY <2>1 DEF Fate
  <2>2. ASSUME NEW w \in Threads, NEW part \in Parts, InsertPart(w, part) PROVE [Forwarding!Next]_Fate
    BY <2>2, InsertStores
  <2>3. ASSUME NEW w \in Threads, Reply(w) PROVE [Forwarding!Next]_Fate
    BY <2>3, ReplyPops
  <2>4. CASE Sample
    BY <2>1, <2>4, SampleTakes DEF Sample
  <2>5. CASE Install \/ RestartAgent \/ AgentLeaves
    BY <2>5, EndStops DEF Install, RestartAgent, AgentLeaves, Afresh, history
  <2>6. ASSUME NEW w \in Threads, Send(w) \/ Die(w) PROVE UNCHANGED Fate
    BY <2>1, <2>6 DEF Send, Post, Beat, AskUninstall, PollUninstall, PostResult, Die, history, process
  <2>7. ASSUME NEW w \in Threads,
               \/ Read(w) \/ CommitBeat(w) \/ CommitAsk(w) \/ ReadPoll(w) \/ CommitClaim(w) \/ Tell(w)
               \/ CommitResult(w) \/ CommitOffline(w) \/ CommitUnmanaged(w) \/ Ack(w)
        PROVE  UNCHANGED Fate
    BY <2>1, <2>7 DEF Read, CommitBeat, CommitAsk, ReadPoll, CommitClaim, Tell,
                      CommitResult, CommitOffline, CommitUnmanaged, Ack, history, process
  <2>8. CASE GiveUpPost \/ Launch \/ LaneGivesUp \/ RemoveNode \/ Survive \/ UNCHANGED reportsVars
    BY <2>1, <2>8 DEF GiveUpPost, Launch, LaneGivesUp, RemoveNode, Survive, reportsVars, history, process
  <2> QED BY <2>2, <2>3, <2>4, <2>5, <2>6, <2>7, <2>8 DEF ReportsNext, Handle, Parts
<1> QED BY <1>1, <1>2, InvariantHolds, PTL DEF Delivers, Forwarding!Spec, ReportsSpec
=============================================================================
