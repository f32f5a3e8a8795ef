----------------------------- MODULE AlertRules -----------------------------
(***************************************************************************)
(* Alert rules and their lazy evaluation.                                  *)
(*                                                                         *)
(* A rule watches one target: a node, a monitor or a WireGuard link.  No   *)
(* process polls the targets: the handler of an agent's heartbeat or probe *)
(* result evaluates the enabled rules before it answers.  What the         *)
(* evaluation changes it only flushes; get_db closes the session at the    *)
(* end of the request without a commit, so the rows it wrote are gone, and *)
(* what it already pushed to the browsers is not.                          *)
(***************************************************************************)
EXTENDS Naturals

CONSTANTS Rules,     \* one per (kind, target), which is unique in alert_rules
          Workers,   \* threads that serve requests
          Debounces, \* debounce values in use, 1..10 in the code
          MaxStreak, \* bound: bad looks in a row
          NoRule     \* a row that is not there

ASSUME DebouncesAssumption == Debounces \subseteq Nat \ {0}

VARIABLES rule,    \* alert_rules: NoRule or [debounce, enabled]
          slot,    \* alert_states: NoRule or [state, bad], bad the column "consecutive"
          target,  \* what the target of a rule looks like right now
          session, \* rules each worker still evaluates, and its uncommitted slots
          bell,    \* the last push to /ws/notifications
          streak   \* history: bad evaluations of a rule since its last good one

vars == <<rule, slot, target, session, bell, streak>>

\* "gone": removed node, deleted monitor, link missing from the topology (message
\* ""); "unclear": pending node, unknown health (message "keep").
Looks == {"bad", "good", "unclear", "gone"}
Rows == [debounce : Debounces, enabled : BOOLEAN]
Slots == [state : {"ok", "firing"}, bad : Nat]
Fresh == [state |-> "ok", bad |-> 0]
Live(r) == rule[r] # NoRule /\ rule[r].enabled
NoRows == [r \in Rules |-> NoRule]
Closed == [todo |-> NoRows, dirty |-> NoRows]
Busy(w) == session[w] # Closed
Pending(w, r) == session[w].todo[r] # NoRule
Quiet == [rule |-> NoRule, event |-> "none"]
Bells == {Quiet} \cup [rule : Rules, event : {"fired", "resolved", "remind"}]

TypeOK ==
    /\ rule \in [Rules -> {NoRule} \cup Rows]
    /\ slot \in [Rules -> {NoRule} \cup Slots]
    /\ target \in [Rules -> Looks]
    /\ session \in [Workers -> [todo : [Rules -> {NoRule} \cup Rows],
                            dirty : [Rules -> {NoRule} \cup Slots]]]
    /\ bell \in Bells
    /\ streak \in [Rules -> Nat]

Init ==
    /\ rule = [r \in Rules |-> NoRule]
    /\ slot = [r \in Rules |-> NoRule]
    /\ target \in [Rules -> Looks]
    /\ session = [w \in Workers |-> Closed]
    /\ bell = Quiet
    /\ streak = [r \in Rules |-> 0]

-----------------------------------------------------------------------------
(* Rules come and go; these handlers commit.                                *)

\* A new debounce starts a new count for the reader; the stored count stays.
Restart(r) == streak' = [streak EXCEPT ![r] = 0]

\* ids are not reused: no request still holds a rule r deleted earlier.
Create(r, d) ==
    /\ rule[r] = NoRule /\ \A w \in Workers : ~Pending(w, r)
    /\ rule' = [rule EXCEPT ![r] = [debounce |-> d, enabled |-> TRUE]]
    /\ slot' = [slot EXCEPT ![r] = Fresh]
    /\ Restart(r)
    /\ UNCHANGED <<target, session, bell>>

Update(r, d, on) ==
    /\ rule[r] # NoRule
    /\ rule' = [rule EXCEPT ![r] = [debounce |-> d, enabled |-> on]]
    /\ Restart(r)
    /\ UNCHANGED <<slot, target, session, bell>>

Delete(r) ==
    /\ rule[r] # NoRule
    /\ rule' = [rule EXCEPT ![r] = NoRule]
    /\ slot' = [slot EXCEPT ![r] = NoRule]
    /\ UNCHANGED <<target, session, bell, streak>>

\* A target changes its looks.
Change(r, look) ==
    /\ target[r] # look
    /\ target' = [target EXCEPT ![r] = look]
    /\ UNCHANGED <<rule, slot, session, bell, streak>>

-----------------------------------------------------------------------------
(* Evaluation.                                                              *)

Fires(s, look, d) == look = "bad" /\ s.state = "ok" /\ s.bad + 1 >= d
Resolves(s, look) == look = "good" /\ s.state = "firing"
MayRemind(s, look) == look = "bad" /\ s.state = "firing"

\* _evaluate: the slot after one look at the target.
Evaluated(s, look, d) ==
    CASE look = "gone" -> IF s.state = "firing" THEN Fresh ELSE s
      [] look = "unclear" -> s
      [] look = "good" -> Fresh
      [] look = "bad" -> [state |-> IF Fires(s, look, d) THEN "firing" ELSE s.state,
                          bad |-> s.bad + 1]

Counted(n, s, look) ==
    CASE look = "bad" -> n + 1
      [] look = "good" \/ (look = "gone" /\ s.state = "firing") -> 0
      [] OTHER -> n

\* A heartbeat evaluates every node rule, a map snapshot every link rule, a probe
\* result the rule of its monitor: some set S of enabled rules, as they are now.
LookAt(w, S) ==
    /\ ~Busy(w) /\ S # {} /\ \A r \in S : Live(r)
    /\ session' = [session EXCEPT ![w].todo = [r \in Rules |-> IF r \in S THEN rule[r] ELSE NoRule]]
    /\ UNCHANGED <<rule, slot, target, bell, streak>>

\* Each rule of a request is evaluated once, against the committed slot.
Evaluate(w, r) ==
    LET s == slot[r]
        look == target[r]
        d == session[w].todo[r].debounce
    IN /\ Pending(w, r) /\ rule[r] # NoRule /\ streak[r] < MaxStreak
       /\ session' = [session EXCEPT ![w].todo[r] = NoRule,
                                     ![w].dirty[r] = Evaluated(s, look, d)]
       /\ streak' = [streak EXCEPT ![r] = Counted(@, s, look)]
       /\ bell' \in CASE Fires(s, look, d) -> {[rule |-> r, event |-> "fired"]}
                      [] Resolves(s, look) -> {[rule |-> r, event |-> "resolved"]}
                      [] MayRemind(s, look) -> {bell, [rule |-> r, event |-> "remind"]}
                      [] OTHER -> {bell}
       /\ UNCHANGED <<rule, slot, target>>

\* The rule was deleted since the request read it: _state_for inserts a slot
\* without a rule, the foreign key refuses it and the request fails.
Fail(w, r) ==
    /\ Pending(w, r) /\ rule[r] = NoRule
    /\ session' = [session EXCEPT ![w] = Closed]
    /\ UNCHANGED <<rule, slot, target, bell, streak>>

\* get_db: the session is closed, not committed.
Close(w) ==
    /\ Busy(w) /\ \A r \in Rules : ~Pending(w, r)
    /\ session' = [session EXCEPT ![w] = Closed]
    /\ UNCHANGED <<rule, slot, target, bell, streak>>

Next ==
    \/ \E r \in Rules, d \in Debounces : Create(r, d)
    \/ \E r \in Rules, d \in Debounces, on \in BOOLEAN : Update(r, d, on)
    \/ \E r \in Rules : Delete(r)
    \/ \E r \in Rules, look \in Looks : Change(r, look)
    \/ \E w \in Workers, S \in SUBSET Rules : LookAt(w, S)
    \/ \E w \in Workers, r \in Rules : Evaluate(w, r)
    \/ \E w \in Workers, r \in Rules : Fail(w, r)
    \/ \E w \in Workers : Close(w)

Spec == Init /\ [][Next]_vars

-----------------------------------------------------------------------------
(* Properties.                                                              *)

\* What the service promises: after debounce bad looks in a row, and with no
\* evaluation under way, the rule is firing.
FiresAfterDebounce ==
    \A r \in Rules :
       (Live(r) /\ streak[r] >= rule[r].debounce /\ \A w \in Workers : ~Busy(w))
          => slot[r].state = "firing"
=============================================================================
