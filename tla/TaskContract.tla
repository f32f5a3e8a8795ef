---------------------------- MODULE TaskContract ----------------------------
(***************************************************************************)
(* What the task board of StellaHaven promises to the people who queue a   *)
(* task and to the machines that execute it, without saying how: no rows,  *)
(* no transactions, no HTTP.                                               *)
(*                                                                         *)
(*   - a task is offered once; at most one speed test is on offer at a     *)
(*     time;                                                               *)
(*   - each role of a task is handed to a machine at most once;            *)
(*   - a machine starts a role at most once, and only after it was handed  *)
(*     that role.                                                          *)
(*                                                                         *)
(* TaskDispatch implements this specification; see Contract there.         *)
(***************************************************************************)
CONSTANTS Tasks,     \* every task that can ever be queued
          Exclusive, \* the tasks of which only one may be on offer: speed tests
          Roles      \* the parts of a task that machines play

VARIABLES offer,     \* offer[t]: "none" yet, "open" to be taken, or "closed"
          taken,     \* the <<task, role>> pairs handed to a machine
          begun      \* the <<task, role>> pairs a machine has started

vars == <<offer, taken, begun>>

Init == /\ offer = [t \in Tasks |-> "none"]
        /\ taken = {}
        /\ begun = {}

\* Offers in S are withdrawn; a closed offer never opens again.
Closing(S) == offer' = [t \in Tasks |-> IF t \in S /\ offer[t] = "open"
                                        THEN "closed" ELSE offer[t]]

Publish(t) == /\ offer[t] = "none"
              /\ t \in Exclusive => \A u \in Exclusive : offer[u] # "open"
              /\ offer' = [offer EXCEPT ![t] = "open"]
              /\ UNCHANGED <<taken, begun>>

Close == /\ \E S \in SUBSET Tasks : Closing(S)
         /\ UNCHANGED <<taken, begun>>

\* A machine receives the parts S. It may receive one whose offer has closed
\* meanwhile (cancelled while its poll was in flight), never one handed before.
Take(S) == /\ S \cap taken = {}
           /\ \A i \in S : offer[i[1]] # "none"
           /\ taken' = taken \cup S
           /\ Closing({i[1] : i \in {j \in S : j[2] = "client"}})
           /\ UNCHANGED begun

Begin(i) == /\ i \in taken \ begun
            /\ begun' = begun \cup {i}
            /\ UNCHANGED <<offer, taken>>

Next == \/ \E t \in Tasks : Publish(t)
        \/ Close
        \/ \E S \in SUBSET (Tasks \X Roles) : Take(S)
        \/ \E i \in Tasks \X Roles : Begin(i)

Spec == Init /\ [][Next]_vars
=============================================================================
