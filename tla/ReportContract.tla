--------------------------- MODULE ReportContract ---------------------------
(***************************************************************************)
(* What store-and-forward reporting promises about the samples an agent    *)
(* takes: they reach the database oldest first, none is given up while     *)
(* fewer than Capacity wait for it and the agent lives, and what is in the *)
(* database stays there.  A sample the agent gave up may still arrive, by  *)
(* a request of it that was on its way.                                    *)
(***************************************************************************)
EXTENDS Naturals, FiniteSets

CONSTANTS Samples,  \* in the order they are taken
          Capacity  \* samples an agent keeps for a backend it cannot reach

VARIABLE fate  \* fate[s]: "future", "held" by the agent, "stored" or "lost"

Held == {s \in Samples : fate[s] = "held"}
First(s) == \A u \in Held : s <= u
Fates == {"future", "held", "stored", "lost"}

Init == fate = [s \in Samples |-> "future"]

\* A full agent forgets its oldest sample to take a new one.
Take(s) ==
    /\ fate[s] = "future" /\ \A u \in Samples : u < s => fate[u] # "future"
    /\ \/ fate' = [fate EXCEPT ![s] = "held"]
       \/ \E u \in Held : /\ First(u) /\ Cardinality(Held) = Capacity
                          /\ fate' = [fate EXCEPT ![s] = "held", ![u] = "lost"]

Store(s) ==
    /\ fate[s] = "lost" \/ (fate[s] = "held" /\ First(s))
    /\ fate' = [fate EXCEPT ![s] = "stored"]

\* The agent process ends.
Stop == fate' = [s \in Samples |-> IF fate[s] = "held" THEN "lost" ELSE fate[s]]

Next == \/ Stop
        \/ \E s \in Samples : Take(s) \/ Store(s)

Spec == Init /\ [][Next]_fate
=============================================================================
