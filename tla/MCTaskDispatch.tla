--------------------------- MODULE MCTaskDispatch ---------------------------
(* Instances of TaskDispatch for TLC. *)
EXTENDS TaskDispatch, TLC

CONSTANTS n1, n2

Test(s, c) == [kind |-> "iperf3", server |-> s, client |-> c]
On(k, c) == [kind |-> k, server |-> NoNode, client |-> c]

\* Tests of one link: n1 serves, n2 connects.
TestOrders == {Test(n1, n2)}
\* Everything an agent executes beside them, on one node.
MixedOrders == {On("speedtest", n1), On("command", n1), On("install", n1)}

AlikeWorkers == Permutations(Workers)

\* Bound: three rows only while a single worker serves requests.
FewRequests ==
    Cardinality({t \in Tasks : status[t] # "unborn"}) > 2
        => Cardinality({w \in Workers : req[w] # Idle}) <= 1

\* Bound: at most two reports under way (a late first report and its retry); a
\* report of the server role that nobody awaits any more changes nothing.
FewPosts == /\ Cardinality(posts) <= 2
            /\ \A m \in posts : m.item[2] = "server" => Awaits(Runner(m.item), m)
=============================================================================
