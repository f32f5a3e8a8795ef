------------------------------ MODULE ServerMap ------------------------------
(***************************************************************************)
(* The map of the servers: the agent's lane "map" reads WireGuard, asks    *)
(* which peers to ping, pings them and posts a snapshot; services/         *)
(* server_map.py pairs the snapshots of all nodes into tunnels and gives   *)
(* each a health, which only reads what is stored.                         *)
(*                                                                         *)
(* Interfaces change while they are read, posts are late, nodes fall       *)
(* silent or are removed, and a key may be announced by two of them.       *)
(***************************************************************************)
EXTENDS Naturals, FiniteSets, FiniteSetsExt

CONSTANTS
  Hosts, Keys, Addrs,
  Setups,       \* host -> the WireGuard interfaces it may have
  TTL,          \* age up to which an observation counts (180 s)
  NoPost

\* An interface: key, address, and of each peer the length of its longest prefix
\* that covers an address, 0 for none.
Interfaces == UNION {Setups[h] : h \in Hosts}

\* Times are ages; beyond TTL they are all the same.
Old == TTL + 1
Ages == 0 .. Old

\* A snapshot: its age, the key, address and peers of the interface, what the pings
\* to peers found.  Without a key the reading was unusable.
NoPeers == [k \in {} |-> 0]
PeerLists == {i.peers : i \in Interfaces} \cup {NoPeers}
Probes == [at : Ages, target : Addrs, health : {"ok", "failed"}]
Readings == [at : Ages, key : Keys \cup {NoPost}, addr : Addrs, peers : PeerLists,
             probes : UNION {[K -> Probes] : K \in SUBSET Keys}]

ASSUME MapAssumption ==
  /\ TTL \in Nat /\ NoPost \notin Readings
  /\ \A i \in Interfaces :
       /\ DOMAIN i = {"key", "addr", "peers"} /\ i.key \in Keys /\ i.addr \in Addrs
       /\ \A k \in DOMAIN i.peers : k \in Keys /\ i.peers[k] \in [Addrs -> Nat]

VARIABLES
  wg,       \* host -> its interface
  lane,     \* host -> how far its collection is
  post,     \* host -> the snapshot on its way, NoPost for none
  stored,   \* host -> node_map_snapshot in app_config, NoPost for none
  status,   \* host -> "online", "silent" for longer than a heartbeat lives, "removed"
  echoed  \* history: host -> key -> age of the last answered ping to that peer

mapVars == <<wg, lane, post, stored, status, echoed>>

Idle == [at |-> "idle", key |-> NoPost, addr |-> NoPost, peers |-> {}]

MapInit ==
  /\ wg \in [Hosts -> Interfaces] /\ \A h \in Hosts : wg[h] \in Setups[h]
  /\ lane = [h \in Hosts |-> Idle]
  /\ post = [h \in Hosts |-> NoPost]
  /\ stored = [h \in Hosts |-> NoPost]
  /\ status = [h \in Hosts |-> "silent"]
  /\ echoed = [h \in Hosts |-> [k \in Keys |-> Old]]

-----------------------------------------------------------------------------
(* What the centre reads out of the stored snapshots.                       *)

Usable(h) == status[h] # "removed" /\ stored[h] # NoPost
FreshSnapshot(h) == Usable(h) /\ status[h] = "online" /\ stored[h].at <= TTL

\* _route_owner: the one peer with the longest prefix, if it is one.
RouteOwners(peers, a) ==
  {k \in DOMAIN peers : peers[k][a] > 0 /\ \A l \in DOMAIN peers : peers[l][a] <= peers[k][a]}

\* The node whose snapshot alone announces a key.
Announcing(k) == {h \in Hosts : Usable(h) /\ stored[h].key = k}

\* build_probe_targets, of a key to the address to ping.
Targets(h) ==
  {k \in Keys :
     /\ FreshSnapshot(h) /\ k \in DOMAIN stored[h].peers
     /\ \E g \in Hosts \ {h} : /\ Announcing(k) = {g} /\ FreshSnapshot(g)
                               /\ RouteOwners(stored[h].peers, stored[g].addr) = {k}}
TargetOf(k) == stored[CHOOSE g \in Hosts : g \in Announcing(k)].addr

\* One direction of a tunnel: what h says of the peer k, the node g.
FreshByProbe(h, g, k) ==  \* the probe's own age, whatever became of the two nodes
  /\ k \in DOMAIN stored[h].probes /\ stored[h].probes[k].at <= TTL
  /\ stored[h].probes[k].target = stored[g].addr
Fresh(h, g, k) ==
  /\ FreshSnapshot(h) /\ FreshSnapshot(g)
  /\ k \in DOMAIN stored[h].probes
  /\ stored[h].probes[k].target = stored[g].addr
  /\ RouteOwners(stored[h].peers, stored[g].addr) = {k}
  /\ stored[h].probes[k].at <= TTL
Observed(h, g, k) == IF Fresh(h, g, k) THEN stored[h].probes[k].health ELSE "unknown"

\* _links: h lists k, and g alone announces it; both directions are one link.
Sees(h, g) == /\ Usable(h) /\ h # g
              /\ \E k \in DOMAIN stored[h].peers : Announcing(k) = {g}
Directions(h, g) == {d \in {<<h, g>>, <<g, h>>} : Sees(d[1], d[2])}
Severity(health) == CASE health = "ok" -> 0 [] health = "unknown" -> 1 [] health = "failed" -> 2
Unseen(h, g) == IF Cardinality(Directions(h, g)) < 2 THEN {"unknown"} ELSE {}
Healths(h, g) ==
  {Observed(d[1], d[2], stored[d[2]].key) : d \in Directions(h, g)} \cup Unseen(h, g)
Health(h, g) == CHOOSE s \in Healths(h, g) : \A t \in Healths(h, g) : Severity(t) <= Severity(s)

-----------------------------------------------------------------------------
(* The agent.                                                               *)

Aged(t) == IF t = Old THEN Old ELSE t + 1
AgedSnapshot(s) ==
  IF s = NoPost THEN s
  ELSE [s EXCEPT !.at = Aged(@), !.probes = [k \in DOMAIN s.probes |-> [s.probes[k] EXCEPT !.at = Aged(@)]]]
MapTick ==
  /\ post' = [h \in Hosts |-> AgedSnapshot(post[h])]
  /\ stored' = [h \in Hosts |-> AgedSnapshot(stored[h])]
  /\ echoed' = [h \in Hosts |-> [k \in Keys |-> Aged(echoed[h][k])]]
  /\ UNCHANGED <<wg, lane, status>>

Reconfigure(h) ==
  /\ wg' \in {[wg EXCEPT ![h] = i] : i \in Setups[h] \ {wg[h]}}
  /\ UNCHANGED <<lane, post, stored, status, echoed>>

\* One "wg show" for the keys and the peers, then one for each of their details;
\* the lane has no second collection while one runs.
ReadPeers(h) ==
  /\ lane[h] = Idle
  /\ lane' = [lane EXCEPT ![h] = [at |-> "peers", key |-> wg[h].key, addr |-> wg[h].addr,
                                  peers |-> DOMAIN wg[h].peers]]
  /\ UNCHANGED <<wg, post, stored, status, echoed>>

\* _parse_map_wireguard: details of a peer not listed before, or none of one that
\* was, make the whole reading unusable; a snapshot without peers is posted then.
Snapshot(h, peers) == [at |-> 0, key |-> lane[h].key, addr |-> lane[h].addr, peers |-> peers, probes |-> NoPeers]
ReadDetails(h) ==
  /\ lane[h].at = "peers" /\ post[h] = NoPost
  /\ post' = [post EXCEPT ![h] =
       IF DOMAIN wg[h].peers = lane[h].peers THEN Snapshot(h, wg[h].peers)
                                             ELSE [Snapshot(h, NoPeers) EXCEPT !.key = NoPost]]
  /\ lane' = [lane EXCEPT ![h] = [Idle EXCEPT !.at = "read"]]
  /\ UNCHANGED <<wg, stored, status, echoed>>

\* GET /agent/map-targets, and a ping to each target the own routes agree to.
Pinged(h) == {k \in Targets(h) \cap DOMAIN post[h].peers : RouteOwners(post[h].peers, TargetOf(k)) = {k}}
Ping(h) ==
  /\ lane[h].at = "read" /\ status[h] # "removed"
  /\ \E good \in SUBSET Pinged(h) :
       /\ post' = [post EXCEPT ![h].probes =
                     [k \in Pinged(h) |-> [at |-> 0, target |-> TargetOf(k),
                                           health |-> IF k \in good THEN "ok" ELSE "failed"]]]
       /\ echoed' = [echoed EXCEPT ![h] = [k \in Keys |-> IF k \in good THEN 0 ELSE @[k]]]
  /\ lane' = [lane EXCEPT ![h] = Idle]
  /\ UNCHANGED <<wg, stored, status>>

\* Or it could not be asked: the reading is posted alone.
NoTargets(h) ==
  /\ lane[h].at = "read"
  /\ lane' = [lane EXCEPT ![h] = Idle]
  /\ UNCHANGED <<wg, post, stored, status, echoed>>

\* The agent does not wait for ever: a late post may be served after all.
PostLost(h) ==
  /\ post[h] # NoPost /\ lane[h].at # "read"
  /\ post' = [post EXCEPT ![h] = NoPost]
  /\ UNCHANGED <<wg, lane, stored, status, echoed>>

-----------------------------------------------------------------------------
(* The centre.                                                              *)

\* handle_report with a map snapshot; a removed node's token is refused.
Store(h) ==
  /\ post[h] # NoPost /\ lane[h].at # "read" /\ status[h] # "removed"
  /\ stored' = [stored EXCEPT ![h] = IF post[h].key = NoPost THEN NoPost ELSE post[h]]
  /\ post' = [post EXCEPT ![h] = NoPost]
  /\ status' = [status EXCEPT ![h] = "online"]
  /\ UNCHANGED <<wg, lane, echoed>>

Becomes(h, from, to) ==
  /\ status[h] \in from /\ status' = [status EXCEPT ![h] = to]
  /\ UNCHANGED <<wg, lane, post, stored, echoed>>
HeartbeatOf(h) == Becomes(h, {"silent"}, "online")
FallsSilent(h) == Becomes(h, {"online"}, "silent")
RemoveHost(h) == Becomes(h, {"online", "silent"}, "removed")

MapNext ==
  \/ MapTick
  \/ \E h \in Hosts :
       \/ Reconfigure(h) \/ ReadPeers(h) \/ ReadDetails(h) \/ Ping(h) \/ NoTargets(h)
       \/ PostLost(h) \/ Store(h) \/ HeartbeatOf(h) \/ FallsSilent(h) \/ RemoveHost(h)

MapSpec == MapInit /\ [][MapNext]_mapVars

-----------------------------------------------------------------------------
MapTypeOK ==
  /\ \A h \in Hosts : /\ wg[h] \in Setups[h]
                      /\ post[h] \in {NoPost} \cup Readings
                      /\ stored[h] = NoPost \/ (stored[h] \in Readings /\ stored[h].key # NoPost)
                      /\ lane[h].at \in {"idle", "peers", "read"}
                      /\ status[h] \in {"online", "silent", "removed"}
  /\ echoed \in [Hosts -> [Keys -> Ages]]

\* A tunnel is shown healthy only if, in both directions and within the time an
\* observation counts, a ping to the other end's key was really answered.
GreenIsTwoSided ==
  \A h, g \in Hosts :
     (Sees(h, g) /\ Health(h, g) = "ok")
        => /\ status[h] = "online" /\ status[g] = "online"
           /\ echoed[h][stored[g].key] <= TTL
           /\ echoed[g][stored[h].key] <= TTL
=============================================================================
