------------------------------- MODULE MCHosts -------------------------------
(* Instances for TLC of the modules about the hosts: the agent's update, the  *)
(* change of a server's address, the map of the servers and the releases.    *)
(* They share no state: a behaviour lets one of them move and keeps the      *)
(* others where they start.                                                  *)
EXTENDS ServerMap, AgentUpdate, AddressChange, AppSwap, TwoNodeRelease, EdgeDeploy,
        PublicAssets, TLC

CONSTANTS h1, h2, k1, k2, k3, a1, a2, q1, q2, q3, url1, url2

VARIABLE area

\* An address that no prefix of a peer covers has length 0.
Covers(a, n) == [x \in {a1, a2} |-> IF x = a THEN n ELSE 0]
Iface(k, a, peers) == [key |-> k, addr |-> a, peers |-> peers]
\* h1 and h2 are peers, and h2 has another peer with a shorter prefix over the same
\* address; or h2 is a copy of h1 with its key.
MapSetups ==
  h1 :> {Iface(k1, a1, k2 :> Covers(a2, 1))} @@
  h2 :> {Iface(k2, a2, k1 :> Covers(a1, 2) @@ k3 :> Covers(a1, 1)),
         Iface(k1, a2, k2 :> Covers(a2, 1))}

\* q1 and q2 share a URL, q2 and q3 publish another with different bytes.
BundleContent ==
  q1 :> (url1 :> 1 @@ url2 :> Missing) @@
  q2 :> (url1 :> 1 @@ url2 :> 2) @@
  q3 :> (url1 :> Missing @@ url2 :> 3)

rest == <<area, mapVars, updateVars, addressVars, swapVars, releaseVars, edgeVars, assetVars>>

HostsInit ==
  /\ MapInit /\ UpdateInit /\ AddressInit /\ SwapInit /\ ReleaseInit /\ EdgeInit /\ AssetsInit
  /\ area \in {"map", "update", "address", "swap", "release", "edge", "assets"}
  /\ area # "map" => wg[h2].key = k2
  /\ area # "address" => viaNew /\ samePrefix /\ backend = "none"
  /\ area # "swap" => host = "node"
  /\ area # "release" => primary = CHOOSE n \in Nodes : TRUE

HostsNext ==
  \/ /\ area = "map" /\ MapNext
     /\ UNCHANGED <<area, updateVars, addressVars, swapVars, releaseVars, edgeVars, assetVars>>
  \/ /\ area = "update" /\ UpdateNext
     /\ UNCHANGED <<area, mapVars, addressVars, swapVars, releaseVars, edgeVars, assetVars>>
  \/ /\ area = "address" /\ AddressNext
     /\ UNCHANGED <<area, mapVars, updateVars, swapVars, releaseVars, edgeVars, assetVars>>
  \/ /\ area = "swap" /\ SwapNext
     /\ UNCHANGED <<area, mapVars, updateVars, addressVars, releaseVars, edgeVars, assetVars>>
  \/ /\ area = "release" /\ ReleaseNext
     /\ UNCHANGED <<area, mapVars, updateVars, addressVars, swapVars, edgeVars, assetVars>>
  \/ /\ area = "edge" /\ EdgeNext
     /\ UNCHANGED <<area, mapVars, updateVars, addressVars, swapVars, releaseVars, assetVars>>
  \/ /\ area = "assets" /\ AssetsNext
     /\ UNCHANGED <<area, mapVars, updateVars, addressVars, swapVars, releaseVars, edgeVars>>

HostsSpec == HostsInit /\ [][HostsNext]_rest

HostsTypeOK ==
  /\ MapTypeOK /\ UpdateTypeOK /\ AddressTypeOK /\ SwapTypeOK /\ ReleaseTypeOK
  /\ EdgeTypeOK /\ AssetsTypeOK
=============================================================================
