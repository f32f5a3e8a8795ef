---------------------------- MODULE AddressChange ----------------------------
(***************************************************************************)
(* _run_ip_change: the agent gives an interface another address, and on    *)
(* request another default gateway, tries a ping, and persists the change  *)
(* or takes it back on its own.  The exit status of "ip" is not looked at, *)
(* so the ping may also be answered over the network as it was; a command  *)
(* that takes too long raises, having acted or not.                        *)
(***************************************************************************)
EXTENDS Naturals

CONSTANTS
  MayRefuse,  \* commands may be refused by sudo or the kernel
  MaxOutages  \* bound: stops of the agent and of the machine

ASSUME AddressAssumption == MayRefuse \in BOOLEAN /\ MaxOutages \in Nat

Sides == {"old", "new"}
Nets == [addrs : SUBSET Sides, gateway : {"none", "old", "new"}]
Before == [addrs |-> {"old"}, gateway |-> "old"]
Empty == [addrs |-> {}, gateway |-> "none"]
Backends == {"netplan", "networkmanager", "networkd", "none"}

VARIABLES
  net,      \* the kernel's addresses of the interface and its default route
  boot,     \* what netplan, NetworkManager or networkd would set up
  doing,    \* the step the task is at
  backend,  \* the one that _detect_persist_backend finds; "none" too if it does not know the interface
  viaNew,   \* the task names a gateway
  samePrefix, \* the old address has the prefix length the task gives
  outages

asked == <<backend, viaNew, samePrefix>>
addressVars == <<net, boot, doing, asked, outages>>

AddressInit ==
  /\ net = Before /\ boot = Before
  /\ doing = "del" /\ outages = 0
  /\ backend \in Backends /\ viaNew \in BOOLEAN /\ samePrefix \in BOOLEAN

\* A refused command leaves things as they are, and the next one runs.
Tried(old, new) == new \cup IF MayRefuse THEN {old} ELSE {}

\* "ip addr del" finds an address only under its own prefix length; with the last
\* address the routes of the interface may go.
Deleted(side) ==
  LET left == [net EXCEPT !.addrs = @ \ {side}] IN
  IF side = "old" /\ ~samePrefix THEN {net}
  ELSE Tried(net, {left} \cup IF left.addrs = {} THEN {Empty} ELSE {})
Added(side) == Tried(net, {[net EXCEPT !.addrs = @ \cup {side}]})
\* A default route that is there already is not replaced.
RouteDeleted == Tried(net, {[net EXCEPT !.gateway = "none"]})
RouteAdded == IF net.gateway = "none" THEN Tried(net, {[net EXCEPT !.gateway = "new"]}) ELSE {net}

\* The command at "from" runs; or it times out, which is caught or fails the task.
Runs(from, to, timedOut, nets) ==
  /\ doing = from
  /\ \/ doing' = to /\ net' \in nets
     \/ doing' = timedOut /\ net' \in nets \cup {net}
  /\ UNCHANGED <<boot, asked, outages>>

DelOld == Runs("del", "add", "recover", Deleted("old"))
AddNew == Runs("add", IF viaNew THEN "delroute" ELSE "ping", "recover", Added("new"))
\* One of the two timed out: the old address is added again, once.
Recover == Runs("recover", "rolledback", "rolledback", Added("old"))
DelRoute == Runs("delroute", "addroute", "failed", RouteDeleted)
AddRoute == Runs("addroute", "ping", "failed", RouteAdded)

TryPing ==
  /\ doing = "ping" /\ doing' \in {"persist", "takeback"}
  /\ UNCHANGED <<net, boot, asked, outages>>

\* Silence: the change is taken back; a timeout of one command skips the other.
\* The route added last is the task's gateway once more.
AfterAddresses == IF viaNew THEN "reroute" ELSE "takenback"
TakeBackNew == Runs("takeback", "giveold", AfterAddresses, Deleted("new"))
GiveOld == Runs("giveold", AfterAddresses, AfterAddresses, Added("old"))
Reroute == Runs("reroute", "takenback", "failed", RouteAdded)

-----------------------------------------------------------------------------
(* _persist_ip, one command or file operation at a time.  Whatever raises     *)
(* ends it, the original is not put back, and the task reports success.       *)

Kept == [addrs |-> {"new"}, gateway |-> IF viaNew THEN "new" ELSE "old"]

Persists(from, to, boots) ==
  /\ doing = from
  /\ \/ doing' = to /\ boot' \in boots
     \/ doing' = "done" /\ boot' \in boots \cup {boot}
  /\ UNCHANGED <<net, asked, outages>>

\* Only netplan's exit status is looked at, and only here.
SetAddress ==
  LET given == [boot EXCEPT !.addrs = {"new"}] IN
  \/ backend = "netplan" /\ Persists("persist", "setgateway", {given})
  \/ backend = "networkmanager" /\ Persists("persist", "setgateway", Tried(boot, {given}))
SetGateway ==
  Persists("setgateway", "apply",
           IF viaNew THEN Tried(boot, {[boot EXCEPT !.gateway = "new"]}) ELSE {boot})

\* networkd: open(nf, "w") empties the file, which is then written anew.
Truncate == backend = "networkd" /\ Persists("persist", "rewrite", {Empty})
Rewrite == Persists("rewrite", "apply", {Kept})

NoBackend == backend = "none" /\ Persists("persist", "done", {boot})

\* "netplan apply", "nmcli con up", "networkctl reload".
ApplyBoot ==
  /\ doing = "apply" /\ doing' = "done" /\ net' \in {net, boot}
  /\ UNCHANGED <<boot, asked, outages>>

-----------------------------------------------------------------------------
TaskEnded == {"done", "takenback", "rolledback", "failed"}

\* The agent is killed: nobody takes the change back until the machine boots.
AgentKilled ==
  /\ doing \notin TaskEnded \cup {"killed"} /\ outages < MaxOutages
  /\ doing' = "killed" /\ outages' = outages + 1
  /\ UNCHANGED <<net, boot, asked>>

Boots ==
  /\ outages < MaxOutages /\ outages' = outages + 1
  /\ net' = boot
  /\ doing' = IF doing \in TaskEnded THEN "over" ELSE "killed"
  /\ UNCHANGED <<boot, asked>>

AddressNext ==
  \/ DelOld \/ AddNew \/ Recover \/ DelRoute \/ AddRoute \/ TryPing
  \/ TakeBackNew \/ GiveOld \/ Reroute
  \/ SetAddress \/ SetGateway \/ Truncate \/ Rewrite \/ NoBackend \/ ApplyBoot
  \/ AgentKilled \/ Boots

AddressSpec == AddressInit /\ [][AddressNext]_addressVars

-----------------------------------------------------------------------------
AddressTypeOK ==
  /\ net \in Nets /\ boot \in Nets
  /\ backend \in Backends /\ viaNew \in BOOLEAN /\ samePrefix \in BOOLEAN
  /\ doing \in TaskEnded \cup {"del", "add", "recover", "delroute", "addroute", "ping", "takeback",
       "giveold", "reroute", "persist", "setgateway", "rewrite", "apply", "killed", "over"}
  /\ outages \in 0 .. MaxOutages
=============================================================================
