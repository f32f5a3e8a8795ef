----------------------------- MODULE MCRequests -----------------------------
(* Requests to the backend: the instances of MCAccounts, and beside them the  *)
(* reports and the uninstalling of one agent (NodeReports).  They share no    *)
(* state: one of the two moves and the other stays where it starts.           *)
EXTENDS MCAccounts, NodeReports

VARIABLE about

accountVars == <<part, emailVars, sessionVars, oidcVars>>

RequestsInit ==
  /\ AccountsInit /\ ReportsInit /\ about \in {"accounts", "nodes"}
  /\ about = "nodes" => part = "oidc"

RequestsNext ==
  \/ about = "accounts" /\ AccountsNext /\ UNCHANGED <<about, reportsVars>>
  \/ about = "nodes" /\ ReportsNext /\ UNCHANGED <<about, accountVars>>

RequestsSpec == RequestsInit /\ [][RequestsNext]_<<about, accountVars, reportsVars>>
=============================================================================
