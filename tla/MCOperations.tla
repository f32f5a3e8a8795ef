---------------------------- MODULE MCOperations ----------------------------
(* Instances for TLC of the monitors, the alert rules, the website            *)
(* integrations and saves of websites.  They share no state: a behaviour lets *)
(* one of them move and keeps the others where they start.                    *)
EXTENDS MonitorConfig, AlertRules, Integrations, WebsiteSaves, TLC

VARIABLE area

OperationsInit ==
  /\ MonitorInit /\ Init /\ IntegrationInit /\ SavesInit
  /\ area \in {"monitors", "alerts", "integrations", "websites"}
  /\ area # "alerts" => \A r \in Rules : target[r] = "good"

OperationsNext ==
  \/ /\ area = "monitors" /\ MonitorNext
     /\ UNCHANGED <<area, vars, integrationVars, saveVars>>
  \/ /\ area = "alerts" /\ Next
     /\ UNCHANGED <<area, monitorVars, integrationVars, saveVars>>
  \/ /\ area = "integrations" /\ IntegrationNext
     /\ UNCHANGED <<area, monitorVars, vars, saveVars>>
  \/ /\ area = "websites" /\ SavesNext
     /\ UNCHANGED <<area, monitorVars, vars, integrationVars>>

\* MonitorFairness and WatchersRun, each for the component that moves.
OperationsFairness ==
  /\ WF_monitorVars(area = "monitors" /\ Refresh)
  /\ WF_monitorVars(area = "monitors" /\ ReadList)
  /\ WF_monitorVars(area = "monitors" /\ ReadVersion)
  /\ SF_monitorVars(area = "monitors" /\ Adopt)
  /\ \A v \in Visitors : WF_integrationVars(area = "integrations" /\ Watch(v))

OperationsSpec ==
  /\ OperationsInit
  /\ [][OperationsNext]_<<area, monitorVars, vars, integrationVars, saveVars>>
  /\ OperationsFairness

OperationsTypeOK == MonitorTypeOK /\ TypeOK /\ IntegrationTypeOK /\ SavesTypeOK
=============================================================================
