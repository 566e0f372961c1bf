------------------------------ MODULE MCServices ------------------------------
(***************************************************************************)
(* Small instances of Organizations, HostKeys, StatusChecker,              *)
(* Integrations, Backups and Startup in one run.  They share no variable:  *)
(* "part" names the one that runs, and the others keep one idle state.     *)
(* Calls, syncs and backup jobs share their identifiers, and so do host    *)
(* keys, members and remote items: the symmetry group stays small.         *)
(***************************************************************************)
EXTENDS HostKeys, StatusChecker, Startup, Organizations, Integrations, Backups, TLC

VARIABLE part

(* Two syncs overlap over the items that are also in Keys; with all of     *)
(* Items, enough for a removal that waits for review and is not of         *)
(* everything, there is one sync at a time.                                *)
SyncBounds ==
    /\ part = "integrations" => /\ Shown \subseteq Keys
                                /\ \A s \in Syncs : sync[s].items \subseteq Keys
    /\ part = "review" => \A s, t \in Syncing : s = t

(* where the other parts stay *)
IdleOrganizations == org = "none"
IdleStatusChecker == /\ enabled = FALSE /\ status = [h \in Hosts |-> "unknown"]
                     /\ restart = {CHOOSE r \in Restarts : TRUE}
IdleIntegrations == kind = "netbox" /\ used = {}
IdleBackups == due = FALSE /\ retention = CHOOSE n \in Retentions : TRUE
IdleStartup == recorded = {} /\ backup = [db |-> TRUE, version |-> 0, dirs |-> {}]

Init ==
    /\ part \in {"organizations", "hostKeys", "statusChecker", "integrations", "review",
                "backups", "startup"}
    /\ part # "organizations" => IdleOrganizations
    /\ OrganizationsInit
    /\ HostKeysInit
    /\ StatusCheckerInit
    /\ part # "statusChecker" => IdleStatusChecker
    /\ IntegrationsInit
    /\ part \notin {"integrations", "review"} => IdleIntegrations
    /\ SyncBounds
    /\ BackupsInit
    /\ part # "backups" => IdleBackups
    /\ StartupInit
    /\ part # "startup" => IdleStartup

OrganizationsPart ==
    /\ part = "organizations" /\ OrganizationsNext
    /\ UNCHANGED <<part, hkVars, scVars, intVars, bkVars, stVars>>
HostKeysPart ==
    /\ part = "hostKeys" /\ HostKeysNext
    /\ UNCHANGED <<part, orgVars, scVars, intVars, bkVars, stVars>>
StatusCheckerPart ==
    /\ part = "statusChecker" /\ StatusCheckerNext
    /\ UNCHANGED <<part, orgVars, hkVars, intVars, bkVars, stVars>>
IntegrationsPart ==
    /\ part \in {"integrations", "review"} /\ IntegrationsNext
    /\ UNCHANGED <<part, orgVars, hkVars, scVars, bkVars, stVars>>
    /\ SyncBounds'
BackupsPart ==
    /\ part = "backups" /\ BackupsNext
    /\ UNCHANGED <<part, orgVars, hkVars, scVars, intVars, stVars>>
StartupPart ==
    /\ part = "startup" /\ StartupNext
    /\ UNCHANGED <<part, orgVars, hkVars, scVars, intVars, bkVars>>

Next == \/ OrganizationsPart \/ HostKeysPart \/ StatusCheckerPart
        \/ IntegrationsPart \/ BackupsPart \/ StartupPart

Spec == Init /\ [][Next]_<<part, orgVars, hkVars, scVars, intVars, bkVars, stVars>>

ServicesTypeOK ==
    /\ OrganizationsTypeOK /\ HostKeysTypeOK /\ StatusCheckerTypeOK
    /\ IntegrationsTypeOK /\ BackupsTypeOK /\ StartupTypeOK

Symmetry == Permutations(Calls) \cup Permutations(Keys)
=============================================================================
