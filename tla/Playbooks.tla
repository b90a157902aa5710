------------------------------ MODULE Playbooks ------------------------------
(***************************************************************************)
(* Four sets of playbooks under etc/kayobe/ansible that share no state:    *)
(* maintenance of compute hosts, migration of the secret store, amphora    *)
(* images and OVN priorities.  They are put side by side: a behaviour has  *)
(* one subject, and what the others keep stays as it began.                *)
(***************************************************************************)
EXTENDS ComputeMaintenance

CONSTANTS
  MaxVersion, MaxImage,                       \* AmphoraImage
  Router, Network, Attached, MAX_PRIORITY     \* OvnPriorities; Host are its chassis

VARIABLES
  subject,
  store, migrated, vault_dir, vault, openbao, ca, plays, step, had, had_ca, early, open,
  published, configured, file, written, images, stage, settled,
  gateway, group, apply, routers, router, gateway_chassis, ha_chassis, aligned

compute == vars
secrets == <<store, migrated, vault_dir, vault, openbao, ca, plays, step, had, had_ca, early, open>>
amphora == <<published, configured, file, written, images, stage, settled>>
ovn == <<gateway, group, apply, routers, router, gateway_chassis, ha_chassis, aligned>>
allvars == <<subject, compute, secrets, amphora, ovn>>

Secrets == INSTANCE SecretStoreMigration
Amphora == INSTANCE AmphoraImage
Ovn == INSTANCE OvnPriorities WITH Chassis <- Host

ASSUME PlaybooksAssumption == Amphora!AmphoraAssumption /\ Ovn!OvnAssumption

InitPlaybooks ==
  /\ subject \in {"compute", "secrets", "amphora", "ovn"}
  /\ Init /\ Secrets!Init /\ Amphora!Init /\ Ovn!Init

NextPlaybooks ==
  /\ UNCHANGED subject
  /\ \/ subject = "compute" /\ Next /\ UNCHANGED <<secrets, amphora, ovn>>
     \/ subject = "secrets" /\ Secrets!Next /\ UNCHANGED <<compute, amphora, ovn>>
     \/ subject = "amphora" /\ Amphora!Next /\ UNCHANGED <<compute, secrets, ovn>>
     \/ subject = "ovn" /\ Ovn!Next /\ UNCHANGED <<compute, secrets, amphora>>

SpecPlaybooks == InitPlaybooks /\ [][NextPlaybooks]_allvars
----------------------------------------------------------------------------
(* Types, of all four: the state that the tasks of each playbook share.    *)
TypesOK ==
  /\ subject = "compute" => TypeOK
  /\ subject = "secrets" => Secrets!TypeOK
  /\ subject = "amphora" => Amphora!TypeOK
  /\ subject = "ovn" => Ovn!TypeOK

(* vault-bao-migration-*.yml: keys, certificates and the CA are never      *)
(* lost, however often the migration is cut short and run again.           *)
MaterialNeverLost == Secrets!MaterialNeverLost

(* vault-bao-migration-*.yml: the configuration names the store that the   *)
(* servers run and whose files are there, but for what is said there.      *)
ConfigFits == Secrets!ConfigFits

(* octavia-amphora-image-register.yml: after a run that ended well Octavia *)
(* boots amphorae from the file's version.                                 *)
ChosenIsFile == Amphora!ChosenIsFile

(* ovn-fix-chassis-priorities.yml: in a HA group that was set no chassis   *)
(* comes before the active gateway that was read for it last, and the      *)
(* other gateways follow in their order.                                   *)
GatewaysLead == Ovn!GatewaysLead
============================================================================
