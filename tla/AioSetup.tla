------------------------------ MODULE AioSetup ------------------------------
(***************************************************************************)
(* etc/kayobe/environments/aio/automated-setup.sh: install and deploy an   *)
(* all-in-one cloud on the host the script runs on.  A run is a list of    *)
(* commands, each a list of functions; the first one to fail ends it       *)
(* (set -e).  The operator edits the settings at the head of the script    *)
(* and runs it again: what a run finds on the host is what earlier ones,   *)
(* failed or cut short anywhere, have left.                                *)
(***************************************************************************)
EXTENDS Naturals, Sequences, SequencesExt

Repo == {"kayobe", "kayobe-config"}
LinkOrder == <<"breth1", "192.168.33.3/24", "dummy1">>
Link == ToSet(LinkOrder)

Setting == [lvm : BOOLEAN,      \* KAYOBE_AIO_LVM
            ovs : BOOLEAN,      \* USE_OVS
            octavia : BOOLEAN,  \* ENABLE_OCTAVIA
            tempest : BOOLEAN]  \* AIO_RUN_TEMPEST

Defaults == [lvm |-> TRUE, ovs |-> FALSE, octavia |-> TRUE, tempest |-> FALSE]

Prereqs == <<"check_ark_credentials", "configure_lvm", "install_dependencies",
             "clone_repositories", "disable_ovn", "disable_octavia",
             "remove_lvm_configuration", "setup_virtualenv", "configure_network">>

KayobeCommands == <<"kayobe_control_host_bootstrap", "kayobe_run_init_playbooks",
                    "kayobe_overcloud_host_configure", "kayobe_octavia_certificates",
                    "kayobe_overcloud_service_deploy", "kayobe_octavia_amphora_image",
                    "kayobe_test_overcloud_vm">>

Command == {"deploy_full", "run_deploy_prereqs", "run_kayobe_commands", "configure_network",
            "kayobe_control_host_bootstrap", "kayobe_overcloud_host_configure",
            "kayobe_octavia_certificates", "kayobe_overcloud_service_deploy",
            "kayobe_octavia_amphora_image", "generate_kayobe_env_script",
            "generate_openstack_env_script", "run_tempest"}

VARIABLES
  settings,   \* the settings in the script
  todo,       \* functions that the run has still to call
  full,       \* the run is one of deploy_full
  has_lvm,    \* the host has an LVM volume group
  clones,     \* src/<repo>: "absent", "partial" or "whole"
  venv,       \* venvs/kayobe: as below
  overrides,  \* of disable-ovn.yml and zz-disable-octavia.yml, those in the environment
  lvm_config, \* the checkout has the LVM configuration
  links,      \* network interfaces, and the address of one, that exist
  octavia_files, \* certificates and octavia-openrc.sh, those in kolla's configuration
  automation, \* the container kayobe-automation exists, in which Tempest runs
  deployed    \* what the last deployment to complete was configured with

vars == <<settings, todo, full, has_lvm, clones, venv, overrides, lvm_config, links,
          octavia_files, automation, deployed>>

checkout == <<clones, overrides, lvm_config>>
host == <<has_lvm, links, octavia_files, automation, deployed>>

(* A directory without bin/activate, which python writes last; a virtualenv *)
(* with nothing but pip; one in which pip was killed; one with Kayobe.     *)
Venv == {"absent", "partial", "created", "broken", "installed"}

Calling(f) == todo # <<>> /\ Head(todo) = f
Running == todo # <<>>

FunctionsOf(command) ==
  CASE command = "deploy_full" ->
         Prereqs \o <<"generate_kayobe_env_script">> \o KayobeCommands
         \o (IF settings.tempest THEN <<"run_tempest">> ELSE <<>>)
         \o <<"generate_openstack_env_script">>
    [] command = "run_deploy_prereqs" -> Prereqs
    [] command = "run_kayobe_commands" -> KayobeCommands
    [] OTHER -> <<command>>

NotDeployed == [ovs |-> FALSE, octavia |-> FALSE, running |-> FALSE]

Init ==
  /\ settings = Defaults
  /\ todo = <<>> /\ full = FALSE
  /\ has_lvm \in BOOLEAN
  /\ clones = [r \in Repo |-> "absent"] /\ venv = "absent"
  /\ overrides = {} /\ lvm_config = TRUE
  /\ links = {} /\ octavia_files = {} /\ automation = FALSE
  /\ deployed = NotDeployed
----------------------------------------------------------------------------
(* What the functions find on the host. *)
NeedsCloneAlways(r) == r \in Repo   \* fault
NeedsClone(r) == clones[r] = "absent"
NeedsVenv == venv = "absent"
NeedsLink(l) == l \notin links

ConfiguredOctavia == "zz-disable-octavia.yml" \notin overrides
ConfiguredOvs == "disable-ovn.yml" \in overrides

(* Without Octavia these two return at once. *)
Skipped(f) ==
  ~settings.octavia /\ f \in {"kayobe_octavia_certificates", "kayobe_octavia_amphora_image"}

UsesKayobe(f) == f \in ToSet(KayobeCommands) /\ ~Skipped(f)

UsesConfig(f) ==
  \/ f = "disable_ovn" /\ settings.ovs
  \/ f = "disable_octavia" /\ ~settings.octavia
  \/ f \in {"setup_virtualenv", "run_tempest"}
  \/ UsesKayobe(f)

(* What a function must find to succeed: git refuses a directory that is   *)
(* not empty, ip an interface that exists, source a file that does not.  A *)
(* half-made checkout may have the files that are used, or lack them.      *)
Possible(f) ==
  /\ f = "clone_repositories" => \A r \in Repo : NeedsClone(r) => clones[r] = "absent"
  /\ UsesConfig(f) => clones["kayobe-config"] # "absent"
  /\ f = "kayobe_test_overcloud_vm" => clones["kayobe"] # "absent"
  /\ f = "setup_virtualenv" => venv # "partial"
  /\ UsesKayobe(f) => venv \in {"installed", "broken"}
  /\ f = "configure_network" => \A l \in Link : NeedsLink(l) => l \notin links
  /\ f = "kayobe_overcloud_service_deploy" /\ ConfiguredOctavia => "certificates" \in octavia_files
  /\ f = "kayobe_octavia_amphora_image" /\ settings.octavia => "openrc" \in octavia_files
  /\ f = "run_tempest" => venv \notin {"absent", "partial"} /\ ~automation

Return == todo' = Tail(todo) /\ UNCHANGED <<settings, full>>

(* The operator edits the script, and gives it commands. *)
EditSettings ==
  /\ ~Running
  /\ settings' \in Setting
  /\ UNCHANGED <<todo, full, venv, checkout, host>>

main ==
  /\ ~Running
  /\ \E command \in Command :
       /\ todo' = FunctionsOf(command)
       /\ full' = (command = "deploy_full")
  /\ UNCHANGED <<settings, venv, checkout, host>>

(* What clone_repositories and setup_virtualenv leave when they do not get *)
(* to their end.  git removes what it has cloned, but not when only the    *)
(* checkout failed or when it is killed; python never removes a virtualenv; *)
(* pip puts back the packages it was replacing, unless it is killed.       *)
HalfDone ==
  /\ IF Calling("clone_repositories") /\ Possible("clone_repositories")
       THEN \/ UNCHANGED clones
            \/ \E r \in Repo, state \in {"partial", "whole"} :
                 /\ NeedsClone(r)
                 /\ clones' = [q \in Repo |-> IF q = r THEN state
                                     ELSE IF q = "kayobe" /\ NeedsClone(q) THEN "whole"
                                     ELSE clones[q]]
       ELSE UNCHANGED clones
  /\ IF Calling("setup_virtualenv") /\ venv # "partial"
       THEN venv' \in {venv, "broken"} \cup (IF NeedsVenv THEN {"partial", "created"} ELSE {})
       ELSE UNCHANGED venv

(* A function fails, or the operator interrupts it. *)
Fail ==
  /\ Running
  /\ todo' = <<>>
  /\ HalfDone
  /\ IF Calling("configure_network") /\ Possible("configure_network")
       THEN \E n \in 0..Len(LinkOrder) : links' = links \cup ToSet(SubSeq(LinkOrder, 1, n))
       ELSE UNCHANGED links
  /\ automation' \in IF Calling("run_tempest") /\ Possible("run_tempest") THEN BOOLEAN ELSE {automation}
  /\ UNCHANGED <<settings, full, has_lvm, overrides, lvm_config, octavia_files, deployed>>

(* The host goes down; the interfaces and the container are gone when it   *)
(* is back.                                                                *)
Crash ==
  /\ todo' = <<>>
  /\ HalfDone
  /\ links' = {} /\ automation' = FALSE
  /\ UNCHANGED <<settings, full, has_lvm, overrides, lvm_config, octavia_files, deployed>>
----------------------------------------------------------------------------
(* check_ark_credentials, install_dependencies, the bootstrap, the init    *)
(* playbooks, the host configuration, the test VM and the scripts that are *)
(* generated for the operator: nothing that another function reads.        *)
Stateless == {"check_ark_credentials", "install_dependencies", "kayobe_control_host_bootstrap",
              "kayobe_run_init_playbooks", "kayobe_overcloud_host_configure",
              "kayobe_test_overcloud_vm", "generate_kayobe_env_script",
              "generate_openstack_env_script"}

CallStateless ==
  /\ \E f \in Stateless : Calling(f) /\ Possible(f)
  /\ Return
  /\ UNCHANGED <<venv, checkout, host>>

(* The only function that looks at LVM before there is a checkout. *)
configure_lvm ==
  /\ Calling("configure_lvm") /\ (has_lvm \/ ~settings.lvm)
  /\ Return
  /\ UNCHANGED <<venv, checkout, host>>

(* Fault: only the repository that deploys is cloned. *)
CloneConfigOnly ==
  /\ Calling("clone_repositories") /\ Possible("clone_repositories")
  /\ clones' = [clones EXCEPT !["kayobe-config"] = IF NeedsClone("kayobe-config") THEN "whole" ELSE @]
  /\ Return
  /\ UNCHANGED <<venv, overrides, lvm_config, host>>

clone_repositories ==
  /\ Calling("clone_repositories") /\ Possible("clone_repositories")
  /\ clones' = [r \in Repo |-> IF NeedsClone(r) THEN "whole" ELSE clones[r]]
  /\ Return
  /\ UNCHANGED <<venv, overrides, lvm_config, host>>

disable_ovn ==
  /\ Calling("disable_ovn") /\ Possible("disable_ovn")
  /\ overrides' = IF settings.ovs THEN overrides \cup {"disable-ovn.yml"} ELSE overrides
  /\ Return
  /\ UNCHANGED <<venv, clones, lvm_config, host>>

(* Fault: a stale override stays, as disable_ovn leaves its own. *)
DisableOctaviaKeeps ==
  /\ Calling("disable_octavia") /\ Possible("disable_octavia")
  /\ overrides' = IF settings.octavia THEN overrides
                                      ELSE overrides \cup {"zz-disable-octavia.yml"}
  /\ Return
  /\ UNCHANGED <<venv, clones, lvm_config, host>>

disable_octavia ==
  /\ Calling("disable_octavia") /\ Possible("disable_octavia")
  /\ overrides' = IF settings.octavia THEN overrides \ {"zz-disable-octavia.yml"}
                                      ELSE overrides \cup {"zz-disable-octavia.yml"}
  /\ Return
  /\ UNCHANGED <<venv, clones, lvm_config, host>>

(* With || true: where there is no checkout there is nothing to remove.    *)
remove_lvm_configuration ==
  /\ Calling("remove_lvm_configuration") /\ Possible("remove_lvm_configuration")
  /\ has_lvm \/ ~settings.lvm
  /\ lvm_config' = (lvm_config /\ (has_lvm \/ clones["kayobe-config"] = "absent"))
  /\ Return
  /\ UNCHANGED <<venv, clones, overrides, host>>

setup_virtualenv ==
  /\ Calling("setup_virtualenv") /\ Possible("setup_virtualenv")
  /\ venv' = "installed"
  /\ Return
  /\ UNCHANGED <<checkout, host>>

configure_network ==
  /\ Calling("configure_network") /\ Possible("configure_network")
  /\ links' = links \cup {l \in Link : NeedsLink(l)}
  /\ Return
  /\ UNCHANGED <<venv, checkout, has_lvm, octavia_files, automation, deployed>>

kayobe_octavia_certificates ==
  /\ Calling("kayobe_octavia_certificates") /\ Possible("kayobe_octavia_certificates")
  /\ octavia_files' = IF settings.octavia THEN octavia_files \cup {"certificates"}
                                        ELSE octavia_files
  /\ Return
  /\ UNCHANGED <<venv, checkout, has_lvm, links, automation, deployed>>

(* The deployment takes what the environment's files say. *)
kayobe_overcloud_service_deploy ==
  /\ Calling("kayobe_overcloud_service_deploy") /\ Possible("kayobe_overcloud_service_deploy")
  /\ deployed' = [ovs |-> ConfiguredOvs, octavia |-> ConfiguredOctavia, running |-> TRUE]
  /\ octavia_files' = IF ConfiguredOctavia THEN octavia_files \cup {"openrc"} ELSE octavia_files
  /\ Return
  /\ UNCHANGED <<venv, checkout, has_lvm, links, automation>>

kayobe_octavia_amphora_image ==
  /\ Calling("kayobe_octavia_amphora_image") /\ Possible("kayobe_octavia_amphora_image")
  /\ Return
  /\ UNCHANGED <<venv, checkout, host>>

(* A detached container of a fixed name: the end of its output need not be *)
(* its end, and an interrupted run leaves it behind, until Tempest ends.   *)
run_tempest ==
  /\ Calling("run_tempest") /\ Possible("run_tempest")
  /\ automation' \in BOOLEAN
  /\ Return
  /\ UNCHANGED <<venv, checkout, has_lvm, links, octavia_files, deployed>>

TempestEnds ==
  /\ automation
  /\ automation' = FALSE
  /\ UNCHANGED <<settings, todo, full, venv, checkout, has_lvm, links, octavia_files, deployed>>

Next ==
  \/ EditSettings \/ main \/ Fail \/ Crash \/ CallStateless
  \/ configure_lvm \/ clone_repositories \/ disable_ovn \/ disable_octavia
  \/ remove_lvm_configuration \/ setup_virtualenv \/ configure_network
  \/ kayobe_octavia_certificates \/ kayobe_overcloud_service_deploy
  \/ kayobe_octavia_amphora_image \/ run_tempest \/ TempestEnds

Spec == Init /\ [][Next]_vars
----------------------------------------------------------------------------
(* Every variable keeps to its values; Kayobe was installed from a checkout *)
(* that is there, if only in part, and nothing is changed in one that is   *)
(* not; the second repository is cloned after the first.                   *)
TypeOK ==
  /\ settings \in Setting /\ automation \in BOOLEAN /\ full \in BOOLEAN /\ has_lvm \in BOOLEAN
  /\ \E command \in Command : IsSuffix(todo, FunctionsOf(command))
  /\ clones \in [Repo -> {"absent", "partial", "whole"}]
  /\ venv \in Venv
  /\ clones["kayobe-config"] = "absent" => venv # "installed" /\ overrides = {} /\ lvm_config
  /\ clones["kayobe-config"] # "absent" => clones["kayobe"] # "absent"
  /\ overrides \subseteq {"disable-ovn.yml", "zz-disable-octavia.yml"}
  /\ links \subseteq Link
  /\ octavia_files \subseteq {"certificates", "openrc"}
  /\ deployed.octavia => octavia_files = {"certificates", "openrc"}

(* A full deployment can be run again after any failure: whatever earlier  *)
(* runs left, with whatever settings and commands, failed, interrupted or  *)
(* cut short anywhere, none of its functions is called in vain, but for a  *)
(* virtualenv without bin/activate, which no run repairs, and a Tempest    *)
(* that still runs.  (A half-made clone may fail it too, by the files that *)
(* the clone lacks.)                                                       *)
OnlyHalfMadeBlocks ==
  full /\ Running /\ ~Possible(Head(todo)) =>
    \/ Calling("setup_virtualenv") /\ venv = "partial"
    \/ Calling("run_tempest") /\ automation

(* At the deployment of services in a full run the files say what the      *)
(* settings say of Octavia, and of LVM what the host has.                  *)
OctaviaAsAsked ==
  full /\ Calling("kayobe_overcloud_service_deploy") =>
    /\ ConfiguredOctavia = settings.octavia
    /\ lvm_config = has_lvm

(* "USE_OVS (default: false) - Whether to disable OVN and deploy using OVS *)
(* instead": the same of the network plugin.                               *)
PluginAsAsked ==
  full /\ Calling("kayobe_overcloud_service_deploy") => ConfiguredOvs = settings.ovs
============================================================================
