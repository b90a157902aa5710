# Models and proofs for stackhpc-kayobe-config

This directory holds TLA+ models of the programs in this repository, the TLC
runs that check them on small instances, and proofs for every instance, checked
by TLAPS. The repository is mostly configuration data for Kayobe and Kolla
Ansible; the models are of what *runs* and can go wrong while running: the
scripts, workflows and playbooks that several processes use at once, that are
cut short and started again, or that must agree with another program.

Run a model with `tlc -config MCImageScan.cfg MCImageScan`, check proofs with
`tlapm ImageScanProofs.tla`. `PROJECT.json` maps every definition to the lines
it models and lists the runs, the mutants that show what each property catches,
the hazards and the findings.

## Inventory

| Component | State it keeps | Operations | What is hard | What makes it correct |
|---|---|---|---|---|
| `tools/scan-images.sh` | list files, exit status, Grype database | list the images, a loop that starts background jobs, the jobs | jobs and loop interleave; a job dies; the list of images is lost; the database is not locked | bounded parallelism, complete lists on success, no start after a failure but one, stable database |
| `.github/workflows/stackhpc-container-image-build.yml`, `tools/multiarch-manifests.sh` | step and result of each job, lists of images to push, the registry, manifests | build, scan, select, push with retries, verify, join manifests, trigger the sync | `continue-on-error`, retries, lost answers, cancellation, jobs in any order | only scanned images are pushed; green means pushed, all or, where the scan was given no image, nothing; the sync comes last and always |
| `tools/kolla-images.py`, `etc/kayobe/kolla-image-tags.yml` | tags for each image and distribution | checks of map, hierarchy and keys; queries of the registry | the tag is resolved by two programs; a query keeps an old answer | what was checked is what is deployed |
| `ansible/scripts/smartmon.py` and its cron job | `smartmon.prom`, its temporary file | read each disk, write, move | overlapping and killed runs, disks that answer with garbage, two sources for a counter | whole files only, right alerts, each metric once |
| `ansible/maintenance/rekey-hosts.yml` | three key pairs on the control host, `authorized_keys` of every host | generate, authorise, four moves, remove | hosts that drop out, runs cut short, repeated rotations | no host is locked out, the key in use is never removed |
| `environments/aio/automated-setup.sh` | checkouts, virtualenv, override files, links, certificates, services | the functions of `deploy_full`, or single ones | failures, interrupts and crashes anywhere, rerun with other settings | little stands in the way of a rerun; the files say what the settings say |
| `tools/merge.py` | branches, `MERGE_HEAD`, index, submodule, pull request | fetch, checkout, merge, continue, diff, propose | conflicts, failures, what the operator does between runs | the pull request has the merge; unfinished merges are kept |
| `ansible/maintenance/nova-compute-{disable,drain,enable}.yml` | services and instances of the cloud; what was queried, per host | query, then disable, migrate, check or enable | users, the scheduler and operators change the cloud between a query and its use; hosts drop out | an operator's reason is kept; a drained host stays empty; the hosts of a batch do not fill each other |
| `ansible/secret-store/vault-bao-migration-*.yml` | files of `vault/` and `openbao/`, certificates, the configured store | migrate a server; copy, rename, remove, configure | the only copies of the keys are moved, cut short anywhere and run again | no material is lost; the configuration fits what there is |
| `ansible/maintenance/octavia-amphora-image-register.yml`, `ansible/pulp/pulp-amphora-image-download.yml` | the downloaded file, the images in Glance | download, query, rename, create, upload | a run cut short leaves no image of the name, or an empty one; operators delete images | Octavia chooses the version of the file after a run that ended well |
| `ansible/fixes/ovn-fix-chassis-priorities.yml` | gateways of routers, priorities in HA groups | read the gateways, set the priorities one by one | Neutron and OVN change both meanwhile | the active gateway leads every group that was set |
| Reboots, secret store deployment, Pulp, Ceph, RabbitMQ, upgrades, CI environments | host state | playbooks and workflows | see "Not modelled" | |

How they interact: the workflow runs `scan-images.sh` and acts on its lists and
exit status; it reads tags that `kolla-images.py` writes, and its registry is
the one `kolla-images.py` later queries for a deployment. The three maintenance
playbooks share the services' disabled reasons and are run together or apart. The
migration of the secret store is four playbooks that share its files. The others
are used by operators on their own.

## Modules

| Module | Models | Checked by | Proved in |
|---|---|---|---|
| `ScanContract` | what the scan promises, without processes (abstract) | as a property of `ImageScan` | |
| `ImageScan` | `scan-images.sh`: one action per step of the main shell and of a job | `MCImageScan` | `ImageScanProofs` |
| `ImagePipeline` | the workflow from the build on, with the scan as `ScanContract` describes it, and `multiarch-manifests.sh` | `MCImagePipeline` | `ImagePipelineProofs` |
| `KollaTags` | tag resolution by the script and by Ansible, and the checks | `MCKollaTags` | `KollaTagsProofs` |
| `Smartmon` | `smartmon.py` under cron | `MCSmartmon` | `SmartmonProofs` |
| `Rekey` | `rekey-hosts.yml` | `MCRekey` | `RekeyProofs` |
| `AioSetup` | `automated-setup.sh` | `MCAioSetup` | `AioSetupProofs` |
| `MergeRelease` | `merge.py` with the part of git it relies on | `MCMergeRelease` | `MergeReleaseProofs` |
| `ComputeMaintenance` | `nova-compute-{disable,drain,enable}.yml` and the cloud around them | `MCPlaybooks` | `PlaybooksProofs` |
| `SecretStoreMigration` | `vault-bao-migration-*.yml` | `MCPlaybooks` | `PlaybooksProofs` |
| `AmphoraImage` | download and registration of the amphora image | `MCPlaybooks` | `PlaybooksProofs` |
| `OvnPriorities` | `ovn-fix-chassis-priorities.yml` | `MCPlaybooks` | `PlaybooksProofs` |
| `Playbooks` | the four sets of playbooks side by side, one subject in a behaviour | `MCPlaybooks` | `PlaybooksProofs` |

### How state and actions correspond to the code

* **ImageScan.** `pc` is the place of the main shell in `scan_images`, `stage[i]`
  that of the background job of image `i`; `Running` is what `jobs -rp` lists.
  `lines[f][i]` counts how often the file `f` names `i`. `GetImages` lists all
  images or none: `get_images` runs in `$(..)`, where errexit does not hold, and ends
  with a `cat`, so that a `docker image ls` that fails is an empty list, a scan of nothing and
  exit status 0; `AbortMain` is what does end the script. Waiting for a slot
  (`WaitForSlot`), testing `failed-images.txt` (`CheckFailed`) and starting a job
  (`Spawn`) are three actions, since jobs end in between. Reports and the table
  of allowed vulnerabilities are abstracted to the matches Grype reports.
* **ImagePipeline.** `step[j]` follows the steps of a build job; `StepFails` is
  any step that fails. A scan that succeeds has judged every built image, or was
  given none (`Scan`). `todo`, `tries` and `push_failed` are the push loop.
* **KollaTags.** A name is a sequence of fragments, so that `startswith` is
  `IsPrefix`. `get_tag` is the script's search; `AnsibleTag` the chain of
  defaults that the templates make of it. `hierarchy` and `image_map` are
  Kolla Ansible's, right or wrong in one entry.
* **Smartmon.** `run[r]` is one process: what it saw, the next disk, the metrics
  so far. `temp` and `prom` are the two files. `Killed` ends a run anywhere.
* **Rekey.** `task` is the task the playbook is at. `private` and `public` are
  the files; `authorized` the keys of each user on each host. `AuthorizeKey(h)`
  and `RemoveOld(h)` may succeed for any subset of the users, and not at all
  where the login fails. `replaced` and `missed` are history.
* **AioSetup.** `todo` is the rest of the functions of the command. Each function
  is an action; `Possible` says what it must find, `Fail` ends a run at any
  function with what that leaves, `Crash` takes the host down. Both can leave a clone
  or a virtualenv half made (`HalfDone`): `venv` is `partial` when the directory
  has no `bin/activate` yet, which python writes after it has bootstrapped pip. A function that
  does not read the checkout runs without one, and one that reads a half-made checkout
  may succeed or fail, by the files it lacks. The `|| true` of `remove_lvm_configuration` is
  taken to hide that there is no checkout, not that a file of one cannot be changed. Tempest runs in the
  container `automation`, which outlives a run that is interrupted and refuses
  another until it ends (`TempestEnds`).
* **MergeRelease.** `todo` again; `branch`, `head`, `merging`, `resolution` and
  `submodule` are the git state that the script reads, and the operator's actions
  are between runs. A branch that is merged from a local branch
  (`previous_branch`) behaves as one from the remote and is not told apart.
* **ComputeMaintenance.** `task` is the task at hand, `todo` the hosts that still
  have it to do, `play_hosts` those that have not failed. `seen`, `items` and
  `waiting` are the registered results that later tasks use. `Nova(i)`,
  `OperatorDisable` and `OperatorEnable` are the cloud, at any time. `wish`,
  `left` and `opened` are history.
* **SecretStoreMigration.** `plays` is the rest of the command and `step` the task
  of its first playbook; each copy, rename and removal of a file is an action, and a
  copy can be left half done. A server's own migration, a playbook of another
  collection, succeeds or ends the command.
* **AmphoraImage.** `images` are Glance's, oldest first; one is queued until its
  upload ends. `file` and `written` are the download and its age, which is what
  `get_url` compares: it may keep an older or a newer version than the one
  configured (`Download`), so the property is about the version of the file.
* **OvnPriorities.** `gateway_chassis` and `ha_chassis` are what the script read;
  `Failover` and `Restart` change what is there meanwhile. `aligned` is history: the
  gateways, as they were read, that each group was last set from. A network of two
  routers gets the order of the one done last.

Names that begin like a defect (`...KeepsLists`, `...Anyway`, comments with
"Fault") are mutated forms of the definition that follows them. No
specification uses them; `PROJECT.json` says which property each one breaks.

## Runs

| Run | Instance | Shows |
|---|---|---|
| `image_scan` | 3 images, `SCAN_PARALLELISM` 1 to 3, 4 kinds of findings, one new database | the safety properties, termination, and that `ImageScan` implements `ScanContract`, with the list of images and without |
| `kolla_tags` | 5 keys in any combination, 3 images, 4 containers, 2 distributions | what passes the checks is what gets deployed, from tags that exist |
| `smartmon` | 3 runs, 2 at a time, 2 disks, 6 snapshots | the published file is always one whole and right output |
| `smartmon_counters` | as above, other snapshots | **finding**: a counter of an NVMe disk is lost |
| `image_pipeline` | 2 jobs, 2 images, 2 tries, all inputs | what is pushed was allowed, green means pushed, the sync comes last and comes |
| `image_manifests` | the same | **finding**: a manifest without an architecture the registry has |
| `rekey` | 2 hosts, 3 keys (2 rotations), any number of runs | one rotation, however interrupted, locks no host out, and a user is left without a key only where the host failed |
| `aio_setup` | any number of runs with any settings | only a virtualenv without `bin/activate`, or Tempest still running, stands in the way of a full run |
| `aio_plugin` | the same | **finding**: `USE_OVS` cannot be taken back |
| `merge_release` | 2 pushes to each branch, any number of runs | a pull request has its merge; unfinished merges are kept |
| `playbooks` | 2 hosts and 2 instances; the fixed files of the secret store; 3 versions and 4 images; 2 routers and 2 networks on 2 chassis | the safety properties of the four sets of playbooks |
| `merge_diff` | the same | **finding**: the diff shown leaves out the submodule |

### Bounds, and why they are enough

Three images give the scan one that runs, one that ends and one that waits, at
each parallelism from 1 to "all at once"; a fourth only repeats a role. Two disks
let a run be between disks and let one disk fail after another succeeded; three
runs, two at once, let a killed one, an overlapping one and a clean one share the
files. Two jobs with two images give a manifest one job that is missing and one
image that is not. Two hosts with two rotations have a host that the first
rotation misses and another that it does not; the two theorems about `Rekey` do
without the bound. `KollaTags` takes an exception whose parent has a parent, an
exception without, a key that names nothing and an image that one distribution
cannot build, which are the cases its code distinguishes. `AioSetup` is finite
without a bound. Two pushes let each branch move before and after a fetch.

`playbooks` checks four modules that share no state, put together in `Playbooks`: each
behaviour is about one of them (`subject`), and the others keep their initial values
(`MCInit` has few of those, so that they are not multiplied with each other). It is a
union of four checks and says nothing of the playbooks run side by side, which touch nothing in
common. Two hosts and two instances let one host of a batch receive what the
other gives away, and a host have one instance migrated and another come; hosts
and instances are symmetric. Three versions and four images let a run fail at each
task, the next one repair it, and an operator delete an image between them. Two
routers, one network of one of them and one that they share, let a group be set twice from
different gateways, or not at all between a failover and the next run; with two
chassis a group has a member that is not a gateway. The group of the shared
network has all chassis, to keep the states few. The migration of the secret store is
finite without a bound.

### Fairness

`ImageScan!FairSpec` has weak fairness of the main shell and of each job: the
kernel schedules every process, and Grype is assumed to return. Nothing is
assumed of the publication of databases. `ImagePipeline!FairSpec` has weak
fairness of each build job, of `create-manifests` and of the sync, since GitHub
runs every job whose needs are met and bounds each by a timeout; cancellation is
never assumed. The playbooks, the setup script and the merge script run at the
will of an operator: those modules have no fairness and only safety properties.
The violation runs check invariants, which need none.

Deadlock is checked in every run; a system that has done all it will do has an
explicit stuttering action (`Terminated`, `Ended`).

## Proofs

`ImageScanProofs` proves, for every number of images, every parallelism and
every set of findings:

* `TypeCorrect`, then `LoopCorrect` (the jobs started are those before `next`) and
  `EndCorrect` (no job outlives the main shell);
* `ParallelismCorrect`, from `SlotInv`. *ParallelismRespected* alone is not
  inductive: counting and starting are two steps, so the invariant adds that at
  the steps in between at least one slot is free. It stays free because only the
  main shell starts jobs;
* `DbCorrect`: while scans run the database changes for nobody, because the main
  shell updates it before the loop and turns automatic updates off;
* `ListsCompleteCorrect`, from `ListsInv` (each file names the images whose jobs
  have ended, once, in the right list or in `failed-images.txt`) and `DrainInv`
  (the loop is left early only after a failure). It speaks of the images that
  `get_images` has listed, all or none;
* `BestEffortCorrect`, from `LateInv` (the image that slipped in is the last one
  started);
* `Implementation`: every step of `ImageScan` is one of `ScanContract`, or none,
  under the mapping in `ImageScan` that reads the verdict off the lists. The contract
  lets the list of the images be lost (`LoseList`), and promises verdicts of the others.

The only assumption is `ScanAssumption`, on the constants.

`RekeyProofs` proves, for every set of hosts and any number of rotations, that
`IInv` is inductive and from it `NoLockoutByOneRotation` and `KeyInUseStays`.
The argument: from the task that authorises keys on, hosts that are still in the
run accept the new key (`HostsInv`), and the existing key is moved away only when
all have done that task; where there is no existing key the new one is there
(`FilesInv`), so an interrupted rotation leaves the hosts with the new key, or the
deprecated one for those it missed. The removal never hits the key in use because
the public key at `deprecated_key_path` is never that of the existing private key
(`OldInv`), which needs that a new key is newer than any other on the control host
(`NewestInv`).

`UsersKept` is the same for every user: `UsersInv` says that hosts which have done
the authorisation trust the new key for all users, and a removal never takes that
key. `TypeCorrect` adds `CountInv`, that every rotation has a key of its own. The
assumption is `RekeyAssumption`.

`ImagePipelineProofs`, from `PipelineAssumption`, for every matrix of jobs, every
set of images and any number of tries. `IInv` says, per job and by the step the job
is at, what it has found (`JudgedInv`: past the scan, every built image is judged, or
none is), what it has pushed, has still to push or
failed to push (`PushInv`) and what green implies (`GreenInv`), and what comes
after the jobs (`AfterInv`). The state properties follow, among them that an
image is in the registry only if the scan judged it; `SyncIsLast` follows since no job,
manifest or cancellation can take a step once the sync was triggered.

`MergeReleaseProofs`, from `MergeAssumption`, for any number of pushes, runs and
things an operator does between them. `RunInv` is what the rest of a run finds:
between the checkout and the merge nothing is in progress and the branch is fresh;
from the diff on, the merge is there, unless the run was started with `--continue`.
`NotDiscarded` needs that no run reaches `checkout` with a merge in
progress, which is `ToCheckout` in `RunInv`.

`SmartmonProofs`, from `SmartmonAssumption`, for any disks, runs and runs at a time.
`Sound` says that the metrics of a run are, each once, what it is to tell of the
disks before its next one; `TempInv` and `BesideInv` relate the temporary file to the
run that wrote it and the runs that were in progress at the same time. `NothingStale` follows: a run that moves the
temporary file has written it itself, unless another one was beside it.

`KollaTagsProofs`, from `TagsAssumption`, for any names, keys, distributions, images,
containers and exceptions. Two things are compared that are computed differently: the
search of the script for the longest key that is a prefix, and the value of a chain of
defaults, which is a solution of a recursive equation. The argument has three steps.
Prefixes of one name nest (`PrefixesNest`), so that there is one longest match
(`LongestPrefix`). The *worth* of a name, which is the tag the search finds for it, is
therefore that of what it defaults to, wherever it has no tag of its own (`ParentWorth`,
`DefaultWorth`), and so the worths of all names solve the equation of the chain
(`WorthSolves`). The equation has one solution: of the names at which two solutions
differed, openstack and the exceptions aside, take one with the fewest fragments; it
defaults to a shorter name, at which they would differ too (`OneSolution`). The
least element of a set of numbers takes the place of an induction over names.
`IInv` then carries what each check has found to where the tags are judged.
`TagsAssumption` is what `kolla-images.py:89-102` and the names of Kolla Ansible
satisfy: no exception stands for another one, none is a proper prefix of a name, and
`openstack` extends no name. Without it the two searches do differ.

`AioSetupProofs` has no assumption, the module having no constants. `Made` is how many
functions a run of `deploy_full` has called; `RunInv` says for each place what the
functions before it have left: a checkout from the fourth on, the override for Octavia
as asked from the sixth, the LVM configuration from the seventh, a virtualenv from the
eighth, and certificates and credentials before what reads them. `HostInv` is what
holds whatever runs. `FindsAll` follows, and from it `RunsAgain`: each function of a full run
finds what an earlier one of it has made, or would have failed to make; what no earlier one
makes is a virtualenv that is there without `bin/activate`, and the end of a Tempest.
The lemma `Places` turns the list of functions into numbers.

`PlaybooksProofs` has five parts. The first four prove what each set of playbooks keeps
by itself; the last one, `EachBySelf`, that a behaviour of `Playbooks` is a behaviour
of every one of the four, steps of the others being stuttering steps, and so that all
of it holds of the composition that `MCPlaybooks` checks.

* Host maintenance, from `MaintenanceAssumption`, for every set of hosts and instances:
  `WishInv` adds to *RecordedWishKept* that no task at hand is about to change the
  service; `DrainInv` that an instance on its way to a drained host was counted;
  `BatchInv` that a host which has not failed is closed before the drain begins. The
  type invariant needs `LoopInv`: a host waits only for an instance of its loop.
* The migration of the secret store has no parameter; its invariant says why it can be
  cut short anywhere. `FileInv`: a file that is gone from `vault/` is whole in
  `openbao/`, a key at least under its new name, and that name never has half a key,
  as it is copied from a whole one, in one step. `StepInv`: nothing is removed before
  the tasks that copy it have ended, and `StoreInv`: OpenBao is configured only
  when its files are there. `PlayInv` carries what the plays before have migrated.
* Amphora images, for any number of versions and images: only the newest image can
  have the name (`NameInv`), so that what a run finds, or fills, is what Octavia
  chooses.
* OVN priorities, for any routers, networks and chassis: `OrderInv`, of each group that
  nobody else has changed, the priorities are those of the gateways it was last set from, but
  for those the router at hand has still to set. The first gateway has the highest
  priority that OVN takes, so no chassis of the group comes before it.

`PlaybooksAssumption` is `AmphoraAssumption` and `OvnAssumption`: there is a version
and an image; networks are attached to routers, chassis are finitely many, and the
highest priority is a number.

The invariants `IInv` and `SecretsInv` were checked with TLC before they were proved,
but for those of `ImageScan`, `Smartmon` and the other playbooks, whose parts are
what the runs check or follow the tasks.

Model-checked only: liveness (`Terminates`, `Completes`), which TLAPS does not prove
under fairness. Every other property of a passing run is stated by a theorem.

## Findings

1. `smartmon.py`: "Check if we already got this from pySMART" takes an attribute
   pySMART knows but has no value for as exported; the counter is then exported
   from neither source (`smartmon_counters`).
2. `multiarch-manifests.sh`: "Check if the image exists in the registry" takes any
   failure of the inspection for absence (`image_manifests`).
3. `automated-setup.sh`: `disable_ovn` never removes the override that it writes,
   as `disable_octavia` does its own; `USE_OVS=false` after `true` still deploys
   OVS (`aio_plugin`).
4. `merge.py`: "Proposed changes:" compares a checkout whose submodules were
   updated before the merge; a submodule that the merge moves is not shown
   (`merge_diff`).

## Known and not repaired

What the models show of the code, besides the findings, where no text in the
repository promises otherwise:

* A run of `vault-bao-migration-change-config.yml` that is cut short after the Vault
  directory was removed cannot be run again: its first task requires the directory.
  All material is in `openbao/` (*MaterialNeverLost*), and what is left is done by hand.
* `change-config` run before the servers were migrated leaves a configuration that the
  migrations refuse; *ConfigFits* says that this is the only way to it.
* An operator who disables a service between the query and the task that enables it
  is overruled; *RecordedWishKept* leaves out only that interval.
* A merge that was committed and whose pull request failed is dropped from the branch by
  a new run without `--continue`.
* A `docker image ls` that fails in `scan-images.sh` ends neither the scan nor the job:
  nothing is scanned, the lists are empty, and the job is green with nothing pushed. The
  manifests of its images then lack its architecture. *ListsComplete* and
  *GreenMeansPushed* say that it is all or nothing.
* A virtualenv that `python3.12 -m venv` did not finish is never made again
  (`automated-setup.sh:125`), and every later run dies at line 128 until somebody removes
  it; a clone whose checkout failed is never completed. *OnlyHalfMadeBlocks* says that nothing else
  is in the way, but a Tempest that runs.
* `ovn-fix-chassis-priorities.yml` leaves the priority of a chassis that is no gateway of the
  router (line 141). A former gateway, or one of another router of the network, can
  be level with the active gateway at 32767; *GatewaysLead* excludes only that one is above it.
  After a failover the group keeps the order of the gateways that were read.
* `smartmon.py` takes a disk that does not answer the standby query for one asleep, so
  that a failing disk may lose its alert; *AlertsAreRight* speaks of disks seen active.
* A second rotation overwrites the only key of a host that the first one missed.

## Not modelled

* Secret store deployment, Pulp content, Ceph, RabbitMQ: parameters for roles of
  other repositories, or single commands; the protocols are theirs.
* Host reboots, host configuration, operating system upgrades, CI and training
  deployments: one pass of idempotent tasks or commands, in Ansible's order.
* `aio-init.sh`: a fixed list of resources created once, behind a guard file.
* Configuration data, templates, documentation, `multinode-inputs.py`, the filter
  plugins and small tools: no state, or none that anything else reads.
* Within modelled components: texts of reports and logs, labels of metrics,
  installation of tools on the runners, building an amphora image.
* The hazards without a property in `PROJECT.json` each have a note that says why.

## Plan

Done: all invariants and action properties of the runs are proved, and that the scan
implements its contract. What is left, in this order:

1. A refinement for the workflow: `ImagePipeline` implements an abstract gate in which
   images are judged, released and announced, each once, with the proof step by step.
2. The same for `SecretStoreMigration`: copies that are made before originals
   are removed, as an abstract move of a set of files that may be interrupted.
3. Action properties of the playbooks: what a task may never do to a service or an
   image, beside what holds after it.
4. The creation, use and cleanup of CI hosts in the multinode workflows, and `aio-init.sh`.
