------------------------- MODULE ComputeMaintenance -------------------------
(***************************************************************************)
(* etc/kayobe/ansible/maintenance/nova-compute-{disable,drain,enable}.yml: *)
(* take hypervisors out of service, empty them by live migration, and put  *)
(* them back.                                                              *)
(*                                                                         *)
(* One kayobe command runs at a time; it runs one playbook, or disable and *)
(* drain one after the other, on the hosts of --limit.  A task is done by  *)
(* every host, in any order, before the next begins; a host that fails     *)
(* drops out.  Meanwhile users create, stop and start instances, and       *)
(* operators disable and enable the services and migrate instances with    *)
(* the OpenStack client.                                                   *)
(***************************************************************************)
EXTENDS Naturals, Sequences, FiniteSets, Functions

CONSTANTS
  Host,       \* group compute
  Instance,
  None        \* no instance, or no service seen

(* Status of a nova-compute service, with the reason it is disabled for:   *)
(* the one of the playbooks, or another one, which an operator recorded.   *)
Service == {"enabled", "maintenance", "operator"}

ASSUME MaintenanceAssumption == None \notin Instance \cup Service

VARIABLES
  service,      \* of each host
  vm,           \* status of each instance, its host, and the host it moves to
  command,      \* playbooks, extra variables and limit
  playbook,     \* the number of the playbook at hand
  task,         \* the task at hand
  play_hosts,   \* hosts that have not failed a task of the playbook
  todo,         \* hosts that have the task still to do
  seen,         \* compute_services: the service as the host's query saw it
  items,        \* instances: the loop's items that the host has still to do
  waiting,      \* the instance that the host's server migrate --wait waits for
  wish,         \* history: an operator's own reason was recorded on the host
                \* and no operator has enabled it since
  left,         \* history: the instances that may run on a host again after it
                \* was drained, all of them if it was not or was enabled since
  opened        \* history: hosts of the command that an operator has enabled
                \* since it began

cloud == <<service, vm>>
run == <<command, playbook, task, play_hosts, todo>>
loop == <<items, waiting>>
history == <<wish, left, opened>>
vars == <<cloud, run, seen, loop, history>>

(* An instance in the making or shut off is inactive.                      *)
Vm == [status : {"none"}] \cup [status : {"INACTIVE", "ACTIVE"}, host : Host]
        \cup [status : {"MIGRATING"}, host : Host, to : Host]

At(s, h) == [status |-> s, host |-> h]
ActiveOn(h) == {i \in Instance : vm[i] = At("ACTIVE", h)}

(* Instances there or on the way, other than the active ones.              *)
ClaimOn(h) == {i \in Instance : vm[i] = At("INACTIVE", h)
                   \/ (vm[i].status = "MIGRATING" /\ h \in {vm[i].host, vm[i].to})}

Idle == [playbooks |-> <<>>, reason |-> "maintenance", fatal |-> TRUE, limit |-> {}]

(* -e disabled_reason= and -e live_migration_fatal= only where it is read. *)
Command ==
  {c \in [playbooks : {<<"disable">>, <<"drain">>, <<"disable", "drain">>, <<"enable">>},
          reason : Service \ {"enabled"}, fatal : BOOLEAN, limit : (SUBSET Host) \ {{}}] :
     /\ c.playbooks = <<"drain">> => c.reason = "maintenance"
     /\ "drain" \notin Range(c.playbooks) => c.fatal}

Init ==
  /\ service = [h \in Host |-> "enabled"]
  /\ vm = [i \in Instance |-> [status |-> "none"]]
  /\ command = Idle /\ playbook = 1 /\ task = "idle" /\ play_hosts = {} /\ todo = {}
  /\ seen = [h \in Host |-> None]
  /\ items = [h \in Host |-> {}] /\ waiting = [h \in Host |-> None]
  /\ wish = [h \in Host |-> FALSE] /\ left = [h \in Host |-> Instance]
  /\ opened = {}
----------------------------------------------------------------------------
(* Nova and its users: the scheduler takes a host whose service is         *)
(* enabled; an instance is spawned, shut off and started where it is; a    *)
(* migration that fails leaves it active where it was.                     *)
Become(i, v) == vm' = [vm EXCEPT ![i] = v] /\ UNCHANGED service

Available == {h \in Host : service[h] = "enabled"}
Create(i) == vm[i].status = "none" /\ \E h \in Available : Become(i, At("INACTIVE", h))
Start(i) == vm[i].status = "INACTIVE" /\ Become(i, At("ACTIVE", vm[i].host))
ShutOff(i) == vm[i].status = "ACTIVE" /\ Become(i, At("INACTIVE", vm[i].host))

LiveMigrate(i) ==
  /\ vm[i].status = "ACTIVE"
  /\ \E h \in Available \ {vm[i].host} :
       Become(i, [status |-> "MIGRATING", host |-> vm[i].host, to |-> h])

MigrationEnds(i) ==
  /\ vm[i].status = "MIGRATING"
  /\ \E h \in {vm[i].host, vm[i].to} : Become(i, At("ACTIVE", h))

Nova(i) ==
  /\ Create(i) \/ Start(i) \/ ShutOff(i) \/ LiveMigrate(i) \/ MigrationEnds(i)
  /\ UNCHANGED <<run, seen, loop, history>>

(* What the host's query said makes its next task change the service.  A   *)
(* service that an operator disables then is changed over the operator.    *)
SetPending(h) == seen[h] = IF command.playbooks = <<"enable">> THEN command.reason ELSE "enabled"

OperatorDisable(h) ==
  /\ service[h] # "operator"
  /\ service' = [service EXCEPT ![h] = "operator"]
  /\ wish' = [wish EXCEPT ![h] = ~SetPending(h)]
  /\ UNCHANGED <<vm, run, seen, loop, left, opened>>

OperatorEnable(h) ==
  /\ service[h] # "enabled"
  /\ service' = [service EXCEPT ![h] = "enabled"]
  /\ wish' = [wish EXCEPT ![h] = FALSE]
  /\ left' = [left EXCEPT ![h] = Instance]
  /\ opened' = opened \cup ({h} \cap command.limit)
  /\ UNCHANGED <<vm, run, seen, loop>>
----------------------------------------------------------------------------
FirstTask == [disable |-> "disable_query", drain |-> "drain_query", enable |-> "enable_query"]
NextTask == [disable_query |-> "disable_set", enable_query |-> "enable_set",
             drain_query |-> "drain_migrate", drain_migrate |-> "drain_check"]

Begin ==
  /\ task = "idle"
  /\ command' \in Command
  /\ task' = FirstTask[Head(command'.playbooks)]
  /\ play_hosts' = command'.limit /\ todo' = command'.limit
  /\ UNCHANGED <<cloud, playbook, seen, loop, history>>

(* The command ends: done, without a host left, the client cannot be       *)
(* installed, or interrupted.  What a client asked for already goes on.    *)
End ==
  /\ task # "idle"
  /\ command' = Idle /\ playbook' = 1 /\ task' = "idle"
  /\ play_hosts' = {} /\ todo' = {} /\ opened' = {}
  /\ seen' = [h \in Host |-> None]
  /\ items' = [h \in Host |-> {}] /\ waiting' = [h \in Host |-> None]
  /\ UNCHANGED <<cloud, wish, left>>

TaskDone ==
  /\ todo = {} /\ play_hosts # {} /\ task \in DOMAIN NextTask
  /\ task' = NextTask[task]
  /\ todo' = play_hosts
  /\ UNCHANGED <<cloud, command, playbook, play_hosts, seen, loop, history>>

(* Fault: hosts that failed are left out of the next playbook only. *)
SomeHostLeft == play_hosts # {}

(* A playbook in which a host failed is the command's last one.            *)
NoHostFailed == play_hosts = command.limit

PlaybookDone ==
  /\ playbook < Len(command.playbooks) /\ task = "disable_set" /\ todo = {}
  /\ NoHostFailed
  /\ playbook' = playbook + 1
  /\ task' = FirstTask[command.playbooks[playbook']]
  /\ play_hosts' = command.limit /\ todo' = command.limit
  /\ UNCHANGED <<cloud, command, seen, loop, history>>

(* The host has done its part of a task, well or not.                      *)
Did(h, t, ok) ==
  /\ task = t /\ h \in todo
  /\ todo' = todo \ {h}
  /\ play_hosts' = IF ok THEN play_hosts ELSE play_hosts \ {h}
  /\ UNCHANGED <<command, playbook, task>>

(* The host cannot be reached for its facts, or the client fails for it.   *)
Fail(h) ==
  /\ task # "drain_migrate" /\ Did(h, task, FALSE)
  /\ seen' = [seen EXCEPT ![h] = None]
  /\ UNCHANGED <<cloud, loop, history>>
----------------------------------------------------------------------------
Query(h) ==
  /\ Did(h, "disable_query", TRUE) \/ Did(h, "enable_query", TRUE)
  /\ seen' = [seen EXCEPT ![h] = service[h]]
  /\ UNCHANGED <<cloud, loop, history>>

(* A service seen disabled keeps its reason: one that the command was to   *)
(* record is not.                                                          *)
Disable(h) ==
  /\ Did(h, "disable_set", TRUE)
  /\ IF seen[h] = "enabled"
       THEN /\ service' = [service EXCEPT ![h] = command.reason]
            /\ wish' = [wish EXCEPT ![h] = @ \/ command.reason = "operator"]
       ELSE UNCHANGED <<service, wish>>
  /\ seen' = [seen EXCEPT ![h] = None]
  /\ UNCHANGED <<vm, loop, left, opened>>

(* Fault: the reason is not looked at. *)
AnyToEnable(h) == seen[h] # "enabled"

(* Only a service that nova-compute-disable.yml disabled is enabled.       *)
ToEnable(h) == seen[h] = command.reason

(* Given the operator's own reason, it is the operator who enables.        *)
Enable(h) ==
  /\ Did(h, "enable_set", TRUE)
  /\ IF ToEnable(h)
       THEN /\ service' = [service EXCEPT ![h] = "enabled"]
            /\ wish' = [wish EXCEPT ![h] = @ /\ command.reason # "operator"]
            /\ left' = [left EXCEPT ![h] = Instance]
       ELSE UNCHANGED <<service, wish, left>>
  /\ seen' = [seen EXCEPT ![h] = None]
  /\ UNCHANGED <<vm, loop, opened>>
----------------------------------------------------------------------------
(* Migrations are skipped in a cloud with one compute host.                *)
QueryInstances(h) ==
  /\ Cardinality(Host) > 1
  /\ Did(h, "drain_query", TRUE)
  /\ items' = [items EXCEPT ![h] = ActiveOn(h)]
  /\ UNCHANGED <<cloud, seen, waiting, history>>

(* One item of the loop, moved from wherever it is now.  A request that    *)
(* fails is fatal for the host, after its other items.                     *)
Migrate(h, i) ==
  /\ task = "drain_migrate" /\ h \in todo
  /\ waiting[h] = None /\ i \in items[h]
  /\ items' = [items EXCEPT ![h] = @ \ {i}]
  /\ \/ /\ LiveMigrate(i)
        /\ waiting' = [waiting EXCEPT ![h] = i]
        /\ UNCHANGED play_hosts
     \/ /\ play_hosts' = IF command.fatal THEN play_hosts \ {h} ELSE play_hosts
        /\ UNCHANGED <<cloud, waiting>>
  /\ UNCHANGED <<command, playbook, task, todo, seen, history>>

(* --wait ends well once the instance is active, on whichever host.        *)
WaitEnds(h) ==
  /\ waiting[h] # None /\ vm[waiting[h]].status = "ACTIVE"
  /\ waiting' = [waiting EXCEPT ![h] = None]
  /\ UNCHANGED <<cloud, run, seen, items, history>>

LoopDone(h) ==
  /\ items[h] = {} /\ waiting[h] = None
  /\ Did(h, "drain_migrate", TRUE)
  /\ UNCHANGED <<cloud, seen, loop, history>>

(* Fault: migrations that ended well are taken for an empty host. *)
MigrationsEndedWell(h) == TRUE

(* The second query: instances still on the host are fatal.                *)
FoundEmpty(h) == ActiveOn(h) = {}

Check(h) ==
  /\ Did(h, "drain_check", command.fatal => FoundEmpty(h))
  /\ left' = IF command.fatal /\ FoundEmpty(h) /\ service[h] # "enabled"
             THEN [left EXCEPT ![h] = ClaimOn(h)] ELSE left
  /\ UNCHANGED <<cloud, seen, loop, wish, opened>>
----------------------------------------------------------------------------
Next ==
  \/ Begin \/ End \/ TaskDone \/ PlaybookDone
  \/ \E i \in Instance : Nova(i)
  \/ \E h \in Host :
       \/ OperatorDisable(h) \/ OperatorEnable(h)
       \/ Fail(h) \/ Query(h) \/ Disable(h) \/ Enable(h)
       \/ QueryInstances(h) \/ WaitEnds(h) \/ LoopDone(h) \/ Check(h)
       \/ \E i \in Instance : Migrate(h, i)

Spec == Init /\ [][Next]_vars
----------------------------------------------------------------------------
(* Types, and what the task at hand says of the run: only hosts of the     *)
(* limit take part, and hosts only wait for a migration in its task.       *)
TypeOK ==
  /\ service \in [Host -> Service] /\ vm \in [Instance -> Vm]
  /\ command \in Command \cup {Idle} /\ playbook \in 1..2
  /\ task = "idle" <=> command = Idle
  /\ play_hosts \subseteq command.limit /\ todo \subseteq command.limit
  /\ seen \in [Host -> Service \cup {None}]
  /\ items \in [Host -> SUBSET Instance] /\ waiting \in [Host -> Instance \cup {None}]
  /\ \A h \in Host : waiting[h] # None => task = "drain_migrate" /\ h \in todo
  /\ wish \in [Host -> BOOLEAN] /\ left \in [Host -> SUBSET Instance]
  /\ opened \subseteq command.limit

(* A reason of an operator's own stays on a service until an operator      *)
(* enables it, by hand or by giving nova-compute-enable.yml that reason:   *)
(* whatever maintenance runs, no playbook enables or relabels it, unless   *)
(* it was recorded between a playbook's query and its set.                 *)
RecordedWishKept == \A h \in Host : wish[h] => service[h] = "operator"

(* A host that a drain found empty while its service was disabled has no   *)
(* active instance until the service is enabled again, other than those    *)
(* that were shut off, in the making or in flight at the check.            *)
DrainedStaysEmpty == \A h \in Host : ActiveOn(h) \subseteq left[h]

(* Disable and drain of a batch of hosts in one command never move an      *)
(* instance from one of them to another: while it drains, the services of  *)
(* all of them are disabled, but for those that an operator enabled.       *)
BatchIsClosed ==
  playbook = 2 => \A h \in command.limit \ opened : service[h] # "enabled"
============================================================================
