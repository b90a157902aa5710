-------------------------- MODULE PlaybooksProofs --------------------------
(***************************************************************************)
(* Proofs about the playbooks that Playbooks puts side by side, for all    *)
(* hosts, instances, routers, networks, versions and images.  Each set has *)
(* an inductive invariant of its own; a behaviour of all is one of each.   *)
(***************************************************************************)
EXTENDS Playbooks, SequenceTheorems, FiniteSetTheorems, TLAPS

DrainTask == {"drain_query", "drain_migrate", "drain_check"}
Task == {"idle", "disable_query", "disable_set", "enable_query", "enable_set"} \cup DrainTask

(* What the task at hand says of the command.                              *)
TaskInv ==
  /\ task \in Task
  /\ task \in {"enable_query", "enable_set"} => command.playbooks = <<"enable">>
  /\ task \in {"disable_query", "disable_set"} => command.playbooks # <<"enable">>
  /\ task = "idle" => seen = [h \in Host |-> None]
  /\ playbook = 2 => task \in DrainTask
  /\ playbook = 2 \/ playbook = 1

(* The state of the cloud and of the run.                                  *)
ComputeTypes ==
  /\ service \in [Host -> Service] /\ vm \in [Instance -> Vm]
  /\ seen \in [Host -> Service \cup {None}]
  /\ command.reason \in {"maintenance", "operator"} /\ command.limit \subseteq Host
  /\ play_hosts \subseteq command.limit /\ todo \subseteq command.limit
  /\ wish \in [Host -> BOOLEAN] /\ left \in [Host -> SUBSET Instance]
  /\ opened \subseteq command.limit

(* What an operator recorded is on the service, and no task at hand is to  *)
(* change it, unless the command was given the operator's own reason.      *)
WishInv ==
  \A h \in Host : wish[h] =>
    /\ service[h] = "operator"
    /\ SetPending(h) => command.playbooks = <<"enable">> /\ command.reason = "operator"

(* An instance is on the host, or on the way from or to it.                *)
MayRun(v, h) == \/ v \in {At("INACTIVE", h), At("ACTIVE", h)}
                \/ v.status = "MIGRATING" /\ h \in {v.host, v.to}

(* left holds what may run on a host, and is all there is while instances  *)
(* may come to it.                                                         *)
DrainInv ==
  \A h \in Host :
    /\ \A i \in Instance : MayRun(vm[i], h) => i \in left[h]
    /\ left[h] # Instance => service[h] # "enabled"

(* A host that was disabled, or was seen to be, stays disabled or has been *)
(* enabled by an operator since.                                           *)
Closed(h) == service[h] # "enabled" \/ h \in opened

BatchInv ==
  /\ task \in {"disable_query", "disable_set"} =>
       /\ todo \subseteq play_hosts
       /\ \A h \in command.limit : seen[h] \in {"maintenance", "operator"} => Closed(h)
  /\ task = "disable_query" => \A h \in play_hosts \ todo : seen[h] # None
  /\ task = "disable_set" =>
       \A h \in play_hosts : IF h \in todo THEN seen[h] # None ELSE Closed(h)
  /\ playbook = 2 => \A h \in command.limit : Closed(h)

(* Between commands there is nothing of one.                               *)
IdleInv ==
  /\ task = "idle" => command = Idle /\ opened = {}
  /\ task # "idle" => command \in Command

ComputeInv == ComputeTypes /\ TaskInv /\ WishInv /\ DrainInv /\ BatchInv /\ IdleInv
----------------------------------------------------------------------------
(* The first task of each playbook that a command can begin with.          *)
LEMMA FirstTasks ==
  ASSUME NEW c \in Command
  PROVE  /\ c.playbooks = <<"enable">> => FirstTask[Head(c.playbooks)] = "enable_query"
         /\ c.playbooks = <<"drain">> => FirstTask[Head(c.playbooks)] = "drain_query"
         /\ c.playbooks \notin {<<"enable">>, <<"drain">>} =>
              FirstTask[Head(c.playbooks)] = "disable_query"
         /\ c.reason \in {"maintenance", "operator"} /\ c.limit \subseteq Host
<1>1. c \in [playbooks : {<<"disable">>, <<"drain">>, <<"disable", "drain">>, <<"enable">>},
             reason : Service \ {"enabled"}, fatal : BOOLEAN, limit : (SUBSET Host) \ {{}}]
  BY DEF Command
<1>2. /\ c.playbooks \in {<<"disable">>, <<"drain">>, <<"disable", "drain">>, <<"enable">>}
      /\ c.reason \in {"maintenance", "operator"} /\ c.limit \subseteq Host
  BY <1>1 DEF Service
<1>3. /\ FirstTask["disable"] = "disable_query" /\ FirstTask["drain"] = "drain_query"
      /\ FirstTask["enable"] = "enable_query"
  BY DEF FirstTask
<1>4. /\ Head(<<"disable">>) = "disable" /\ Head(<<"drain">>) = "drain"
      /\ Head(<<"disable", "drain">>) = "disable" /\ Head(<<"enable">>) = "enable"
  OBVIOUS
<1> QED BY <1>2, <1>3, <1>4
(* What an instance is, by its status. *)
LEMMA VmForms ==
  ASSUME NEW v \in Vm
  PROVE  \/ v.status = "none"
         \/ v.status \in {"INACTIVE", "ACTIVE"} /\ v.host \in Host
         \/ v.status = "MIGRATING" /\ v.host \in Host /\ v.to \in Host
BY DEF Vm

LEMMA AtForm ==
  ASSUME NEW v \in Vm, v.status \in {"INACTIVE", "ACTIVE"}
  PROVE  v.host \in Host /\ v = At(v.status, v.host)
<1>1. v \notin [status : {"none"}] /\ v \notin [status : {"MIGRATING"}, host : Host, to : Host]
  OBVIOUS
<1>2. v \in [status : {"INACTIVE", "ACTIVE"}, host : Host]
  BY <1>1 DEF Vm
<1> QED BY <1>2 DEF At

LEMMA AtRuns ==
  ASSUME NEW s \in {"INACTIVE", "ACTIVE"}, NEW g \in Host
  PROVE  At(s, g) \in Vm /\ \A h \in Host : MayRun(At(s, g), h) <=> h = g
<1>1. At(s, g) \in Vm /\ At(s, g).status # "MIGRATING" /\ At(s, g).status = s /\ At(s, g).host = g
  BY DEF At, Vm
<1>2. \A h \in Host, t \in {"INACTIVE", "ACTIVE"} : At(t, h).host = h
  BY DEF At
<1> QED BY <1>1, <1>2 DEF MayRun

LEMMA MigratingRuns ==
  ASSUME NEW g \in Host, NEW k \in Host
  PROVE  /\ [status |-> "MIGRATING", host |-> g, to |-> k] \in Vm
         /\ \A h \in Host :
              MayRun([status |-> "MIGRATING", host |-> g, to |-> k], h) <=> h \in {g, k}
<1> DEFINE m == [status |-> "MIGRATING", host |-> g, to |-> k]
<1>1. m \in Vm /\ m.status = "MIGRATING" /\ m.host = g /\ m.to = k
  BY DEF Vm
<1>2. \A h \in Host, t \in {"INACTIVE", "ACTIVE"} : At(t, h).status # "MIGRATING"
  BY DEF At
<1> HIDE DEF m
<1>3. \A h \in Host : MayRun(m, h) <=> h \in {g, k}
  BY <1>1, <1>2 DEF MayRun
<1> QED BY <1>1, <1>3 DEF m

(* A step of Nova or of its users: an instance comes only to hosts whose   *)
(* service is enabled.                                                     *)
LEMMA NovaStep ==
  ASSUME ComputeTypes, NEW i \in Instance,
         Create(i) \/ Start(i) \/ ShutOff(i) \/ LiveMigrate(i) \/ MigrationEnds(i)
  PROVE  \E v \in Vm :
           /\ vm' = [vm EXCEPT ![i] = v] /\ UNCHANGED service
           /\ \A h \in Host : MayRun(v, h) => service[h] = "enabled" \/ MayRun(vm[i], h)
<1>1. vm[i] \in Vm
  BY DEF ComputeTypes
<1>2. CASE Create(i)
  <2>1. PICK g \in Available : Become(i, At("INACTIVE", g))
    BY <1>2 DEF Create
  <2>2. g \in Host /\ service[g] = "enabled"
    BY <2>1 DEF Available
  <2>3. At("INACTIVE", g) \in Vm /\ \A h \in Host : MayRun(At("INACTIVE", g), h) => h = g
    BY <2>2, AtRuns
  <2> QED BY <2>1, <2>2, <2>3 DEF Become
<1>3. CASE Start(i) \/ ShutOff(i)
  <2>1. vm[i].status \in {"INACTIVE", "ACTIVE"}
    BY <1>3 DEF Start, ShutOff
  <2> DEFINE g == vm[i].host
  <2>2. g \in Host /\ vm[i] \in {At("INACTIVE", g), At("ACTIVE", g)}
    <3>1. g \in Host /\ vm[i] = At(vm[i].status, g)
      BY <1>1, <2>1, AtForm
    <3> QED BY <2>1, <3>1
  <2>4. PICK s \in {"INACTIVE", "ACTIVE"} : Become(i, At(s, g))
    BY <1>3 DEF Start, ShutOff
  <2> HIDE DEF g
  <2>5. At(s, g) \in Vm /\ \A h \in Host : MayRun(At(s, g), h) => MayRun(vm[i], h)
    BY <2>2, <2>4, AtRuns
  <2> QED BY <2>4, <2>5 DEF Become
<1>4. CASE LiveMigrate(i)
  <2>1. PICK g \in Available :
          Become(i, [status |-> "MIGRATING", host |-> vm[i].host, to |-> g])
    BY <1>4 DEF LiveMigrate
  <2>2. g \in Host /\ service[g] = "enabled" /\ vm[i].status = "ACTIVE"
    BY <1>4, <2>1 DEF Available, LiveMigrate
  <2> DEFINE k == vm[i].host
  <2>3. k \in Host /\ vm[i] = At("ACTIVE", k)
    <3>1. k \in Host /\ vm[i] = At(vm[i].status, k)
      BY <1>1, <2>2, AtForm
    <3> QED BY <2>2, <3>1
  <2>4. Become(i, [status |-> "MIGRATING", host |-> k, to |-> g])
    BY <2>1
  <2> HIDE DEF k
  <2> DEFINE m == [status |-> "MIGRATING", host |-> k, to |-> g]
  <2>5. m \in Vm /\ \A h \in Host : MayRun(m, h) => h \in {k, g}
    BY <2>2, <2>3, MigratingRuns DEF m
  <2>6. \A h \in Host : MayRun(vm[i], h) <=> h = k
    BY <2>3, AtRuns
  <2>7. vm' = [vm EXCEPT ![i] = m] /\ UNCHANGED service
    BY <2>1, <2>4 DEF Become
  <2> HIDE DEF m
  <2> QED BY <2>2, <2>5, <2>6, <2>7
<1>5. CASE MigrationEnds(i)
  <2>1. vm[i].status = "MIGRATING"
    BY <1>5 DEF MigrationEnds
  <2>2. vm[i].host \in Host /\ vm[i].to \in Host
    BY <1>1, <2>1, VmForms
  <2>3. PICK g \in {vm[i].host, vm[i].to} : Become(i, At("ACTIVE", g))
    BY <1>5 DEF MigrationEnds
  <2>4. At("ACTIVE", g) \in Vm /\ \A h \in Host : MayRun(At("ACTIVE", g), h) => h = g
    BY <2>2, <2>3, AtRuns
  <2>5. MayRun(vm[i], g)
    BY <2>1, <2>3 DEF MayRun
  <2> QED BY <2>3, <2>4, <2>5 DEF Become
<1> QED BY <1>2, <1>3, <1>4, <1>5
----------------------------------------------------------------------------
(* Whatever else it does, a step that changes one instance so keeps what   *)
(* is known of the instances.                                              *)
LEMMA InstanceStep ==
  ASSUME ComputeInv, NEW i \in Instance, UNCHANGED left,
         Create(i) \/ Start(i) \/ ShutOff(i) \/ LiveMigrate(i) \/ MigrationEnds(i)
  PROVE  UNCHANGED service /\ vm' \in [Instance -> Vm] /\ DrainInv'
<1>1. PICK v \in Vm :
        /\ vm' = [vm EXCEPT ![i] = v] /\ UNCHANGED service
        /\ \A h \in Host : MayRun(v, h) => service[h] = "enabled" \/ MayRun(vm[i], h)
  BY NovaStep DEF ComputeInv
<1>2. vm' \in [Instance -> Vm] /\ vm'[i] = v /\ \A j \in Instance \ {i} : vm'[j] = vm[j]
  BY <1>1 DEF ComputeInv, ComputeTypes
<1>3. ASSUME NEW h \in Host, NEW j \in Instance, MayRun(vm'[j], h) PROVE j \in left[h]
  <2>1. MayRun(vm[j], h) \/ service[h] = "enabled"
    BY <1>1, <1>2, <1>3
  <2>2. MayRun(vm[j], h) => j \in left[h]
    BY DEF ComputeInv, DrainInv
  <2>3. service[h] = "enabled" => left[h] = Instance
    BY DEF ComputeInv, DrainInv
  <2> QED BY <2>1, <2>2, <2>3
<1>4. \A h \in Host, j \in Instance : MayRun(vm[j], h)' => j \in left'[h]
  BY <1>3 DEF MayRun
<1>5. \A h \in Host : left'[h] # Instance => service'[h] # "enabled"
  BY <1>1 DEF ComputeInv, DrainInv
<1> QED BY <1>1, <1>2, <1>4, <1>5 DEF DrainInv, MayRun

LEMMA NovaInv ==
  ASSUME ComputeInv, NEW i \in Instance, Nova(i)
  PROVE  ComputeInv'
<1>1. /\ UNCHANGED <<run, seen, loop, history>> /\ UNCHANGED left
      /\ Create(i) \/ Start(i) \/ ShutOff(i) \/ LiveMigrate(i) \/ MigrationEnds(i)
  BY DEF Nova, history
<1>2. UNCHANGED service /\ vm' \in [Instance -> Vm] /\ DrainInv'
  BY <1>1, InstanceStep
<1>3. ComputeTypes' /\ TaskInv'
  BY <1>1, <1>2 DEF ComputeInv, ComputeTypes, TaskInv, run, history
<1>4. WishInv' /\ BatchInv'
  BY <1>1, <1>2 DEF ComputeInv, WishInv, SetPending, BatchInv, Closed, run, history
<1>5. IdleInv'
  BY <1>1 DEF ComputeInv, IdleInv, run, history
<1> QED BY <1>2, <1>3, <1>4, <1>5 DEF ComputeInv

LEMMA OperatorInv ==
  ASSUME ComputeInv, NEW h \in Host, OperatorDisable(h) \/ OperatorEnable(h)
  PROVE  ComputeInv'
<1>1. UNCHANGED <<vm, run, seen, loop>> /\ UNCHANGED <<command, playbook, task, play_hosts, todo>>
  BY DEF OperatorDisable, OperatorEnable, run
<1>2. CASE OperatorDisable(h)
  <2>1. /\ service' = [service EXCEPT ![h] = "operator"] /\ UNCHANGED <<left, opened>>
        /\ wish' = [wish EXCEPT ![h] = ~SetPending(h)]
    BY <1>2 DEF OperatorDisable
  <2>2. ComputeTypes' /\ TaskInv'
    BY <1>1, <2>1 DEF ComputeInv, ComputeTypes, TaskInv, Service, SetPending
  <2>3. WishInv'
    BY <1>1, <2>1 DEF ComputeInv, ComputeTypes, WishInv, SetPending
  <2>4. DrainInv' /\ BatchInv' /\ IdleInv'
    BY <1>1, <2>1 DEF ComputeInv, ComputeTypes, DrainInv, MayRun, BatchInv, Closed, IdleInv
  <2> QED BY <2>2, <2>3, <2>4 DEF ComputeInv
<1>3. CASE OperatorEnable(h)
  <2>1. /\ service' = [service EXCEPT ![h] = "enabled"]
        /\ wish' = [wish EXCEPT ![h] = FALSE] /\ left' = [left EXCEPT ![h] = Instance]
        /\ opened' = opened \cup ({h} \cap command.limit)
    BY <1>3 DEF OperatorEnable
  <2>2. ComputeTypes' /\ TaskInv'
    BY <1>1, <2>1 DEF ComputeInv, ComputeTypes, TaskInv, Service
  <2>3. WishInv'
    BY <1>1, <2>1 DEF ComputeInv, ComputeTypes, WishInv, SetPending
  <2>4. DrainInv' /\ BatchInv'
    BY <1>1, <2>1 DEF ComputeInv, ComputeTypes, DrainInv, MayRun, BatchInv, Closed
  <2>5. IdleInv'
    BY <1>1, <2>1 DEF ComputeInv, IdleInv, Idle
  <2> QED BY <2>2, <2>3, <2>4, <2>5 DEF ComputeInv
<1> QED BY <1>2, <1>3
(* The tasks that change a service: the one that was seen enabled, or that *)
(* was seen disabled for the command's reason.                             *)
LEMMA DisableInv ==
  ASSUME ComputeInv, NEW h \in Host, Disable(h)
  PROVE  ComputeInv'
<1>1. /\ UNCHANGED <<vm, command, playbook, task, left, opened>>
      /\ task = "disable_set" /\ h \in todo /\ todo' = todo \ {h} /\ play_hosts' = play_hosts
      /\ seen' = [seen EXCEPT ![h] = None]
  BY DEF Disable, Did
<1>2. seen[h] \in Service /\ playbook = 1 /\ command.playbooks # <<"enable">>
  BY <1>1 DEF ComputeInv, ComputeTypes, TaskInv, BatchInv, DrainTask
<1>3. command.reason \in {"maintenance", "operator"} /\ None \notin Service
  BY MaintenanceAssumption DEF ComputeInv, ComputeTypes
<1>4. CASE seen[h] = "enabled"
  <2>1. /\ service' = [service EXCEPT ![h] = command.reason]
        /\ wish' = [wish EXCEPT ![h] = @ \/ command.reason = "operator"]
    BY <1>4 DEF Disable
  <2>2. wish[h] = FALSE
    BY <1>2, <1>4 DEF ComputeInv, ComputeTypes, WishInv, SetPending
  <2>3. wish' \in [Host -> BOOLEAN]
    BY <2>1 DEF ComputeInv, ComputeTypes
  <2>4. service' \in [Host -> Service] /\ seen' \in [Host -> Service \cup {None}]
    BY <1>1, <1>3, <2>1 DEF ComputeInv, ComputeTypes, Service
  <2>5. ComputeTypes' /\ TaskInv'
    BY <1>1, <2>3, <2>4 DEF ComputeInv, ComputeTypes, TaskInv
  <2>6. WishInv'
    <3>1. ASSUME NEW g \in Host, wish'[g]
          PROVE  service'[g] = "operator" /\ ~SetPending(g)'
      <4>1. CASE g = h
        BY <1>1, <1>2, <1>3, <2>1, <2>2, <3>1, <4>1 DEF ComputeInv, ComputeTypes, SetPending,
           Service
      <4>2. CASE g # h
        BY <1>1, <1>2, <2>1, <3>1, <4>2 DEF ComputeInv, ComputeTypes, WishInv, SetPending
      <4> QED BY <4>1, <4>2
    <3> QED BY <3>1 DEF WishInv
  <2>7. DrainInv' /\ BatchInv' /\ IdleInv'
    BY <1>1, <1>2, <1>3, <2>1 DEF ComputeInv, ComputeTypes, DrainInv, MayRun, BatchInv, Closed,
       Service, IdleInv
  <2> QED BY <2>5, <2>6, <2>7 DEF ComputeInv
<1>5. CASE seen[h] # "enabled"
  <2>1. UNCHANGED <<service, wish>>
    BY <1>5 DEF Disable
  <2>2. ComputeTypes' /\ TaskInv'
    BY <1>1, <2>1 DEF ComputeInv, ComputeTypes, TaskInv
  <2>3. WishInv'
    BY <1>1, <1>2, <1>3, <2>1 DEF ComputeInv, ComputeTypes, WishInv, SetPending, Service
  <2>4. Closed(h)
    BY <1>1, <1>2, <1>5 DEF ComputeInv, ComputeTypes, BatchInv, Service
  <2>5. DrainInv' /\ BatchInv' /\ IdleInv'
    BY <1>1, <1>2, <1>3, <2>1, <2>4 DEF ComputeInv, ComputeTypes, DrainInv, MayRun, BatchInv,
       Closed, Service, IdleInv
  <2> QED BY <2>2, <2>3, <2>5 DEF ComputeInv
<1> QED BY <1>4, <1>5

LEMMA EnableInv ==
  ASSUME ComputeInv, NEW h \in Host, Enable(h)
  PROVE  ComputeInv'
<1>1. /\ UNCHANGED <<vm, command, playbook, task, opened>>
      /\ task = "enable_set" /\ h \in todo /\ todo' = todo \ {h} /\ play_hosts' = play_hosts
      /\ seen' = [seen EXCEPT ![h] = None]
  BY DEF Enable, Did
<1>2. playbook = 1 /\ command.playbooks = <<"enable">>
  BY <1>1 DEF ComputeInv, ComputeTypes, TaskInv, DrainTask
<1>3. command.reason \in {"maintenance", "operator"} /\ None \notin Service
  BY MaintenanceAssumption DEF ComputeInv, ComputeTypes
<1>4. BatchInv' /\ IdleInv'
  BY <1>1, <1>2 DEF BatchInv, ComputeInv, IdleInv
<1>5. CASE ToEnable(h)
  <2>1. /\ service' = [service EXCEPT ![h] = "enabled"]
        /\ wish' = [wish EXCEPT ![h] = @ /\ command.reason # "operator"]
        /\ left' = [left EXCEPT ![h] = Instance]
    BY <1>5 DEF Enable
  <2>2. wish[h] => command.reason = "operator"
    BY <1>2, <1>5 DEF ComputeInv, WishInv, SetPending, ToEnable
  <2>3. wish' \in [Host -> BOOLEAN]
    BY <2>1 DEF ComputeInv, ComputeTypes
  <2>4. ComputeTypes' /\ TaskInv'
    BY <1>1, <2>1, <2>3 DEF ComputeInv, ComputeTypes, TaskInv, Service
  <2>5. \A g \in Host : wish'[g] => g # h /\ wish[g]
    BY <2>1, <2>2 DEF ComputeInv, ComputeTypes
  <2>6. WishInv'
    BY <1>1, <2>1, <2>5 DEF ComputeInv, ComputeTypes, WishInv, SetPending
  <2>7. DrainInv'
    BY <1>1, <2>1 DEF ComputeInv, ComputeTypes, DrainInv, MayRun
  <2> QED BY <1>4, <2>4, <2>6, <2>7 DEF ComputeInv
<1>6. CASE ~ToEnable(h)
  <2>1. UNCHANGED <<service, wish, left>>
    BY <1>6 DEF Enable
  <2>2. ComputeTypes' /\ TaskInv' /\ DrainInv'
    BY <1>1, <2>1 DEF ComputeInv, ComputeTypes, TaskInv, DrainInv, MayRun
  <2>3. WishInv'
    BY <1>1, <1>2, <1>3, <2>1 DEF ComputeInv, ComputeTypes, WishInv, SetPending, Service
  <2> QED BY <1>4, <2>2, <2>3 DEF ComputeInv
<1> QED BY <1>5, <1>6
(* With nothing seen there is nothing that a task is to change.            *)
LEMMA NothingPending ==
  ASSUME NEW h \in Host, seen[h] = None, command.reason \in {"maintenance", "operator"}
  PROVE  ~SetPending(h)
BY MaintenanceAssumption DEF SetPending, Service

LEMMA RunInv ==
  ASSUME ComputeInv, Begin \/ End \/ TaskDone \/ PlaybookDone
  PROVE  ComputeInv'
<1>1. UNCHANGED <<service, vm, wish, left>>
  BY DEF Begin, End, TaskDone, PlaybookDone, cloud, history
<1>2. DrainInv'
  BY <1>1 DEF ComputeInv, DrainInv, MayRun
<1>3. CASE Begin
  <2>1. /\ task = "idle" /\ command' \in Command
        /\ task' = FirstTask[Head(command'.playbooks)]
        /\ play_hosts' = command'.limit /\ todo' = command'.limit
        /\ UNCHANGED <<playbook, seen, opened>>
    BY <1>3 DEF Begin, history
  <2>2. playbook = 1 /\ seen = [h \in Host |-> None]
    BY <2>1 DEF ComputeInv, TaskInv, DrainTask
  <2>3. /\ command'.reason \in {"maintenance", "operator"} /\ command'.limit \subseteq Host
        /\ task' \in {"disable_query", "drain_query", "enable_query"}
        /\ task' = "enable_query" => command'.playbooks = <<"enable">>
        /\ task' = "disable_query" => command'.playbooks # <<"enable">>
    BY <2>1, FirstTasks
  <2>4. opened = {}
    BY <2>1 DEF ComputeInv, IdleInv
  <2>5. ComputeTypes' /\ TaskInv'
    BY <1>1, <2>1, <2>2, <2>3, <2>4 DEF ComputeInv, ComputeTypes, TaskInv, Task, DrainTask
  <2>6. WishInv'
    <3>1. ASSUME NEW h \in Host PROVE ~SetPending(h)'
      BY <2>1, <2>2, <2>3, MaintenanceAssumption DEF SetPending, Service
    <3> QED BY <1>1, <3>1 DEF ComputeInv, WishInv
  <2>7. BatchInv'
    BY <2>1, <2>2, <2>3, MaintenanceAssumption DEF BatchInv, Service
  <2>8. IdleInv'
    BY <2>1, <2>3 DEF IdleInv
  <2> QED BY <1>2, <2>5, <2>6, <2>7, <2>8 DEF ComputeInv
<1>4. CASE End
  <2>1. /\ command' = Idle /\ playbook' = 1 /\ task' = "idle"
        /\ play_hosts' = {} /\ todo' = {} /\ opened' = {}
        /\ seen' = [h \in Host |-> None]
    BY <1>4 DEF End
  <2>2. ComputeTypes' /\ TaskInv'
    BY <1>1, <2>1 DEF ComputeInv, ComputeTypes, TaskInv, Task, Idle
  <2>3. WishInv'
    <3>1. ASSUME NEW h \in Host PROVE ~SetPending(h)'
      BY <2>1, MaintenanceAssumption DEF SetPending, Service, Idle
    <3> QED BY <1>1, <3>1 DEF ComputeInv, WishInv
  <2>4. BatchInv' /\ IdleInv'
    BY <2>1 DEF BatchInv, IdleInv
  <2> QED BY <1>2, <2>2, <2>3, <2>4 DEF ComputeInv
<1>5. CASE TaskDone
  <2>1. /\ todo = {} /\ task \in DOMAIN NextTask /\ task' = NextTask[task] /\ todo' = play_hosts
        /\ UNCHANGED <<command, playbook, play_hosts, seen, opened>>
    BY <1>5 DEF TaskDone, history
  <2>2. \/ task = "disable_query" /\ task' = "disable_set"
        \/ task = "enable_query" /\ task' = "enable_set"
        \/ task = "drain_query" /\ task' = "drain_migrate"
        \/ task = "drain_migrate" /\ task' = "drain_check"
    BY <2>1 DEF NextTask
  <2>3. ComputeTypes' /\ TaskInv' /\ IdleInv'
    BY <1>1, <2>1, <2>2 DEF ComputeInv, ComputeTypes, TaskInv, Task, DrainTask, IdleInv
  <2>4. WishInv'
    BY <1>1, <2>1 DEF ComputeInv, WishInv, SetPending
  <2>5. BatchInv'
    BY <1>1, <2>1, <2>2 DEF ComputeInv, ComputeTypes, BatchInv, Closed
  <2> QED BY <1>2, <2>3, <2>4, <2>5 DEF ComputeInv
<1>6. CASE PlaybookDone
  <2>1. /\ task = "disable_set" /\ todo = {} /\ play_hosts = command.limit
        /\ playbook' = playbook + 1 /\ playbook < Len(command.playbooks)
        /\ task' = FirstTask[command.playbooks[playbook']]
        /\ play_hosts' = command.limit /\ todo' = command.limit
        /\ UNCHANGED <<command, seen, opened>>
    BY <1>6 DEF PlaybookDone, NoHostFailed, history
  <2>2. command \in Command /\ playbook = 1
    BY <2>1 DEF ComputeInv, IdleInv, TaskInv, DrainTask
  <2>3. playbook' = 2 /\ task' = "drain_query"
    <3>1. command.playbooks = <<"disable", "drain">>
      BY <2>1, <2>2 DEF Command
    <3> QED BY <2>1, <2>2, <3>1 DEF FirstTask
  <2>4. ComputeTypes' /\ TaskInv' /\ IdleInv'
    BY <1>1, <2>1, <2>2, <2>3 DEF ComputeInv, ComputeTypes, TaskInv, Task, DrainTask, IdleInv
  <2>5. WishInv'
    BY <1>1, <2>1 DEF ComputeInv, WishInv, SetPending
  <2>6. BatchInv'
    BY <1>1, <2>1, <2>3 DEF ComputeInv, BatchInv, Closed
  <2> QED BY <1>2, <2>4, <2>5, <2>6 DEF ComputeInv
<1> QED BY <1>3, <1>4, <1>5, <1>6
(* What the hosts do in the other tasks: they look, and they fail.         *)
LEMMA HostInv ==
  ASSUME ComputeInv, NEW h \in Host,
         Fail(h) \/ Query(h) \/ QueryInstances(h) \/ WaitEnds(h) \/ LoopDone(h) \/ Check(h)
  PROVE  ComputeInv'
<1>1. UNCHANGED <<service, vm, wish, opened, command, playbook, task>>
  BY DEF Fail, Query, QueryInstances, WaitEnds, LoopDone, Check, Did, cloud, run, history
<1>2. /\ todo' \subseteq todo /\ play_hosts' \subseteq play_hosts
      /\ \A g \in play_hosts' : g \in todo => g \in todo' \/ g = h
  BY DEF Fail, Query, QueryInstances, WaitEnds, LoopDone, Check, Did, run
<1>3. IdleInv'
  BY <1>1 DEF ComputeInv, IdleInv
<1>4. CASE Query(h)
  <2>1. /\ task \in {"disable_query", "enable_query"} /\ h \in todo
        /\ todo' = todo \ {h} /\ play_hosts' = play_hosts
        /\ seen' = [seen EXCEPT ![h] = service[h]] /\ UNCHANGED left
    BY <1>4 DEF Query, Did, history
  <2>2. ComputeTypes' /\ TaskInv'
    BY <1>1, <2>1 DEF ComputeInv, ComputeTypes, TaskInv
  <2>3. WishInv'
    BY <1>1, <2>1 DEF ComputeInv, ComputeTypes, TaskInv, WishInv, SetPending
  <2>4. DrainInv'
    BY <1>1, <2>1 DEF ComputeInv, DrainInv, MayRun
  <2>5. service[h] \in Service /\ None \notin Service
    BY MaintenanceAssumption DEF ComputeInv, ComputeTypes
  <2>6. BatchInv'
    BY <1>1, <2>1, <2>5 DEF ComputeInv, ComputeTypes, TaskInv, BatchInv, Closed, DrainTask
  <2> QED BY <1>3, <2>2, <2>3, <2>4, <2>6 DEF ComputeInv
<1>5. CASE Fail(h)
  <2>1. /\ h \in todo /\ todo' = todo \ {h} /\ play_hosts' = play_hosts \ {h}
        /\ seen' = [seen EXCEPT ![h] = None] /\ UNCHANGED left
    BY <1>5 DEF Fail, Did, history
  <2>2. task # "idle"
    BY <2>1 DEF ComputeInv, ComputeTypes, IdleInv, Idle
  <2>3. ComputeTypes' /\ TaskInv'
    BY <1>1, <2>1, <2>2 DEF ComputeInv, ComputeTypes, TaskInv
  <2>4. WishInv'
    <3>1. ASSUME NEW g \in Host PROVE SetPending(g)' => SetPending(g) /\ g # h
      BY <1>1, <2>1, MaintenanceAssumption DEF ComputeInv, ComputeTypes, SetPending, Service
    <3> QED BY <1>1, <3>1 DEF ComputeInv, WishInv
  <2>5. DrainInv'
    BY <1>1, <2>1 DEF ComputeInv, DrainInv, MayRun
  <2>6. BatchInv'
    BY <1>1, <2>1, MaintenanceAssumption DEF ComputeInv, ComputeTypes, BatchInv, Closed, Service
  <2> QED BY <1>3, <2>3, <2>4, <2>5, <2>6 DEF ComputeInv
<1>6. CASE QueryInstances(h) \/ WaitEnds(h) \/ LoopDone(h) \/ Check(h)
  <2>1. UNCHANGED seen /\ (task \in DrainTask \/ (WaitEnds(h) /\ UNCHANGED <<todo, play_hosts, left>>))
    BY <1>6 DEF QueryInstances, WaitEnds, LoopDone, Check, Did, DrainTask, run, history
  <2>2. /\ \A g \in Host \ {h} : left'[g] = left[g]
        /\ left' \in [Host -> SUBSET Instance]
        /\ \/ left'[h] = left[h]
           \/ ActiveOn(h) = {} /\ service[h] # "enabled" /\ left'[h] = ClaimOn(h)
    BY <1>6 DEF QueryInstances, WaitEnds, LoopDone, Check, FoundEmpty, ClaimOn, history,
       ComputeInv, ComputeTypes
  <2>3. ComputeTypes' /\ TaskInv'
    BY <1>1, <1>2, <2>1, <2>2 DEF ComputeInv, ComputeTypes, TaskInv
  <2>4. WishInv'
    BY <1>1, <2>1 DEF ComputeInv, WishInv, SetPending
  <2>5. ActiveOn(h) = {} => \A i \in Instance : MayRun(vm[i], h) => i \in ClaimOn(h)
    BY DEF ActiveOn, ClaimOn, MayRun
  <2>6. DrainInv'
    BY <1>1, <2>2, <2>5 DEF ComputeInv, DrainInv, MayRun
  <2>7. BatchInv'
    BY <1>1, <2>1 DEF ComputeInv, BatchInv, Closed, DrainTask
  <2> QED BY <1>3, <2>3, <2>4, <2>6, <2>7 DEF ComputeInv
<1> QED BY <1>4, <1>5, <1>6

(* One item of the loop: a migration that is asked for, or a request that  *)
(* fails.                                                                  *)
LEMMA MigrateInv ==
  ASSUME ComputeInv, NEW h \in Host, NEW i \in Instance, Migrate(h, i)
  PROVE  ComputeInv'
<1>1. /\ UNCHANGED <<command, playbook, task, todo, seen, wish, left, opened>>
      /\ task = "drain_migrate" /\ play_hosts' \subseteq play_hosts
      /\ LiveMigrate(i) \/ UNCHANGED <<service, vm>>
  BY DEF Migrate, history, cloud
<1>2. UNCHANGED service /\ vm' \in [Instance -> Vm] /\ DrainInv'
  <2>1. CASE LiveMigrate(i)
    BY <1>1, <2>1, InstanceStep
  <2>2. CASE UNCHANGED <<service, vm>>
    BY <1>1, <2>2 DEF ComputeInv, ComputeTypes, DrainInv, MayRun
  <2> QED BY <1>1, <2>1, <2>2
<1>3. ComputeTypes' /\ TaskInv' /\ IdleInv'
  BY <1>1, <1>2 DEF ComputeInv, ComputeTypes, TaskInv, IdleInv
<1>4. WishInv' /\ BatchInv'
  BY <1>1, <1>2 DEF ComputeInv, WishInv, SetPending, BatchInv, Closed
<1> QED BY <1>2, <1>3, <1>4 DEF ComputeInv

(* What the playbooks and the cloud know of each other, at any time. *)
THEOREM ComputeInductive == Spec => []ComputeInv
<1>1. Init => ComputeInv
  <2> SUFFICES ASSUME Init PROVE ComputeInv
    OBVIOUS
  <2>1. /\ service = [h \in Host |-> "enabled"] /\ vm = [i \in Instance |-> [status |-> "none"]]
        /\ command = Idle /\ playbook = 1 /\ task = "idle" /\ play_hosts = {} /\ todo = {}
        /\ seen = [h \in Host |-> None] /\ wish = [h \in Host |-> FALSE]
        /\ left = [h \in Host |-> Instance] /\ opened = {}
    BY DEF Init
  <2>2. Idle.reason = "maintenance" /\ Idle.limit = {}
    BY DEF Idle
  <2>3. [status |-> "none"] \in Vm
    BY DEF Vm
  <2>4. wish \in [Host -> BOOLEAN] /\ \A h \in Host : ~wish[h]
    BY <2>1
  <2>5. ComputeTypes
    BY <2>1, <2>2, <2>3, <2>4 DEF ComputeTypes, Service
  <2>6. TaskInv /\ BatchInv /\ IdleInv
    BY <2>1, <2>2 DEF TaskInv, BatchInv, IdleInv, Task, DrainTask
  <2>7. WishInv
    BY <2>4 DEF WishInv
  <2>8. DrainInv
    BY <2>1 DEF DrainInv, MayRun, At
  <2> QED BY <2>5, <2>6, <2>7, <2>8 DEF ComputeInv
<1>2. ComputeInv /\ [Next]_vars => ComputeInv'
  <2> SUFFICES ASSUME ComputeInv, [Next]_vars PROVE ComputeInv'
    OBVIOUS
  <2>1. CASE Next
    BY <2>1, NovaInv, OperatorInv, DisableInv, EnableInv, RunInv, HostInv, MigrateInv DEF Next
  <2>2. CASE UNCHANGED vars
    BY <2>2 DEF vars, cloud, run, history, ComputeInv, ComputeTypes, TaskInv, WishInv,
       SetPending, DrainInv,
                MayRun, BatchInv, Closed, IdleInv
  <2> QED BY <2>1, <2>2
<1> QED BY <1>1, <1>2, PTL DEF Spec

(* No playbook enables or relabels a service over an operator's reason,    *)
(* for any number of hosts, commands and failures.                         *)
THEOREM WishKept == Spec => []RecordedWishKept
<1>1. ComputeInv => RecordedWishKept
  BY DEF ComputeInv, WishInv, RecordedWishKept
<1> QED BY <1>1, ComputeInductive, PTL

(* A host that was found empty while its service was disabled stays empty. *)
THEOREM StaysEmpty == Spec => []DrainedStaysEmpty
<1>1. ComputeInv => DrainedStaysEmpty
  BY DEF ComputeInv, DrainInv, MayRun, DrainedStaysEmpty, ActiveOn
<1> QED BY <1>1, ComputeInductive, PTL

(* The hosts of a batch are closed to instances while they are drained.    *)
THEOREM BatchClosed == Spec => []BatchIsClosed
<1>1. ComputeInv => BatchIsClosed
  BY DEF ComputeInv, BatchInv, Closed, BatchIsClosed
<1> QED BY <1>1, ComputeInductive, PTL

(* A host has instances to ask for, and waits for one, only in the task    *)
(* that migrates them.                                                     *)
LoopInv ==
  /\ items \in [Host -> SUBSET Instance] /\ waiting \in [Host -> Instance \cup {None}]
  /\ \A h \in Host : waiting[h] # None => task = "drain_migrate" /\ h \in todo

LEMMA LoopOK == ASSUME ComputeInv, LoopInv, [Next]_vars PROVE LoopInv'
<1>1. ASSUME UNCHANGED <<items, waiting, task, todo>> PROVE LoopInv'
  BY <1>1 DEF LoopInv
<1>2. ASSUME NEW i \in Instance, Nova(i) PROVE LoopInv'
  BY <1>1, <1>2 DEF Nova, run, loop
<1>3. CASE Begin \/ TaskDone \/ PlaybookDone
  <2>1. UNCHANGED <<items, waiting>>
    BY <1>3 DEF Begin, TaskDone, PlaybookDone, loop
  <2>2. \A h \in Host : waiting[h] = None
    <3>1. Begin \/ PlaybookDone => task # "drain_migrate"
      BY DEF Begin, PlaybookDone
    <3>2. TaskDone => todo = {}
      BY DEF TaskDone
    <3> QED BY <1>3, <3>1, <3>2 DEF LoopInv
  <2> QED BY <2>1, <2>2 DEF LoopInv
<1>4. CASE End
  BY <1>4 DEF End, LoopInv
<1>5. ASSUME NEW h \in Host, OperatorDisable(h) \/ OperatorEnable(h) PROVE LoopInv'
  BY <1>1, <1>5 DEF OperatorDisable, OperatorEnable, run, loop
<1>6. ASSUME NEW h \in Host, Fail(h) \/ Query(h) \/ Disable(h) \/ Enable(h) \/ Check(h) PROVE LoopInv'
  <2>1. UNCHANGED <<items, waiting>> /\ task # "drain_migrate"
    BY <1>6 DEF Fail, Query, Disable, Enable, Check, Did, loop
  <2> QED BY <2>1 DEF LoopInv
<1>7. ASSUME NEW h \in Host, QueryInstances(h) PROVE LoopInv'
  <2>1. /\ items' = [items EXCEPT ![h] = ActiveOn(h)] /\ waiting' = waiting
        /\ task = "drain_query" /\ ActiveOn(h) \subseteq Instance
    BY <1>7 DEF QueryInstances, Did, ActiveOn
  <2> QED BY <2>1 DEF LoopInv
<1>8. ASSUME NEW h \in Host, WaitEnds(h) PROVE LoopInv'
  BY <1>8 DEF WaitEnds, LoopInv, run
<1>9. ASSUME NEW h \in Host, LoopDone(h) PROVE LoopInv'
  BY <1>9 DEF LoopDone, Did, LoopInv, loop
<1>10. ASSUME NEW h \in Host, NEW i \in Instance, Migrate(h, i) PROVE LoopInv'
  <2>1. /\ task = "drain_migrate" /\ h \in todo /\ items' = [items EXCEPT ![h] = @ \ {i}]
        /\ waiting' = [waiting EXCEPT ![h] = i] \/ waiting' = waiting
        /\ UNCHANGED <<task, todo>>
    BY <1>10 DEF Migrate
  <2> QED BY <2>1 DEF LoopInv
<1>11. CASE UNCHANGED vars
  BY <1>1, <1>11 DEF vars, run, loop
<1> QED
  BY <1>2, <1>3, <1>4, <1>5, <1>6, <1>7, <1>8, <1>9, <1>10, <1>11 DEF Next

(* Types, and what the task at hand says of the run.                       *)
THEOREM ComputeTypeCorrect == Spec => []TypeOK
<1>1. Init => LoopInv
  BY DEF Init, LoopInv
<1>2. ComputeInv /\ LoopInv => TypeOK
  <2>1. Idle \notin Command /\ Idle.limit = {}
    <3>1. ASSUME NEW c \in Command PROVE c.limit # {}
      <4>1. c \in [playbooks : {<<"disable">>, <<"drain">>, <<"disable", "drain">>, <<"enable">>},
                   reason : Service \ {"enabled"}, fatal : BOOLEAN, limit : (SUBSET Host) \ {{}}]
        BY DEF Command
      <4>2. c.limit \in (SUBSET Host) \ {{}}
        BY <4>1
      <4> QED BY <4>2
    <3>2. Idle.limit = {}
      BY DEF Idle
    <3> QED BY <3>1, <3>2
  <2>2. ASSUME ComputeInv, LoopInv PROVE TypeOK
    <3>1. command \in Command \cup {Idle} /\ (task = "idle" <=> command = Idle)
      BY <2>1, <2>2 DEF ComputeInv, IdleInv
    <3>3. playbook \in 1..2
      BY <2>2 DEF ComputeInv, TaskInv
    <3>2. /\ service \in [Host -> Service] /\ vm \in [Instance -> Vm]
          /\ play_hosts \subseteq command.limit /\ todo \subseteq command.limit
          /\ seen \in [Host -> Service \cup {None}] /\ opened \subseteq command.limit
          /\ wish \in [Host -> BOOLEAN] /\ left \in [Host -> SUBSET Instance]
      BY <2>2 DEF ComputeInv, ComputeTypes
    <3> QED BY <2>2, <3>1, <3>2, <3>3 DEF LoopInv, TypeOK
  <2> QED BY <2>2
<1> QED BY <1>1, <1>2, LoopOK, ComputeInductive, PTL DEF Spec
----------------------------------------------------------------------------
(* The tasks of change-config, and those after the directory is removed.   *)
Emptied == {"remove_keys", "copy_ca", "remove_ca", "set_store"}
Change == {"stat_vault", "copy", "name_keys", "remove_vault"} \cup Emptied

(* A file that was removed is whole in openbao/, a key at least under its  *)
(* new name, which never has half of it.                                   *)
FileInv ==
  /\ had \subseteq Secrets!VaultFile /\ vault \subseteq had
  /\ openbao \in [Secrets!File -> {"absent", "part", "whole"}]
  /\ \A f \in Secrets!VaultFile \ had : openbao[f] = "absent"
  /\ \A s \in Secrets!Server : openbao[Secrets!NewKey(s)] # "part"
  /\ \A f \in had \ vault :
       \/ openbao[f] = "whole"
       \/ /\ openbao[f] = "absent"
          /\ \E s \in Secrets!Server : f = Secrets!Key(s) /\ openbao[Secrets!NewKey(s)] = "whole"

(* The plays that are left, and what those before them have done.          *)
PlayInv ==
  /\ plays \in {<<>>, <<"seed">>, <<"overcloud">>, <<"config">>, <<"overcloud", "config">>,
                <<"seed", "overcloud", "config">>}
  /\ step \in {"idle", "migrate"} \cup Change
  /\ step = "idle" <=> plays = <<>>
  /\ step \in Change <=> plays = <<"config">>
  /\ migrated \subseteq Secrets!Server
  /\ plays = <<"overcloud", "config">> => "seed" \in migrated
  /\ plays = <<"config">> => migrated = Secrets!Server \/ early

(* Every key that there is in openbao/ has its new name there.             *)
Renamed ==
  \A s \in Secrets!Server : openbao[Secrets!Key(s)] # "absent" => openbao[Secrets!NewKey(s)] = "whole"

(* What the task at hand relies on.                                        *)
StepInv ==
  /\ step \in Change \ {"stat_vault"} => store = "vault"
  /\ step \in {"name_keys", "remove_vault"} => \A f \in vault : openbao[f] = "whole"
  /\ step \in {"remove_vault", "remove_keys"} => Renamed
  /\ step \in Emptied => ~vault_dir /\ open
  /\ step \in {"copy_ca", "remove_ca", "set_store"} =>
       \A s \in Secrets!Server : openbao[Secrets!Key(s)] = "absent"
  /\ step = "remove_ca" => "openbao" \in ca
  /\ step = "set_store" /\ had_ca # {} => "openbao" \in ca

(* What the configured store has.                                          *)
StoreInv ==
  /\ store \in {"vault", "openbao"} /\ early \in BOOLEAN /\ open \in BOOLEAN
  /\ ~vault_dir => vault = {}
  /\ ca \subseteq {"vault", "openbao"} /\ (ca = {}) = (had_ca = {})
  /\ store = "vault" /\ ~open => vault = had /\ (had_ca # {} => "vault" \in ca)
  /\ store = "openbao" =>
       /\ ~vault_dir /\ ~open /\ (migrated = Secrets!Server \/ early)
       /\ \A s \in Secrets!Server : Secrets!Key(s) \in had => openbao[Secrets!NewKey(s)] = "whole"
       /\ had_ca # {} => "openbao" \in ca

SecretsInv == FileInv /\ PlayInv /\ StepInv /\ StoreInv
----------------------------------------------------------------------------
(* A key has a name for each store, and neither is a certificate's.        *)
LEMMA KeyNames ==
  /\ \A s, t \in Secrets!Server : Secrets!Key(s) = Secrets!Key(t) => s = t
  /\ \A s, t \in Secrets!Server : Secrets!NewKey(s) = Secrets!NewKey(t) => s = t
  /\ \A s \in Secrets!Server :
       /\ Secrets!Key(s) \in Secrets!VaultFile /\ Secrets!Key(s) \in Secrets!File
       /\ Secrets!NewKey(s) \in Secrets!File
  /\ \A s \in Secrets!Server : Secrets!NewKey(s) \notin Secrets!VaultFile
  /\ Secrets!VaultFile \subseteq Secrets!File
<1>1. \A s, t \in Secrets!Server : Secrets!NewKey(s) # Secrets!Key(t) /\ Secrets!NewKey(s) # Secrets!Pki
  BY DEF Secrets!NewKey, Secrets!Key, Secrets!Pki
<1> QED BY <1>1 DEF Secrets!Key, Secrets!NewKey, Secrets!VaultFile, Secrets!File

(* What is left of the plays after the first.                              *)
LEMMA PlaysLeft ==
  /\ Head(<<"seed">>) = "seed" /\ Head(<<"overcloud">>) = "overcloud" /\ Head(<<"config">>) = "config"
  /\ Head(<<"overcloud", "config">>) = "overcloud" /\ Head(<<"seed", "overcloud", "config">>) = "seed"
  /\ Tail(<<"seed">>) = <<>> /\ Tail(<<"overcloud">>) = <<>>
  /\ Tail(<<"overcloud", "config">>) = <<"config">>
  /\ Tail(<<"seed", "overcloud", "config">>) = <<"overcloud", "config">>
OBVIOUS

LEMMA SecretsInitOK == Secrets!Init => SecretsInv
<1> SUFFICES ASSUME Secrets!Init PROVE SecretsInv
  OBVIOUS
<1>1. FileInv
  BY KeyNames DEF Secrets!Init, FileInv
<1>2. PlayInv /\ StepInv
  BY DEF Secrets!Init, PlayInv, StepInv, Change, Emptied
<1>3. StoreInv
  BY DEF Secrets!Init, StoreInv
<1> QED BY <1>1, <1>2, <1>3 DEF SecretsInv

LEMMA PlaysDiffer ==
  /\ <<"config">> \notin {<<>>, <<"seed">>, <<"overcloud">>, <<"overcloud", "config">>,
                         <<"seed", "overcloud", "config">>}
  /\ <<"overcloud", "config">> \notin {<<>>, <<"seed">>, <<"overcloud">>,
                                      <<"seed", "overcloud", "config">>}
  /\ <<>> \notin {<<"seed">>, <<"overcloud">>, <<"seed", "overcloud", "config">>}
<1>1. /\ Len(<<>>) = 0 /\ Len(<<"seed">>) = 1 /\ Len(<<"overcloud">>) = 1 /\ Len(<<"config">>) = 1
      /\ Len(<<"overcloud", "config">>) = 2 /\ Len(<<"seed", "overcloud", "config">>) = 3
  OBVIOUS
<1>2. <<"config">> # <<"seed">> /\ <<"config">> # <<"overcloud">>
  BY PlaysLeft
<1> QED BY <1>1, <1>2

(* Commands begin and end, and servers are migrated.                       *)
LEMMA CommandOK == ASSUME SecretsInv, Secrets!Begin \/ Secrets!Stop PROVE SecretsInv'
<1>1. UNCHANGED <<store, vault_dir, vault, openbao, ca, migrated, had, had_ca, open>>
  BY DEF Secrets!Begin, Secrets!Stop, Secrets!config, Secrets!history
<1>2. FileInv'
  BY <1>1 DEF SecretsInv, FileInv
<1>3. CASE Secrets!Begin
  <2>1. /\ plays' \in {<<"seed">>, <<"overcloud">>, <<"config">>, <<"seed", "overcloud", "config">>}
        /\ step' = IF plays' = <<"config">> THEN "stat_vault" ELSE "migrate"
        /\ early' = (early \/ (plays' = <<"config">> /\ migrated # Secrets!Server))
    BY <1>3, PlaysLeft DEF Secrets!Begin, Secrets!FirstStep, Secrets!Server
  <2>2. PlayInv' /\ StepInv'
    BY <1>1, <2>1, PlaysDiffer DEF SecretsInv, PlayInv, StepInv, Change, Emptied
  <2>3. StoreInv'
    BY <1>1, <2>1 DEF SecretsInv, StoreInv
  <2> QED BY <1>2, <2>2, <2>3 DEF SecretsInv
<1>4. CASE Secrets!Stop
  <2>1. plays' = <<>> /\ step' = "idle" /\ early' = early
    BY <1>4 DEF Secrets!Stop, Secrets!history
  <2>2. PlayInv' /\ StepInv' /\ StoreInv'
    BY <1>1, <2>1 DEF SecretsInv, PlayInv, StepInv, StoreInv, Change, Emptied
  <2> QED BY <1>2, <2>2 DEF SecretsInv
<1> QED BY <1>3, <1>4

LEMMA ServerOK ==
  ASSUME SecretsInv, NEW s \in Secrets!Server, Secrets!MigrateServer(s)
  PROVE  SecretsInv'
<1>1. /\ step = "migrate" /\ Head(plays) = s /\ store = "vault" /\ migrated' = migrated \cup {s}
      /\ plays' = Tail(plays) /\ step' = IF plays' = <<>> THEN "idle" ELSE Secrets!FirstStep(Head(plays'))
      /\ UNCHANGED <<store, vault_dir, vault, openbao, ca, had, had_ca, early, open>>
  BY DEF Secrets!MigrateServer, Secrets!NextPlay, Secrets!config, Secrets!history
<1>2. /\ plays \in {<<"seed">>, <<"overcloud">>, <<"overcloud", "config">>,
                    <<"seed", "overcloud", "config">>}
      /\ migrated \subseteq Secrets!Server /\ (plays = <<"overcloud", "config">> => "seed" \in migrated)
  BY <1>1 DEF SecretsInv, PlayInv, Change, Emptied
<1>3. \/ plays' = <<>> /\ step' = "idle"
      \/ plays = <<"overcloud", "config">> /\ plays' = <<"config">> /\ step' = "stat_vault"
      \/ plays' = <<"overcloud", "config">> /\ step' = "migrate" /\ "seed" \in migrated'
  BY <1>1, <1>2, PlaysLeft DEF Secrets!FirstStep, Secrets!Server
<1>4. plays' = <<"config">> => migrated' = Secrets!Server
  <2>1. plays' = <<"config">> => plays = <<"overcloud", "config">> /\ s = "overcloud"
    BY <1>1, <1>3, PlaysLeft, PlaysDiffer
  <2> QED BY <1>1, <1>2, <2>1 DEF Secrets!Server
<1>5. FileInv'
  BY <1>1 DEF SecretsInv, FileInv
<1>6. PlayInv' /\ StepInv'
  BY <1>1, <1>2, <1>3, <1>4, PlaysDiffer DEF SecretsInv, PlayInv, StepInv, Change, Emptied
<1>7. StoreInv'
  BY <1>1 DEF SecretsInv, StoreInv
<1> QED BY <1>5, <1>6, <1>7 DEF SecretsInv
----------------------------------------------------------------------------
(* The tasks of change-config up to the removal.                           *)
LEMMA CopyOK ==
  ASSUME SecretsInv, Secrets!StatVault \/ Secrets!AllCopied \/ Secrets!AllNamed \/ Secrets!KeysRemoved
  PROVE  SecretsInv'
<1>1. UNCHANGED <<store, vault_dir, vault, openbao, ca, migrated, plays, had, had_ca, early, open>>
  BY DEF Secrets!StatVault, Secrets!AllCopied, Secrets!AllNamed, Secrets!KeysRemoved,
     Secrets!Goto, Secrets!config
<1>2. \/ step = "stat_vault" /\ step' = "copy" /\ vault_dir
      \/ step = "copy" /\ step' = "name_keys" /\ \A f \in vault : openbao[f] = "whole"
      \/ /\ step = "name_keys" /\ step' = "remove_vault"
         /\ \A s \in Secrets!Server :
              openbao[Secrets!Key(s)] # "absent" => openbao[Secrets!NewKey(s)] # "absent"
      \/ /\ step = "remove_keys" /\ step' = "copy_ca"
         /\ \A s \in Secrets!Server : openbao[Secrets!Key(s)] = "absent"
  BY DEF Secrets!StatVault, Secrets!AllCopied, Secrets!AllNamed, Secrets!KeysRemoved,
     Secrets!Goto, Secrets!IsCopied
<1>3. \A s \in Secrets!Server : openbao[Secrets!NewKey(s)] \in {"absent", "whole"}
  BY KeyNames DEF SecretsInv, FileInv
<1>4. FileInv' /\ StoreInv'
  BY <1>1 DEF SecretsInv, FileInv, StoreInv
<1>5. PlayInv'
  BY <1>1, <1>2 DEF SecretsInv, PlayInv, Change, Emptied
<1>6. step' = "copy" => store = "vault"
  BY <1>2 DEF SecretsInv, StoreInv
<1>7. step' = "remove_vault" => Renamed'
  BY <1>1, <1>2, <1>3 DEF Renamed
<1>8. StepInv'
  BY <1>1, <1>2, <1>6, <1>7 DEF SecretsInv, StepInv, Change, Emptied, Renamed
<1> QED BY <1>4, <1>5, <1>8 DEF SecretsInv

LEMMA CopyFileOK ==
  ASSUME SecretsInv, NEW f \in Secrets!VaultFile, Secrets!CopyFile(f)
  PROVE  SecretsInv'
<1>1. /\ step = "copy" /\ f \in vault
      /\ openbao' = [openbao EXCEPT ![f] = IF @ = "absent" THEN "part" ELSE "whole"]
      /\ UNCHANGED <<store, vault_dir, vault, ca, open, step, migrated, plays, had, had_ca, early>>
  BY DEF Secrets!CopyFile, Secrets!Goto
<1>2. FileInv'
  BY <1>1, KeyNames DEF SecretsInv, FileInv
<1>3. PlayInv' /\ StepInv'
  BY <1>1 DEF SecretsInv, PlayInv, StepInv, Change, Emptied
<1>4. StoreInv'
  BY <1>1 DEF SecretsInv, StepInv, StoreInv, Change
<1> QED BY <1>2, <1>3, <1>4 DEF SecretsInv

(* A key that is named is whole: so is its new name.                       *)
LEMMA NameKeyOK ==
  ASSUME SecretsInv, NEW s \in Secrets!Server, Secrets!NameKey(s)
  PROVE  SecretsInv'
<1>1. /\ step = "name_keys" /\ openbao[Secrets!Key(s)] # "absent"
      /\ openbao' = [openbao EXCEPT ![Secrets!NewKey(s)] = openbao[Secrets!Key(s)]]
      /\ UNCHANGED <<store, vault_dir, vault, ca, open, step, migrated, plays, had, had_ca, early>>
  BY DEF Secrets!NameKey, Secrets!Goto
<1>2. openbao[Secrets!Key(s)] = "whole"
  <2>1. Secrets!Key(s) \in had
    BY <1>1, KeyNames DEF SecretsInv, FileInv
  <2> QED BY <1>1, <2>1 DEF SecretsInv, FileInv, StepInv
<1>3. /\ openbao' \in [Secrets!File -> {"absent", "part", "whole"}] /\ openbao'[Secrets!NewKey(s)] = "whole"
      /\ \A f \in Secrets!File \ {Secrets!NewKey(s)} : openbao'[f] = openbao[f]
  BY <1>1, <1>2, KeyNames DEF SecretsInv, FileInv
<1>4. \A f \in Secrets!VaultFile : openbao'[f] = openbao[f]
  BY <1>3, KeyNames
<1>5. \A t \in Secrets!Server : openbao'[Secrets!NewKey(t)] \in {"whole", openbao[Secrets!NewKey(t)]}
  BY <1>3, KeyNames
<1>6. \A t \in Secrets!Server : openbao[Secrets!NewKey(t)] = "whole" => openbao'[Secrets!NewKey(t)] = "whole"
  BY <1>5
<1>7. FileInv'
  <2>1. \A f \in had \ vault : f \in Secrets!VaultFile
    BY DEF SecretsInv, FileInv
  <2> QED BY <1>1, <1>3, <1>4, <1>5, <1>6, <2>1 DEF SecretsInv, FileInv
<1>8. PlayInv' /\ StepInv'
  <2>1. \A f \in vault : f \in Secrets!VaultFile
    BY DEF SecretsInv, FileInv
  <2> QED BY <1>1, <1>4, <2>1 DEF SecretsInv, PlayInv, StepInv, Change, Emptied
<1>9. StoreInv'
  BY <1>1, <1>6 DEF SecretsInv, StoreInv
<1> QED BY <1>7, <1>8, <1>9 DEF SecretsInv
----------------------------------------------------------------------------
(* The removal of the directory, of the keys' old names and of vault.crt.  *)
LEMMA RemoveFileOK ==
  ASSUME SecretsInv, NEW f \in Secrets!VaultFile, Secrets!RemoveFile(f)
  PROVE  SecretsInv'
<1>1. /\ step = "remove_vault" /\ f \in vault /\ vault' = vault \ {f} /\ open' = TRUE
      /\ UNCHANGED <<store, vault_dir, openbao, ca, step, migrated, plays, had, had_ca, early>>
  BY DEF Secrets!RemoveFile, Secrets!Goto
<1>2. openbao[f] = "whole" /\ store = "vault"
  BY <1>1 DEF SecretsInv, StepInv, Change, Emptied
<1>3. FileInv'
  BY <1>1, <1>2 DEF SecretsInv, FileInv
<1>4. PlayInv' /\ StepInv'
  BY <1>1 DEF SecretsInv, PlayInv, StepInv, Change, Emptied, Renamed
<1>5. StoreInv'
  BY <1>1, <1>2 DEF SecretsInv, StoreInv
<1> QED BY <1>3, <1>4, <1>5 DEF SecretsInv

LEMMA RemoveVaultOK == ASSUME SecretsInv, Secrets!RemoveVault PROVE SecretsInv'
<1>1. /\ step = "remove_vault" /\ step' = "remove_keys" /\ vault = {} /\ vault_dir' = FALSE /\ open' = TRUE
      /\ UNCHANGED <<store, vault, openbao, ca, migrated, plays, had, had_ca, early>>
  BY DEF Secrets!RemoveVault, Secrets!Goto
<1>2. store = "vault" /\ Renamed
  BY <1>1 DEF SecretsInv, StepInv, Change, Emptied
<1>3. FileInv' /\ StoreInv'
  BY <1>1, <1>2 DEF SecretsInv, FileInv, StoreInv
<1>4. PlayInv' /\ StepInv'
  BY <1>1, <1>2 DEF SecretsInv, PlayInv, StepInv, Change, Emptied, Renamed
<1> QED BY <1>3, <1>4 DEF SecretsInv

LEMMA RemoveKeyOK ==
  ASSUME SecretsInv, NEW s \in Secrets!Server, Secrets!RemoveKey(s)
  PROVE  SecretsInv'
<1>1. /\ step = "remove_keys" /\ openbao[Secrets!Key(s)] # "absent"
      /\ openbao' = [openbao EXCEPT ![Secrets!Key(s)] = "absent"]
      /\ UNCHANGED <<store, vault_dir, vault, ca, open, step, migrated, plays, had, had_ca, early>>
  BY DEF Secrets!RemoveKey, Secrets!Goto
<1>2. store = "vault" /\ Renamed /\ ~vault_dir /\ open
  BY <1>1 DEF SecretsInv, StepInv, Change, Emptied
<1>3. /\ openbao' \in [Secrets!File -> {"absent", "part", "whole"}] /\ openbao'[Secrets!Key(s)] = "absent"
      /\ \A f \in Secrets!File \ {Secrets!Key(s)} : openbao'[f] = openbao[f]
      /\ \A t \in Secrets!Server : openbao'[Secrets!NewKey(t)] = openbao[Secrets!NewKey(t)]
  BY <1>1, KeyNames DEF SecretsInv, FileInv
<1>4. openbao[Secrets!NewKey(s)] = "whole"
  BY <1>1, <1>2 DEF Renamed
<1>5. FileInv'
  <2>1. ASSUME NEW f \in had \ vault
        PROVE  \/ openbao'[f] = "whole"
               \/ /\ openbao'[f] = "absent"
                  /\ \E t \in Secrets!Server : f = Secrets!Key(t) /\ openbao'[Secrets!NewKey(t)] = "whole"
    <3>1. CASE f = Secrets!Key(s)
      BY <1>3, <1>4, <3>1
    <3>2. CASE f # Secrets!Key(s)
      BY <1>3, <3>2, KeyNames DEF SecretsInv, FileInv
    <3> QED BY <3>1, <3>2
  <2>2. \A f \in Secrets!VaultFile \ had : openbao'[f] = "absent"
    BY <1>3, KeyNames DEF SecretsInv, FileInv
  <2> QED BY <1>1, <1>3, <2>1, <2>2 DEF SecretsInv, FileInv
<1>6. Renamed'
  BY <1>2, <1>3, KeyNames DEF Renamed
<1>7. PlayInv' /\ StepInv'
  BY <1>1, <1>6 DEF SecretsInv, PlayInv, StepInv, Change, Emptied
<1>8. StoreInv'
  BY <1>1, <1>2 DEF SecretsInv, StoreInv
<1> QED BY <1>5, <1>7, <1>8 DEF SecretsInv

LEMMA CaOK == ASSUME SecretsInv, Secrets!CopyCa \/ Secrets!RemoveCa PROVE SecretsInv'
<1>1. UNCHANGED <<store, vault_dir, vault, openbao, open, migrated, plays, had, had_ca, early>>
  BY DEF Secrets!CopyCa, Secrets!RemoveCa, Secrets!Goto
<1>2. step \in {"copy_ca", "remove_ca"}
  BY DEF Secrets!CopyCa, Secrets!RemoveCa, Secrets!Goto
<1>3. /\ store = "vault" /\ open /\ ~vault_dir /\ \A s \in Secrets!Server : openbao[Secrets!Key(s)] = "absent"
  BY <1>2 DEF SecretsInv, StepInv, Change, Emptied
<1>4. /\ ca' \subseteq {"vault", "openbao"} /\ (ca' = {}) = (had_ca = {})
      /\ \/ step' = "remove_ca" /\ "openbao" \in ca'
         \/ step' = "set_store" /\ (had_ca # {} => "openbao" \in ca')
  <2>1. ca \subseteq {"vault", "openbao"} /\ (ca = {}) = (had_ca = {})
    BY DEF SecretsInv, StoreInv
  <2>2. CASE Secrets!CopyCa /\ "vault" \in ca
    BY <2>1, <2>2 DEF Secrets!CopyCa, Secrets!Goto
  <2>3. CASE Secrets!CopyCa /\ "vault" \notin ca
    BY <2>1, <2>3 DEF Secrets!CopyCa, Secrets!Goto
  <2>4. CASE Secrets!RemoveCa
    <3>1. "openbao" \in ca
      BY <2>4 DEF SecretsInv, StepInv, Secrets!RemoveCa, Secrets!Goto
    <3> QED BY <2>1, <2>4, <3>1 DEF Secrets!RemoveCa, Secrets!Goto
  <2> QED BY <2>2, <2>3, <2>4
<1>5. FileInv'
  BY <1>1 DEF SecretsInv, FileInv
<1>6. StoreInv'
  BY <1>1, <1>3, <1>4 DEF SecretsInv, StoreInv
<1>7. PlayInv' /\ StepInv'
  BY <1>1, <1>2, <1>3, <1>4 DEF SecretsInv, PlayInv, StepInv, Change, Emptied
<1> QED BY <1>5, <1>6, <1>7 DEF SecretsInv

LEMMA SetStoreOK == ASSUME SecretsInv, Secrets!SetStore PROVE SecretsInv'
<1>1. /\ step = "set_store" /\ store' = "openbao" /\ open' = FALSE /\ plays' = <<>> /\ step' = "idle"
      /\ UNCHANGED <<migrated, vault_dir, vault, openbao, ca, had, had_ca, early>>
  BY DEF Secrets!SetStore
<1>2. /\ ~vault_dir /\ vault = {} /\ \A s \in Secrets!Server : openbao[Secrets!Key(s)] = "absent"
      /\ had_ca # {} => "openbao" \in ca
  BY <1>1 DEF SecretsInv, StepInv, StoreInv, Emptied
<1>3. migrated = Secrets!Server \/ early
  BY <1>1 DEF SecretsInv, PlayInv, Change, Emptied
<1>4. ASSUME NEW s \in Secrets!Server, Secrets!Key(s) \in had PROVE openbao[Secrets!NewKey(s)] = "whole"
  <2>1. PICK t \in Secrets!Server : Secrets!Key(s) = Secrets!Key(t) /\ openbao[Secrets!NewKey(t)] = "whole"
    BY <1>2, <1>4 DEF SecretsInv, FileInv
  <2> QED BY <2>1, KeyNames
<1>5. FileInv' /\ PlayInv' /\ StepInv'
  BY <1>1 DEF SecretsInv, FileInv, PlayInv, StepInv, Change, Emptied
<1>6. StoreInv'
  BY <1>1, <1>2, <1>3, <1>4 DEF SecretsInv, StoreInv
<1> QED BY <1>5, <1>6 DEF SecretsInv

LEMMA SecretsStutterOK == ASSUME SecretsInv, UNCHANGED Secrets!vars PROVE SecretsInv'
BY DEF Secrets!vars, Secrets!config, Secrets!history, SecretsInv, FileInv, PlayInv, StepInv,
   StoreInv, Renamed

(* Where keys, certificates and the CA are, at any time.                   *)
LEMMA SecretsInductive == Secrets!Spec => []SecretsInv
<1>1. SecretsInv /\ [Secrets!Next]_(Secrets!vars) => SecretsInv'
  BY CommandOK, ServerOK, CopyOK, CopyFileOK, NameKeyOK, RemoveFileOK, RemoveVaultOK, RemoveKeyOK,
     CaOK, SetStoreOK, SecretsStutterOK DEF Secrets!Next
<1> QED BY SecretsInitOK, <1>1, PTL DEF Secrets!Spec

LEMMA SecretsFacts ==
  ASSUME SecretsInv
  PROVE  Secrets!TypeOK /\ Secrets!MaterialNeverLost /\ Secrets!ConfigFits
<1>1. Secrets!TypeOK
  BY DEF SecretsInv, FileInv, PlayInv, StoreInv, Secrets!TypeOK
<1>2. Secrets!MaterialNeverLost
  BY DEF SecretsInv, FileInv, StoreInv, Secrets!MaterialNeverLost
<1>3. Secrets!ConfigFits
  BY DEF SecretsInv, StoreInv, Secrets!ConfigFits
<1> QED BY <1>1, <1>2, <1>3
----------------------------------------------------------------------------

AmphoraStage == {"idle", "download", "stat", "rename", "create", "upload"}

AmphoraTypes ==
  /\ published \in 1..MaxVersion /\ configured \in 1..published
  /\ file \in 0..published /\ written \in file..published
  /\ images \in Seq(Amphora!Image) /\ Len(images) <= MaxImage
  /\ stage \in AmphoraStage /\ settled \in BOOLEAN

(* Only the last image can have the name.                                  *)
NameInv == \A n \in Amphora!Named : n = Len(images)

(* What the tasks of a run find.                                           *)
StageInv ==
  /\ stage \in {"rename", "create", "upload"} => file # 0
  /\ stage = "create" => Amphora!Named = {}
  /\ stage = "upload" => Len(images) \in Amphora!Named /\ Len(images) \notin Amphora!Active

(* The last image is of the file's version, and Octavia can take it.       *)
SettledInv ==
  settled /\ stage = "idle" =>
    file # 0 /\ images # <<>> /\ images[Len(images)].version = file

AmphoraInv == AmphoraTypes /\ NameInv /\ StageInv /\ SettledInv
----------------------------------------------------------------------------
(* An image that is removed leaves the others in their order.              *)
LEMMA AmphoraRemoved ==
  ASSUME NEW s \in Seq(Amphora!Image), NEW k \in 1..Len(s)
  PROVE  /\ Amphora!RemoveAt(s, k) \in Seq(Amphora!Image) /\ Len(Amphora!RemoveAt(s, k)) = Len(s) - 1
         /\ \A i \in 1..(Len(s) - 1) : Amphora!RemoveAt(s, k)[i] = IF i < k THEN s[i] ELSE s[i + 1]
<1> DEFINE a == SubSeq(s, 1, k - 1)
           b == SubSeq(s, k + 1, Len(s))
<1>1. Len(s) \in Nat /\ k \in Nat /\ 1 <= k /\ k <= Len(s)
  OBVIOUS
<1>2. /\ a \in Seq(Amphora!Image) /\ Len(a) = k - 1
      /\ \A i \in 1..(k - 1) : a[i] = s[i]
  <2>1. \A i \in 1..(k - 1) : s[i] \in Amphora!Image
    BY <1>1
  <2> QED BY <1>1, <2>1
<1>3. /\ b \in Seq(Amphora!Image) /\ Len(b) = Len(s) - k
      /\ \A i \in 1..(Len(s) - k) : b[i] = s[k + i]
  <2>1. \A i \in (k + 1)..Len(s) : s[i] \in Amphora!Image
    BY <1>1
  <2> QED BY <1>1, <2>1
<1>4. Amphora!RemoveAt(s, k) = a \o b
  BY DEF Amphora!RemoveAt
<1> HIDE DEF a, b
<1>5. /\ a \o b \in Seq(Amphora!Image) /\ Len(a \o b) = Len(s) - 1
      /\ \A i \in 1..(Len(s) - 1) : (a \o b)[i] = IF i <= k - 1 THEN a[i] ELSE b[i - (k - 1)]
  <2>1. /\ a \o b \in Seq(Amphora!Image) /\ Len(a \o b) = Len(a) + Len(b)
        /\ \A i \in 1..(Len(a) + Len(b)) : (a \o b)[i] = IF i <= Len(a) THEN a[i] ELSE b[i - Len(a)]
    BY <1>2, <1>3, ConcatProperties
  <2>2. Len(a) + Len(b) = Len(s) - 1
    BY <1>1, <1>2, <1>3
  <2> QED BY <1>2, <2>1, <2>2
<1>6. ASSUME NEW i \in 1..(Len(s) - 1) PROVE (a \o b)[i] = IF i < k THEN s[i] ELSE s[i + 1]
  <2>1. CASE i < k
    BY <1>1, <1>2, <1>5, <2>1
  <2>2. CASE ~(i < k)
    <3>1. i - (k - 1) \in 1..(Len(s) - k) /\ k + (i - (k - 1)) = i + 1
      BY <1>1, <2>2
    <3> QED BY <1>1, <1>3, <1>5, <2>2, <3>1
  <2> QED BY <2>1, <2>2
<1> QED BY <1>4, <1>5, <1>6

LEMMA AmphoraWithoutLast ==
  ASSUME NEW s \in Seq(Amphora!Image), s # <<>>
  PROVE  /\ Amphora!Front(s) \in Seq(Amphora!Image) /\ Len(Amphora!Front(s)) = Len(s) - 1
         /\ \A i \in 1..(Len(s) - 1) : Amphora!Front(s)[i] = s[i]
<1>1. Len(s) \in Nat \ {0}
  OBVIOUS
<1>2. \A i \in 1..(Len(s) - 1) : s[i] \in Amphora!Image
  BY <1>1
<1>3. /\ SubSeq(s, 1, Len(s) - 1) \in Seq(Amphora!Image) /\ Len(SubSeq(s, 1, Len(s) - 1)) = Len(s) - 1
      /\ \A i \in 1..(Len(s) - 1) : SubSeq(s, 1, Len(s) - 1)[i] = s[i]
  <2> DEFINE n == Len(s) - 1
  <2>1. n \in Nat /\ \A i \in 1..n : s[i] \in Amphora!Image
    BY <1>1, <1>2
  <2> HIDE DEF n
  <2>2. /\ SubSeq(s, 1, n) \in Seq(Amphora!Image) /\ Len(SubSeq(s, 1, n)) = IF 1 <= n THEN n - 1 + 1 ELSE 0
        /\ \A i \in 1..(n - 1 + 1) : SubSeq(s, 1, n)[i] = s[1 + i - 1]
    BY <2>1, SubSeqProperties
  <2>3. Len(SubSeq(s, 1, n)) = n /\ \A i \in 1..n : SubSeq(s, 1, n)[i] = s[i]
    BY <2>1, <2>2
  <2> QED BY <2>2, <2>3 DEF n
<1> QED BY <1>3 DEF Amphora!Front
----------------------------------------------------------------------------
LEMMA AmphoraInitOK == ASSUME Amphora!AmphoraAssumption PROVE Amphora!Init => AmphoraInv
<1> SUFFICES ASSUME Amphora!Init PROVE AmphoraInv
  OBVIOUS
<1>1. images = <<>> /\ Len(images) = 0 /\ DOMAIN images = {}
  BY DEF Amphora!Init
<1>2. /\ 1 \in 1..MaxVersion /\ 1 \in 1..1 /\ 0 \in 0..1 /\ 0 <= MaxImage /\ <<>> \in Seq(Amphora!Image)
  BY DEF Amphora!AmphoraAssumption
<1>3. AmphoraTypes
  BY <1>1, <1>2 DEF Amphora!Init, AmphoraTypes, AmphoraStage
<1> QED BY <1>1, <1>3 DEF Amphora!Init, AmphoraInv, NameInv, StageInv, SettledInv, Amphora!Named

(* Steps that leave the images alone. *)
LEMMA AmphoraBetweenOK ==
  ASSUME Amphora!AmphoraAssumption, AmphoraInv,
         Amphora!Publish \/ Amphora!Configure \/ Amphora!Begin
  PROVE  AmphoraInv'
<1>1. UNCHANGED <<file, written, images>> /\ Amphora!Named' = Amphora!Named /\ Amphora!Active' = Amphora!Active
  BY DEF Amphora!Publish, Amphora!Configure, Amphora!Begin, Amphora!Named, Amphora!Active
<1>2. AmphoraTypes'
  <2>1. /\ published' \in 1..MaxVersion /\ published <= published' /\ configured' \in 1..published'
        /\ published \in Nat
    BY DEF Amphora!Publish, Amphora!Configure, Amphora!Begin, AmphoraInv, AmphoraTypes,
       Amphora!AmphoraAssumption
  <2>2. file \in 0..published' /\ written \in file..published'
    BY <2>1 DEF AmphoraInv, AmphoraTypes
  <2>3. stage' \in AmphoraStage /\ settled' \in BOOLEAN
    BY DEF Amphora!Publish, Amphora!Configure, Amphora!Begin, AmphoraInv, AmphoraTypes, AmphoraStage
  <2> QED BY <1>1, <2>1, <2>2, <2>3 DEF AmphoraInv, AmphoraTypes
<1> QED BY <1>1, <1>2 DEF Amphora!Publish, Amphora!Configure, Amphora!Begin, AmphoraInv, NameInv,
           StageInv, SettledInv

LEMMA AmphoraTasksOK ==
  ASSUME Amphora!AmphoraAssumption, AmphoraInv, Amphora!Download \/ Amphora!Query
  PROVE  AmphoraInv'
<1>1. images' = images /\ Amphora!Named' = Amphora!Named /\ Amphora!Active' = Amphora!Active
  BY DEF Amphora!Download, Amphora!Query, Amphora!Named, Amphora!Active
<1>2. AmphoraTypes'
  BY <1>1 DEF Amphora!Download, Amphora!Query, Amphora!Goto, AmphoraInv, AmphoraTypes, AmphoraStage
<1>3. CASE Amphora!Download
  BY <1>1, <1>2, <1>3 DEF Amphora!Download, Amphora!Goto, AmphoraInv, NameInv, StageInv, SettledInv
<1>4. CASE Amphora!Query
  <2>1. Amphora!IsRegistered => images # <<>> /\ images[Len(images)].version = file
    BY DEF Amphora!IsRegistered, AmphoraInv, NameInv, Amphora!Named
  <2> QED BY <1>1, <1>2, <1>4, <2>1 DEF Amphora!Query, Amphora!Goto, AmphoraInv, NameInv,
             StageInv, SettledInv
<1> QED BY <1>3, <1>4
----------------------------------------------------------------------------
(* Removing images other than the last keeps it the last. *)
LEMMA AmphoraRollbackOK ==
  ASSUME Amphora!AmphoraAssumption, AmphoraInv, Amphora!Rollback
  PROVE  AmphoraInv'
<1>1. PICK k \in Amphora!Active : images' = Amphora!RemoveAt(images, k)
  BY DEF Amphora!Rollback
<1>2. /\ images \in Seq(Amphora!Image) /\ k \in 1..Len(images) /\ settled' = FALSE
      /\ UNCHANGED <<published, configured, file, written, stage>>
  BY DEF Amphora!Rollback, AmphoraInv, AmphoraTypes, Amphora!Active
<1>3. /\ images' \in Seq(Amphora!Image) /\ Len(images') = Len(images) - 1
      /\ \A i \in 1..(Len(images) - 1) : images'[i] = IF i < k THEN images[i] ELSE images[i + 1]
  BY <1>1, <1>2, AmphoraRemoved
<1>4. Len(images) \in Nat /\ DOMAIN images = 1..Len(images) /\ DOMAIN images' = 1..(Len(images) - 1)
  BY <1>2, <1>3
<1>5. \A i \in Amphora!Named' : i \in 1..(Len(images) - 1) /\ images'[i].named
  BY <1>4 DEF Amphora!Named
<1>6. \A i \in Amphora!Named' : i = Len(images) - 1 /\ Len(images) \in Amphora!Named
  <2> TAKE i \in Amphora!Named'
  <2>1. CASE i < k
    <3>1. i \in Amphora!Named
      BY <1>3, <1>4, <1>5, <2>1 DEF Amphora!Named
    <3> QED BY <1>2, <1>5, <2>1, <3>1 DEF AmphoraInv, NameInv
  <2>2. CASE ~(i < k)
    <3>1. i + 1 \in Amphora!Named
      BY <1>3, <1>4, <1>5, <2>2 DEF Amphora!Named
    <3> QED BY <1>4, <1>5, <3>1 DEF AmphoraInv, NameInv
  <2> QED BY <2>1, <2>2
<1>7. AmphoraTypes' /\ NameInv' /\ SettledInv'
  <2>1. Len(images') <= MaxImage
    BY <1>3, <1>4 DEF AmphoraInv, AmphoraTypes, Amphora!AmphoraAssumption
  <2>2. AmphoraTypes'
    BY <1>2, <1>3, <2>1 DEF AmphoraInv, AmphoraTypes
  <2> QED BY <1>2, <1>3, <1>6, <2>2 DEF NameInv, SettledInv
<1>8. StageInv'
  <2>1. stage = "create" => Amphora!Named' = {}
    BY <1>6 DEF AmphoraInv, StageInv
  <2>2. ASSUME stage = "upload" PROVE Len(images') \in Amphora!Named' /\ Len(images') \notin Amphora!Active'
    <3>1. Len(images) \in Amphora!Named /\ Len(images) \notin Amphora!Active
      BY <2>2 DEF AmphoraInv, StageInv
    <3>2. k < Len(images) /\ Len(images) - 1 \in 1..(Len(images) - 1)
      BY <1>2, <1>4, <3>1
    <3>3. images'[Len(images')] = images[Len(images)]
      <4>1. ~(Len(images) - 1 < k) /\ (Len(images) - 1) + 1 = Len(images)
        BY <1>2, <1>4, <3>2
      <4> QED BY <1>3, <3>2, <4>1
    <3> QED BY <1>3, <1>4, <3>1, <3>2, <3>3 DEF Amphora!Named, Amphora!Active
  <2> QED BY <1>2, <2>1, <2>2 DEF AmphoraInv, StageInv
<1> QED BY <1>7, <1>8 DEF AmphoraInv

LEMMA AmphoraFailOK ==
  ASSUME Amphora!AmphoraAssumption, AmphoraInv, Amphora!Fail
  PROVE  AmphoraInv'
<1>1. /\ stage' = "idle" /\ settled' = FALSE /\ UNCHANGED <<published, configured, file, written>>
      /\ images' = images \/ (stage = "upload" /\ images' = Amphora!Front(images))
  BY DEF Amphora!Fail
<1>2. CASE images' = images
  BY <1>1, <1>2 DEF AmphoraInv, AmphoraTypes, AmphoraStage, NameInv, StageInv, SettledInv,
     Amphora!Named
<1>3. CASE stage = "upload" /\ images' = Amphora!Front(images)
  <2>1. Len(images) \in DOMAIN images /\ images \in Seq(Amphora!Image)
    BY <1>3 DEF AmphoraInv, AmphoraTypes, StageInv, Amphora!Named
  <2>2. images # <<>> /\ Len(images) \in Nat /\ DOMAIN images = 1..Len(images)
    BY <2>1
  <2>3. /\ images' \in Seq(Amphora!Image) /\ Len(images') = Len(images) - 1
        /\ \A i \in 1..(Len(images) - 1) : images'[i] = images[i]
    BY <1>3, <2>1, <2>2, AmphoraWithoutLast
  <2>4. DOMAIN images' = 1..(Len(images) - 1)
    BY <2>3
  <2>5. Amphora!Named' = {}
    <3>1. \A i \in Amphora!Named' : i \in Amphora!Named /\ i < Len(images)
      BY <2>2, <2>3, <2>4 DEF Amphora!Named
    <3> QED BY <2>2, <3>1 DEF AmphoraInv, NameInv
  <2>6. Len(images') <= MaxImage
    BY <2>2, <2>3 DEF AmphoraInv, AmphoraTypes, Amphora!AmphoraAssumption
  <2>7. AmphoraTypes'
    BY <1>1, <2>3, <2>6 DEF AmphoraInv, AmphoraTypes, AmphoraStage
  <2> QED BY <1>1, <2>5, <2>7 DEF AmphoraInv, NameInv, StageInv, SettledInv
<1> QED BY <1>1, <1>2, <1>3

(* There is one image to rename, and none of the name after it. *)
LEMMA AmphoraRenameOK ==
  ASSUME Amphora!AmphoraAssumption, AmphoraInv, Amphora!Rename
  PROVE  AmphoraInv'
<1>1. PICK n \in Amphora!Named : images' = [images EXCEPT ![n].named = FALSE]
  BY DEF Amphora!Rename
<1>2. /\ stage = "rename" /\ stage' = "create"
      /\ UNCHANGED <<published, configured, settled, file, written>>
  BY DEF Amphora!Rename, Amphora!Goto
<1>3. images \in Seq(Amphora!Image) /\ n \in DOMAIN images
  BY DEF AmphoraInv, AmphoraTypes, Amphora!Named
<1>4. /\ images' \in Seq(Amphora!Image) /\ Len(images') = Len(images) /\ DOMAIN images' = DOMAIN images
      /\ ~images'[n].named /\ \A m \in DOMAIN images \ {n} : images'[m] = images[m]
  <2> DEFINE new == [images[n] EXCEPT !.named = FALSE]
  <2>1. new \in Amphora!Image /\ ~new.named
    <3>1. images[n] \in Amphora!Image
      BY <1>3
    <3> QED BY <3>1 DEF Amphora!Image
  <2>2. images' = [images EXCEPT ![n] = new]
    BY <1>1
  <2> HIDE DEF new
  <2> QED BY <1>3, <2>1, <2>2
<1>5. Amphora!Named' = {}
  <2>1. \A m \in Amphora!Named' : m \in Amphora!Named /\ m # n
    BY <1>4 DEF Amphora!Named
  <2> QED BY <2>1 DEF AmphoraInv, NameInv
<1> QED BY <1>2, <1>4, <1>5 DEF AmphoraInv, AmphoraTypes, AmphoraStage, NameInv, StageInv,
           SettledInv

LEMMA AmphoraCreateOK ==
  ASSUME Amphora!AmphoraAssumption, AmphoraInv, Amphora!Create
  PROVE  AmphoraInv'
<1> DEFINE new == [version |-> Amphora!Queued, named |-> TRUE]
<1>1. /\ stage = "create" /\ stage' = "upload" /\ Len(images) < MaxImage
      /\ UNCHANGED <<published, configured, settled, file, written>>
      /\ images' = Append(images, new)
  BY DEF Amphora!Create, Amphora!Goto
<1>2. images \in Seq(Amphora!Image) /\ new \in Amphora!Image /\ new.named /\ new.version = Amphora!Queued
  BY DEF AmphoraInv, AmphoraTypes, Amphora!Image, Amphora!Queued, Amphora!AmphoraAssumption
<1> HIDE DEF new
<1>3. /\ images' \in Seq(Amphora!Image) /\ Len(images') = Len(images) + 1
      /\ DOMAIN images' = 1..(Len(images) + 1) /\ DOMAIN images = 1..Len(images)
      /\ images'[Len(images) + 1] = new /\ \A i \in 1..Len(images) : images'[i] = images[i]
      /\ Len(images) \in Nat
  BY <1>1, <1>2
<1>4. Amphora!Named = {}
  BY <1>1 DEF AmphoraInv, StageInv
<1>5. \A i \in Amphora!Named' : i = Len(images)  + 1
  BY <1>3, <1>4 DEF Amphora!Named
<1>6. Len(images') \in Amphora!Named' /\ Len(images') \notin Amphora!Active'
  BY <1>2, <1>3 DEF Amphora!Named, Amphora!Active
<1>7. AmphoraTypes'
  BY <1>1, <1>3 DEF AmphoraInv, AmphoraTypes, AmphoraStage, Amphora!AmphoraAssumption
<1> QED BY <1>1, <1>3, <1>5, <1>6, <1>7 DEF AmphoraInv, NameInv, StageInv, SettledInv

LEMMA AmphoraUploadOK ==
  ASSUME Amphora!AmphoraAssumption, AmphoraInv, Amphora!Upload
  PROVE  AmphoraInv'
<1> DEFINE n == Len(images)
           new == [images[n] EXCEPT !.version = file]
<1>1. /\ stage = "upload" /\ stage' = "idle"
      /\ UNCHANGED <<published, configured, settled, file, written>>
      /\ images' = [images EXCEPT ![n] = new]
  BY DEF Amphora!Upload, Amphora!Goto
<1>2. images \in Seq(Amphora!Image) /\ n \in DOMAIN images /\ file # 0
  BY <1>1 DEF AmphoraInv, AmphoraTypes, StageInv, Amphora!Named
<1>3. new \in Amphora!Image /\ new.version = file
  <2>1. images[n] \in Amphora!Image /\ file \in 0..MaxVersion
    BY <1>2 DEF AmphoraInv, AmphoraTypes, Amphora!AmphoraAssumption
  <2> QED BY <2>1 DEF Amphora!Image
<1> HIDE DEF new
<1>4. /\ images' \in Seq(Amphora!Image) /\ Len(images') = n /\ DOMAIN images' = DOMAIN images
      /\ images'[n] = new /\ \A m \in DOMAIN images \ {n} : images'[m] = images[m]
      /\ images' # <<>>
  BY <1>1, <1>2, <1>3
<1>5. NameInv'
  BY <1>4 DEF AmphoraInv, NameInv, Amphora!Named
<1>6. AmphoraTypes'
  BY <1>1, <1>4 DEF AmphoraInv, AmphoraTypes, AmphoraStage
<1> QED BY <1>1, <1>2, <1>3, <1>4, <1>5, <1>6 DEF AmphoraInv, StageInv, SettledInv

LEMMA AmphoraStutterOK == ASSUME AmphoraInv, UNCHANGED Amphora!vars PROVE AmphoraInv'
BY DEF Amphora!vars, AmphoraInv, AmphoraTypes, NameInv, StageInv, SettledInv, Amphora!Named,
   Amphora!Active

(* Where the name is, at any time, and what the tasks of a run rely on.    *)
THEOREM AmphoraInductive == ASSUME Amphora!AmphoraAssumption PROVE Amphora!Spec => []AmphoraInv
<1>1. AmphoraInv /\ [Amphora!Next]_(Amphora!vars) => AmphoraInv'
  BY AmphoraBetweenOK, AmphoraTasksOK, AmphoraRollbackOK, AmphoraFailOK, AmphoraRenameOK,
     AmphoraCreateOK, AmphoraUploadOK, AmphoraStutterOK DEF Amphora!Next
<1> QED BY AmphoraInitOK, <1>1, PTL DEF Amphora!Spec

(* Types, and that no two images ever have the name that the query and the *)
(* renaming look for.                                                      *)
THEOREM AmphoraTypeCorrect ==
  ASSUME Amphora!AmphoraAssumption
  PROVE  Amphora!Spec => []Amphora!TypeOK
<1>1. AmphoraInv => Amphora!TypeOK
  BY DEF AmphoraInv, AmphoraTypes, NameInv, StageInv, Amphora!TypeOK
<1> QED BY <1>1, AmphoraInductive, PTL

(* After a run that ended well Octavia boots amphorae from the file's      *)
(* version: what IsRegistered finds, or Upload fills, is the newest.       *)
THEOREM AmphoraFileChosen ==
  ASSUME Amphora!AmphoraAssumption
  PROVE  Amphora!Spec => []Amphora!ChosenIsFile
<1>1. AmphoraInv => Amphora!ChosenIsFile
  <2> SUFFICES ASSUME AmphoraInv, settled, stage = "idle"
               PROVE  Amphora!Active # {} /\ Amphora!Chosen = file
    BY DEF Amphora!ChosenIsFile
  <2>1. /\ file # 0 /\ images # <<>> /\ images[Len(images)].version = file
        /\ images \in Seq(Amphora!Image)
    BY DEF AmphoraInv, AmphoraTypes, SettledInv
  <2>2. Len(images) \in Amphora!Active /\ \A m \in Amphora!Active : m <= Len(images) /\ m \in Nat
    BY <2>1 DEF Amphora!Active, Amphora!Queued
  <2>3. \A n \in Amphora!Active : (\A m \in Amphora!Active : m <= n) => n = Len(images)
    BY <2>2
  <2>4. (CHOOSE n \in Amphora!Active : \A m \in Amphora!Active : m <= n) = Len(images)
    BY <2>2, <2>3
  <2> QED BY <2>1, <2>2, <2>4 DEF Amphora!Chosen
<1> QED BY <1>1, AmphoraInductive, PTL
----------------------------------------------------------------------------

(* Once they are set, the priorities of a group are those of the gateways  *)
(* that were read; the groups that are being set are the router's at hand. *)
InLine(n) ==
  /\ Ovn!Pending(n) /\ aligned[n] # <<>> => aligned[n] = gateway_chassis
  /\ \A i \in DOMAIN aligned[n] :
       aligned[n][i] \in DOMAIN group[n] =>
         \/ apply /\ <<n, aligned[n][i]>> \in ha_chassis
         \/ group[n][aligned[n][i]] = MAX_PRIORITY - (i - 1)

OrderInv == \A n \in Network : InLine(n)

RunTypes == apply \in BOOLEAN /\ gateway_chassis \in Ovn!Gateways

OvnInv == Ovn!TypeOK /\ RunTypes /\ OrderInv
----------------------------------------------------------------------------
(* The gateways are a list without duplicates; places in it are numbers.   *)
LEMMA OvnGatewayList ==
  ASSUME Ovn!OvnAssumption, NEW s \in Ovn!Gateways
  PROVE  \E n \in 0..Ovn!Cardinality(Host) : s \in [1..n -> Host] /\ Ovn!IsInjective(s)
BY DEF Ovn!Gateways

LEMMA OvnChassisNumber ==
  ASSUME Ovn!OvnAssumption
  PROVE  Ovn!Cardinality(Host) \in Nat /\ MAX_PRIORITY \in Nat
<1>1. IsFiniteSet(Host) /\ Ovn!Cardinality(Host) = Cardinality(Host)
  BY DEF Ovn!OvnAssumption, Ovn!IsFiniteSet, IsFiniteSet, Ovn!Cardinality, Cardinality
<1> QED BY <1>1, FS_CardinalityType DEF Ovn!OvnAssumption

(* The priority a gateway is to have follows from its place.               *)
LEMMA OvnPlaces ==
  ASSUME Ovn!OvnAssumption, gateway_chassis \in Ovn!Gateways, NEW i \in DOMAIN gateway_chassis
  PROVE  /\ Ovn!DesiredPriority(gateway_chassis[i]) = MAX_PRIORITY - (i - 1)
         /\ Ovn!DesiredPriority(gateway_chassis[i]) \in Ovn!Priority
         /\ i \in 1..Ovn!Cardinality(Host)
<1>1. PICK n \in 0..Ovn!Cardinality(Host) :
        gateway_chassis \in [1..n -> Host] /\ Ovn!IsInjective(gateway_chassis)
  BY OvnGatewayList
<1>2. i \in 1..n /\ n \in Nat /\ i \in 1..Ovn!Cardinality(Host)
  BY <1>1, OvnChassisNumber
<1>3. Ovn!Index(gateway_chassis[i]) = i
  BY <1>1, <1>2 DEF Ovn!Index, Ovn!IsInjective
<1>4. MAX_PRIORITY - (i - 1) \in Ovn!Priority
  BY <1>2, OvnChassisNumber DEF Ovn!Priority
<1> QED BY <1>2, <1>3, <1>4 DEF Ovn!DesiredPriority

(* When none is left to do, the gateways lead. *)
LEMMA OvnAllSet ==
  ASSUME Ovn!OvnAssumption, OvnInv, NEW n \in Network, aligned[n] # <<>>, ~Ovn!Pending(n)
  PROVE  /\ \A c, d \in DOMAIN group[n] :
              Ovn!Before(c, d, aligned[n]) => group[n][c] > group[n][d]
         /\ Head(aligned[n]) \in DOMAIN group[n] =>
              \A c \in DOMAIN group[n] : group[n][c] <= group[n][Head(aligned[n])]
<1> DEFINE s == aligned[n]
           g == group[n]
<1>1. PICK k \in 0..Ovn!Cardinality(Host) : s \in [1..k -> Host]
  BY OvnGatewayList DEF OvnInv, Ovn!TypeOK
<1>2. PICK members \in SUBSET Host : g \in [members -> Ovn!Priority]
  BY DEF OvnInv, Ovn!TypeOK, Ovn!Group
<1>3. MAX_PRIORITY \in Nat /\ k \in Nat /\ Ovn!Priority \subseteq Int
      /\ \A x \in Ovn!Priority : x <= MAX_PRIORITY
  BY OvnChassisNumber DEF Ovn!Priority
<1>4. ASSUME NEW i \in DOMAIN s, s[i] \in DOMAIN g
      PROVE  g[s[i]] = MAX_PRIORITY - (i - 1)
  <2>1. s[i] \in Host
    BY <1>1
  <2>2. ~(apply /\ <<n, s[i]>> \in ha_chassis)
    BY <2>1 DEF Ovn!Pending
  <2> QED BY <1>4, <2>2 DEF OvnInv, OrderInv, InLine
<1>5. 1 \in DOMAIN s /\ Head(s) = s[1]
  <2>1. s \in Seq(Host) /\ Len(s) = k
    BY <1>1, <1>3, IsASeq
  <2>2. k # 0
    BY <2>1, EmptySeq
  <2> QED BY <1>1, <1>3, <2>1, <2>2
<1> HIDE DEF s, g
<1>6. ASSUME NEW c \in DOMAIN g, NEW d \in DOMAIN g, Ovn!Before(c, d, s)
      PROVE  g[c] > g[d]
  <2>1. PICK i \in DOMAIN s, j \in DOMAIN s : i < j /\ s[i] = c /\ s[j] = d
    BY <1>6 DEF Ovn!Before
  <2>2. i \in Int /\ j \in Int
    BY <1>1
  <2>3. g[c] = MAX_PRIORITY - (i - 1) /\ g[d] = MAX_PRIORITY - (j - 1)
    BY <1>4, <2>1
  <2> QED BY <1>3, <2>1, <2>2, <2>3
<1>7. ASSUME Head(s) \in DOMAIN g, NEW c \in DOMAIN g
      PROVE  g[c] <= g[Head(s)]
  <2>1. g[Head(s)] = MAX_PRIORITY
    BY <1>3, <1>4, <1>5, <1>7
  <2> QED BY <1>2, <1>3, <2>1
<1> QED BY <1>6, <1>7 DEF s, g
----------------------------------------------------------------------------
LEMMA OvnNoGateways == ASSUME Ovn!OvnAssumption PROVE <<>> \in Ovn!Gateways
<1>1. 0 \in 0..Ovn!Cardinality(Host) /\ <<>> \in [1..0 -> Host]
  BY OvnChassisNumber
<1>2. Ovn!IsInjective(<<>>)
  BY DEF Ovn!IsInjective
<1> QED BY <1>1, <1>2 DEF Ovn!Gateways

LEMMA OvnInitOK == ASSUME Ovn!OvnAssumption PROVE Ovn!Init => OvnInv
<1> SUFFICES ASSUME Ovn!Init PROVE OvnInv
  OBVIOUS
<1>1. <<>> \in Ovn!Gateways /\ DOMAIN <<>> = {}
  BY OvnNoGateways
<1>2. Ovn!TypeOK
  BY <1>1 DEF Ovn!Init, Ovn!TypeOK
<1>3. \A n \in Network : aligned[n] = <<>>
  BY DEF Ovn!Init
<1>4. OrderInv
  BY <1>1, <1>3 DEF OrderInv, InLine
<1> QED BY <1>1, <1>2, <1>4 DEF Ovn!Init, OvnInv, RunTypes

LEMMA OvnFailoverOK ==
  ASSUME Ovn!OvnAssumption, OvnInv, NEW r \in Router, Ovn!Failover(r)
  PROVE  OvnInv'
<1>1. PICK s \in Ovn!Gateways : gateway' = [gateway EXCEPT ![r] = s]
  BY DEF Ovn!Failover
<1>2. UNCHANGED <<group, aligned, apply, routers, router, gateway_chassis, ha_chassis>>
  BY DEF Ovn!Failover, Ovn!run
<1>3. Ovn!TypeOK' /\ RunTypes'
  BY <1>1, <1>2 DEF OvnInv, Ovn!TypeOK, RunTypes
<1>4. OrderInv'
  BY <1>2 DEF OvnInv, OrderInv, InLine, Ovn!Pending
<1> QED BY <1>3, <1>4 DEF OvnInv

LEMMA OvnRestartOK ==
  ASSUME Ovn!OvnAssumption, OvnInv, NEW n \in Network, Ovn!Restart(n)
  PROVE  OvnInv'
<1>1. PICK g \in [DOMAIN group[n] -> Ovn!Priority] : group' = [group EXCEPT ![n] = g]
  BY DEF Ovn!Restart
<1>2. /\ aligned' = [aligned EXCEPT ![n] = <<>>]
      /\ UNCHANGED <<gateway, apply, routers, router, gateway_chassis, ha_chassis>>
  BY DEF Ovn!Restart, Ovn!run
<1>3. /\ group' \in [Network -> Ovn!Group] /\ \A m \in Network : DOMAIN group'[m] = DOMAIN group[m]
      /\ \A m \in Network \ {n} : group'[m] = group[m]
  <2>1. group \in [Network -> Ovn!Group] /\ group[n] \in Ovn!Group
    BY DEF OvnInv, Ovn!TypeOK
  <2>2. PICK members \in SUBSET Host : group[n] \in [members -> Ovn!Priority]
    BY <2>1 DEF Ovn!Group
  <2>3. DOMAIN group[n] = members /\ DOMAIN g = members /\ g \in Ovn!Group
    BY <1>1, <2>2 DEF Ovn!Group
  <2> QED BY <1>1, <2>1, <2>3
<1>4. /\ aligned' \in [Network -> Ovn!Gateways] /\ aligned'[n] = <<>> /\ DOMAIN <<>> = {}
      /\ \A m \in Network \ {n} : aligned'[m] = aligned[m]
  BY <1>2, OvnNoGateways DEF OvnInv, Ovn!TypeOK
<1>5. Ovn!TypeOK' /\ RunTypes'
  <2>1. \A p \in ha_chassis : p[1] \in Network
    BY DEF OvnInv, Ovn!TypeOK, Ovn!OvnAssumption
  <2> QED BY <1>2, <1>3, <1>4, <2>1 DEF OvnInv, Ovn!TypeOK, RunTypes
<1>6. ASSUME NEW m \in Network PROVE InLine(m)'
  <2>1. CASE m = n
    BY <1>4, <2>1 DEF InLine
  <2>2. CASE m # n
    <3>1. aligned'[m] = aligned[m] /\ group'[m] = group[m]
      BY <1>3, <1>4, <2>2
    <3>2. InLine(m) /\ (Ovn!Pending(m)' <=> Ovn!Pending(m))
      BY <1>2 DEF OvnInv, OrderInv, Ovn!Pending
    <3> QED BY <1>2, <3>1, <3>2 DEF InLine
  <2> QED BY <2>1, <2>2
<1> QED BY <1>5, <1>6 DEF OvnInv, OrderInv
----------------------------------------------------------------------------
(* Steps of the script that set no priority. *)
LEMMA OvnBeginOK == ASSUME Ovn!OvnAssumption, OvnInv, Ovn!Begin PROVE OvnInv'
<1>1. router = None /\ UNCHANGED <<gateway, group, router, gateway_chassis, ha_chassis, aligned>>
  BY DEF Ovn!Begin
<1>2. ha_chassis = {}
  BY <1>1 DEF OvnInv, Ovn!TypeOK
<1>3. OrderInv'
  BY <1>1, <1>2 DEF OvnInv, OrderInv, InLine, Ovn!Pending
<1> QED BY <1>1, <1>3 DEF Ovn!Begin, OvnInv, Ovn!TypeOK, RunTypes

LEMMA OvnFailOK == ASSUME Ovn!OvnAssumption, OvnInv, Ovn!Fail PROVE OvnInv'
<1>1. /\ UNCHANGED <<gateway, group>>
      /\ aligned' = [n \in Network |-> IF Ovn!Pending(n) THEN <<>> ELSE aligned[n]]
      /\ apply' = FALSE /\ routers' = {} /\ router' = None
      /\ gateway_chassis' = <<>> /\ ha_chassis' = {}
  BY DEF Ovn!Fail
<1>2. <<>> \in Ovn!Gateways /\ DOMAIN <<>> = {}
  BY OvnNoGateways
<1>3. Ovn!TypeOK' /\ RunTypes'
  BY <1>1, <1>2 DEF OvnInv, Ovn!TypeOK, RunTypes
<1>4. ASSUME NEW n \in Network PROVE InLine(n)'
  <2>1. CASE Ovn!Pending(n)
    BY <1>1, <1>2, <2>1 DEF InLine, Ovn!Pending
  <2>2. CASE ~Ovn!Pending(n)
    <3>1. aligned'[n] = aligned[n] /\ ~Ovn!Pending(n)'
      BY <1>1, <2>2 DEF Ovn!Pending
    <3>2. \A i \in DOMAIN aligned[n] : aligned[n][i] \in Host
      <4>1. aligned[n] \in Ovn!Gateways
        BY DEF OvnInv, Ovn!TypeOK
      <4> QED BY <4>1, OvnGatewayList
    <3>3. \A i \in DOMAIN aligned[n] : ~(apply /\ <<n, aligned[n][i]>> \in ha_chassis)
      BY <2>2, <3>2 DEF Ovn!Pending
    <3> QED BY <1>1, <3>1, <3>3 DEF OvnInv, OrderInv, InLine
  <2> QED BY <2>1, <2>2
<1> QED BY <1>3, <1>4 DEF OvnInv, OrderInv

LEMMA OvnPassOverOK ==
  ASSUME Ovn!OvnAssumption, OvnInv, NEW r \in Router, Ovn!PassOver(r)
  PROVE  OvnInv'
<1>1. UNCHANGED <<gateway, group, apply, router, gateway_chassis, ha_chassis, aligned>>
      /\ routers' \subseteq routers
  BY DEF Ovn!PassOver, Ovn!Take
<1>2. OrderInv'
  BY <1>1 DEF OvnInv, OrderInv, InLine, Ovn!Pending
<1> QED BY <1>1, <1>2 DEF OvnInv, Ovn!TypeOK, RunTypes

LEMMA OvnReadGatewayOK ==
  ASSUME Ovn!OvnAssumption, OvnInv, NEW r \in Router, Ovn!ReadGateway(r)
  PROVE  OvnInv'
<1>1. /\ router = None /\ router' = r /\ gateway_chassis' = gateway[r]
      /\ ha_chassis' = UNION {{n} \X DOMAIN group[n] : n \in Attached[r]}
      /\ aligned' = [n \in Network |-> IF apply /\ n \in Attached[r] THEN gateway[r]
                                        ELSE aligned[n]]
      /\ UNCHANGED <<gateway, group, apply>> /\ routers' \subseteq routers
  BY DEF Ovn!ReadGateway, Ovn!Take
<1>2. Ovn!TypeOK'
  BY <1>1 DEF OvnInv, Ovn!TypeOK, Ovn!OvnAssumption
<1>3. RunTypes'
  BY <1>1 DEF OvnInv, Ovn!TypeOK, RunTypes
<1>4. ASSUME NEW n \in Network PROVE InLine(n)'
  <2>1. CASE apply /\ n \in Attached[r]
    <3>1. \A c \in DOMAIN group[n] : <<n, c>> \in ha_chassis'
      BY <1>1, <2>1
    <3>2. aligned'[n] = gateway_chassis'
      BY <1>1, <2>1
    <3> QED BY <1>1, <2>1, <3>1, <3>2 DEF InLine
  <2>2. CASE ~(apply /\ n \in Attached[r])
    <3>1. aligned'[n] = aligned[n]
      BY <1>1, <2>2
    <3>2. ~Ovn!Pending(n)'
      <4>1. ASSUME NEW c, <<n, c>> \in ha_chassis' PROVE n \in Attached[r]
        <5>1. PICK m \in Attached[r] : <<n, c>> \in {m} \X DOMAIN group[m]
          BY <1>1, <4>1
        <5> QED BY <5>1
      <4> QED BY <1>1, <2>2, <4>1 DEF Ovn!Pending
    <3>3. ha_chassis = {}
      BY <1>1 DEF OvnInv, Ovn!TypeOK
    <3> QED BY <1>1, <3>1, <3>2, <3>3 DEF OvnInv, OrderInv, InLine
  <2> QED BY <2>1, <2>2
<1> QED BY <1>2, <1>3, <1>4 DEF OvnInv, OrderInv

(* Priorities are set in groups of the router's networks, to what is said. *)
LEMMA OvnSetPriorityOK ==
  ASSUME Ovn!OvnAssumption, OvnInv, NEW n \in Network, NEW c \in Host, Ovn!SetPriority(n, c)
  PROVE  OvnInv'
<1>1. /\ <<n, c>> \in ha_chassis /\ ha_chassis' = ha_chassis \ {<<n, c>>}
      /\ UNCHANGED <<gateway, apply, routers, router, gateway_chassis, aligned>>
  BY DEF Ovn!SetPriority
<1>2. router \in Router /\ n \in Attached[router] /\ c \in DOMAIN group[n]
  BY <1>1 DEF OvnInv, Ovn!TypeOK
<1> DEFINE sets == apply /\ c \in Ovn!Range(gateway_chassis)
<1>3. group' = IF sets THEN [group EXCEPT ![n][c] = Ovn!DesiredPriority(c)] ELSE group
  BY DEF Ovn!SetPriority
<1>4. PICK members \in SUBSET Host : group[n] \in [members -> Ovn!Priority]
  BY DEF OvnInv, Ovn!TypeOK, Ovn!Group
<1>5. /\ group' \in [Network -> Ovn!Group] /\ \A m \in Network : DOMAIN group'[m] = DOMAIN group[m]
      /\ \A m \in Network \ {n} : group'[m] = group[m]
      /\ \A d \in DOMAIN group[n] \ {c} : group'[n][d] = group[n][d]
      /\ sets => group'[n][c] = Ovn!DesiredPriority(c)
      /\ ~sets => group' = group
  <2>1. CASE sets
    <3>1. Ovn!DesiredPriority(c) \in Ovn!Priority
      BY <2>1, OvnPlaces DEF OvnInv, RunTypes, Ovn!Range
    <3> DEFINE g == [group[n] EXCEPT ![c] = Ovn!DesiredPriority(c)]
    <3>2. g \in [members -> Ovn!Priority] /\ g[c] = Ovn!DesiredPriority(c)
          /\ \A d \in DOMAIN group[n] \ {c} : g[d] = group[n][d]
      BY <1>2, <1>4, <3>1
    <3>3. group' = [group EXCEPT ![n] = g]
      BY <1>3, <2>1
    <3> HIDE DEF g
    <3>4. g \in Ovn!Group /\ DOMAIN g = DOMAIN group[n]
      BY <1>4, <3>2 DEF Ovn!Group
    <3> QED BY <2>1, <3>2, <3>3, <3>4 DEF OvnInv, Ovn!TypeOK
  <2>2. CASE ~sets
    BY <1>3, <2>2 DEF OvnInv, Ovn!TypeOK
  <2> QED BY <2>1, <2>2
<1> HIDE DEF sets
<1>6. Ovn!TypeOK' /\ RunTypes'
  <2>1. \A p \in ha_chassis : p[1] \in Network
    BY DEF OvnInv, Ovn!TypeOK, Ovn!OvnAssumption
  <2> QED BY <1>1, <1>2, <1>5, <2>1 DEF OvnInv, Ovn!TypeOK, RunTypes
<1>7. ASSUME NEW m \in Network PROVE Ovn!Pending(m)' => Ovn!Pending(m)
  BY <1>1 DEF Ovn!Pending
<1>8. Ovn!Pending(n) <=> apply
  BY <1>1 DEF Ovn!Pending
<1>9. ASSUME NEW m \in Network, NEW i \in DOMAIN aligned[m], aligned[m][i] \in DOMAIN group[m]
      PROVE  \/ apply /\ <<m, aligned[m][i]>> \in ha_chassis'
             \/ group'[m][aligned[m][i]] = MAX_PRIORITY - (i - 1)
  <2> DEFINE d == aligned[m][i]
  <2>1. (apply /\ <<m, d>> \in ha_chassis) \/ group[m][d] = MAX_PRIORITY - (i - 1)
    BY <1>9 DEF OvnInv, OrderInv, InLine
  <2>2. CASE apply /\ m = n /\ d = c
    <3>1. aligned[n] # <<>>
      BY <2>2
    <3>2. aligned[n] = gateway_chassis
      BY <1>8, <2>2, <3>1 DEF OvnInv, OrderInv, InLine
    <3>3. i \in DOMAIN gateway_chassis /\ gateway_chassis[i] = c
      BY <2>2, <3>2
    <3>4. sets /\ Ovn!DesiredPriority(c) = MAX_PRIORITY - (i - 1)
      BY <2>2, <3>3, OvnPlaces DEF sets, Ovn!Range, OvnInv, RunTypes
    <3> QED BY <1>5, <2>2, <3>4
  <2>3. CASE ~apply
    BY <1>5, <2>1, <2>3 DEF sets
  <2>4. CASE ~(m = n /\ d = c)
    <3>1. group'[m][d] = group[m][d]
      BY <1>5, <1>9, <2>4
    <3> QED BY <1>1, <2>1, <2>4, <3>1
  <2> QED BY <2>2, <2>3, <2>4
<1>10. OrderInv'
  <2>1. ASSUME NEW m \in Network, Ovn!Pending(m)', aligned[m] # <<>> PROVE aligned[m] = gateway_chassis
    BY <1>7, <2>1 DEF OvnInv, OrderInv, InLine
  <2> QED BY <1>1, <1>5, <1>9, <2>1 DEF OrderInv, InLine
<1> QED BY <1>6, <1>10 DEF OvnInv

(* The groups of a router's networks are all set when it is done.          *)
LEMMA OvnRouterDoneOK == ASSUME Ovn!OvnAssumption, OvnInv, Ovn!RouterDone PROVE OvnInv'
<1>1. /\ router # None /\ ha_chassis = {} /\ router' = None /\ gateway_chassis' = <<>>
      /\ apply' = (apply /\ routers # {})
      /\ UNCHANGED <<gateway, group, routers, ha_chassis, aligned>>
  BY DEF Ovn!RouterDone
<1>2. Ovn!TypeOK' /\ RunTypes'
  BY <1>1, OvnNoGateways DEF OvnInv, Ovn!TypeOK, RunTypes
<1>3. OrderInv'
  BY <1>1 DEF OvnInv, OrderInv, InLine, Ovn!Pending
<1> QED BY <1>2, <1>3 DEF OvnInv

LEMMA OvnStutterOK == ASSUME OvnInv, UNCHANGED Ovn!vars PROVE OvnInv'
<1>1. UNCHANGED <<gateway, group, apply, routers, router, gateway_chassis, ha_chassis, aligned>>
  BY DEF Ovn!vars, Ovn!run
<1>2. OrderInv'
  BY <1>1 DEF OvnInv, OrderInv, InLine, Ovn!Pending
<1> QED BY <1>1, <1>2 DEF OvnInv, Ovn!TypeOK, RunTypes

(* Which gateways' order each group has, and which priorities of it have   *)
(* still to be set, at any time.                                           *)
THEOREM OvnInductive == ASSUME Ovn!OvnAssumption PROVE Ovn!Spec => []OvnInv
<1>1. OvnInv /\ [Ovn!Next]_(Ovn!vars) => OvnInv'
  BY OvnBeginOK, OvnFailOK, OvnRouterDoneOK, OvnFailoverOK, OvnPassOverOK, OvnReadGatewayOK,
     OvnRestartOK,
     OvnSetPriorityOK, OvnStutterOK DEF Ovn!Next
<1> QED BY OvnInitOK, <1>1, PTL DEF Ovn!Spec

(* Types, and that only chassis of the router's networks are to be set, to *)
(* priorities that OVN takes.                                              *)
THEOREM OvnTypeCorrect == ASSUME Ovn!OvnAssumption PROVE Ovn!Spec => []Ovn!TypeOK
<1>1. OvnInv => Ovn!TypeOK
  BY DEF OvnInv
<1> QED BY <1>1, OvnInductive, PTL

(* "for each router, the HA chassis backing its internal networks is       *)
(* aligned with the chassis currently hosting the router's external        *)
(* gateway interface": in a group that was set, whatever failed over since *)
(* the gateways were read and whichever routers share the network, no      *)
(* chassis comes before the active gateway and the others follow it.       *)
THEOREM OvnGatewaysInOrder == ASSUME Ovn!OvnAssumption PROVE Ovn!Spec => []Ovn!GatewaysLead
<1>1. OvnInv => Ovn!GatewaysLead
  BY OvnAllSet DEF Ovn!GatewaysLead
<1> QED BY <1>1, OvnInductive, PTL
----------------------------------------------------------------------------
(* A step of one set of playbooks is none of another's.                    *)
LEMMA OneAtATime ==
  ASSUME [NextPlaybooks]_allvars
  PROVE  /\ [Next]_vars /\ [Secrets!Next]_(Secrets!vars)
         /\ [Amphora!Next]_(Amphora!vars) /\ [Ovn!Next]_(Ovn!vars)
<1>1. /\ UNCHANGED compute <=> UNCHANGED vars
      /\ UNCHANGED secrets => UNCHANGED Secrets!vars
      /\ UNCHANGED amphora => UNCHANGED Amphora!vars
      /\ UNCHANGED ovn => UNCHANGED Ovn!vars
  BY DEF compute, secrets, amphora, ovn, Secrets!vars, Secrets!config, Secrets!history,
     Amphora!vars, Ovn!vars, Ovn!run
<1>2. CASE UNCHANGED allvars
  BY <1>1, <1>2 DEF allvars
<1> QED BY <1>1, <1>2 DEF NextPlaybooks

(* A behaviour of all the playbooks is one of each set: none of them reads *)
(* or writes what another one keeps.                                       *)
THEOREM EachBySelf == SpecPlaybooks => Spec /\ Secrets!Spec /\ Amphora!Spec /\ Ovn!Spec
<1>1. InitPlaybooks => Init /\ Secrets!Init /\ Amphora!Init /\ Ovn!Init
  BY DEF InitPlaybooks
<1> QED
  BY <1>1, OneAtATime, PTL DEF SpecPlaybooks, Spec, Secrets!Spec, Amphora!Spec, Ovn!Spec

(* The state that the tasks of each set of playbooks share is as they      *)
(* expect it, whichever runs and wherever it is cut short.                 *)
THEOREM AllTypesCorrect == SpecPlaybooks => []TypesOK
<1>1. SecretsInv => Secrets!TypeOK
  BY SecretsFacts
<1>2. TypeOK /\ Secrets!TypeOK /\ Amphora!TypeOK /\ Ovn!TypeOK => TypesOK
  BY DEF TypesOK
<1>3. Secrets!Spec => []Secrets!TypeOK
  BY <1>1, SecretsInductive, PTL
<1>4. Amphora!Spec => []Amphora!TypeOK
  BY AmphoraTypeCorrect, PlaybooksAssumption
<1>5. Ovn!Spec => []Ovn!TypeOK
  BY OvnTypeCorrect, PlaybooksAssumption
<1> QED BY EachBySelf, ComputeTypeCorrect, <1>2, <1>3, <1>4, <1>5, PTL

(* Keys, certificates and the CA survive any number of migrations that are *)
(* cut short at any task.                                                  *)
THEOREM NothingLost == SpecPlaybooks => []MaterialNeverLost
<1>1. SecretsInv => MaterialNeverLost
  BY SecretsFacts DEF MaterialNeverLost
<1> QED BY EachBySelf, SecretsInductive, <1>1, PTL

(* The configuration names a store whose files are where its playbooks     *)
(* look for them, unless a removal was cut short; and it says OpenBao only *)
(* if both servers run it, unless it was changed by itself too early.      *)
THEOREM ConfigurationFits == SpecPlaybooks => []ConfigFits
<1>1. SecretsInv => ConfigFits
  BY SecretsFacts DEF ConfigFits
<1> QED BY EachBySelf, SecretsInductive, <1>1, PTL

(* After a run that ended well Octavia boots amphorae of the file's        *)
(* version, for any number of versions and images.                         *)
THEOREM FileIsChosen == SpecPlaybooks => []ChosenIsFile
<1>1. Amphora!Spec => []Amphora!ChosenIsFile
  BY AmphoraFileChosen, PlaybooksAssumption
<1>2. Amphora!ChosenIsFile => ChosenIsFile
  BY DEF ChosenIsFile
<1> QED BY EachBySelf, <1>1, <1>2, PTL

(* The active gateway leads a group that was set and the other gateways    *)
(* follow, for any routers, networks and chassis.                          *)
THEOREM GatewaysFirst == SpecPlaybooks => []GatewaysLead
<1>1. Ovn!Spec => []Ovn!GatewaysLead
  BY OvnGatewaysInOrder, PlaybooksAssumption
<1>2. Ovn!GatewaysLead => GatewaysLead
  BY DEF GatewaysLead
<1> QED BY EachBySelf, <1>1, <1>2, PTL

(* What maintenance promises of hosts holds beside the other playbooks: an *)
(* operator's wish, the emptiness of what was drained, and the closed      *)
(* batch.                                                                  *)
THEOREM HostsKept == SpecPlaybooks => [](RecordedWishKept /\ DrainedStaysEmpty /\ BatchIsClosed)
BY EachBySelf, WishKept, StaysEmpty, BatchClosed, PTL
============================================================================
