---------------------------- MODULE OvnPriorities ----------------------------
(***************************************************************************)
(* etc/kayobe/ansible/fixes/ovn-fix-chassis-priorities.yml: give the       *)
(* chassis of a network's HA group the order that they have as gateways of *)
(* the network's router.  A shell script with set -e on the leader of the  *)
(* northbound database, which may fail anywhere; meanwhile Neutron changes *)
(* gateways and a restart of OVN changes priorities.                       *)
(***************************************************************************)
EXTENDS Integers, Sequences, FiniteSets, SequencesExt

CONSTANTS
  Router, Network, Chassis,
  Attached,     \* the networks of each router
  MAX_PRIORITY,
  None          \* no router

(* Of the constants; Playbooks asserts it.                               *)
OvnAssumption ==
  /\ Attached \in [Router -> SUBSET Network] /\ IsFiniteSet(Chassis)
  /\ MAX_PRIORITY \in Nat /\ None \notin Router

VARIABLES
  gateway,      \* gateway chassis of each router's external port, best first
  group,        \* ha_chassis of each network's group: the chassis' priorities
  apply,        \* apply_updates
  routers,      \* routers that the loop has still to do
  router,       \* the router at hand
  gateway_chassis, \* its gateways, as they were read
  ha_chassis,   \* pairs of a network and a chassis of its group still to do
  aligned       \* history: the gateways, as they were read, that each group was
                \* last brought in line with; <<>> once others changed the group

run == <<apply, routers, router, gateway_chassis, ha_chassis>>
vars == <<gateway, group, run, aligned>>

Gateways == {s \in UNION {[1..n -> Chassis] : n \in 0..Cardinality(Chassis)} : IsInjective(s)}
Priority == MAX_PRIORITY - Cardinality(Chassis) + 1..MAX_PRIORITY
Group == UNION {[members -> Priority] : members \in SUBSET Chassis}

Init ==
  /\ gateway \in [Router -> Gateways]
  /\ group \in [Network -> Group]
  /\ apply = FALSE /\ routers = {} /\ router = None
  /\ gateway_chassis = <<>> /\ ha_chassis = {}
  /\ aligned = [n \in Network |-> <<>>]
----------------------------------------------------------------------------
Failover(r) ==
  /\ \E s \in Gateways : gateway' = [gateway EXCEPT ![r] = s]
  /\ UNCHANGED <<group, run, aligned>>

Restart(n) ==
  /\ \E g \in [DOMAIN group[n] -> Priority] : group' = [group EXCEPT ![n] = g]
  /\ aligned' = [aligned EXCEPT ![n] = <<>>]
  /\ UNCHANGED <<gateway, run>>
----------------------------------------------------------------------------
(* There must be one leader.                                               *)
Begin ==
  /\ routers = {} /\ router = None
  /\ routers' = Router
  /\ apply' \in BOOLEAN
  /\ UNCHANGED <<gateway, group, router, gateway_chassis, ha_chassis, aligned>>

(* Groups in which the script has still to set priorities.                 *)
Pending(n) == apply /\ \E c \in Chassis : <<n, c>> \in ha_chassis

(* set -e, or another leader: what was set stays.                          *)
Fail ==
  /\ routers # {} \/ router # None
  /\ apply' = FALSE /\ routers' = {} /\ router' = None
  /\ gateway_chassis' = <<>> /\ ha_chassis' = {}
  /\ aligned' = [n \in Network |-> IF Pending(n) THEN <<>> ELSE aligned[n]]
  /\ UNCHANGED <<gateway, group>>

Take(r) == router = None /\ r \in routers /\ routers' = routers \ {r}

(* A router whose gateways cannot be read, or that has none.               *)
PassOver(r) ==
  /\ Take(r)
  /\ UNCHANGED <<gateway, group, apply, router, gateway_chassis, ha_chassis, aligned>>

(* The external port's gateways, and what the groups hold.                 *)
ReadGateway(r) ==
  /\ gateway[r] # <<>> /\ Take(r)
  /\ router' = r
  /\ gateway_chassis' = gateway[r]
  /\ ha_chassis' = UNION {{n} \X DOMAIN group[n] : n \in Attached[r]}
  /\ aligned' = [n \in Network |-> IF apply /\ n \in Attached[r] THEN gateway[r] ELSE aligned[n]]
  /\ UNCHANGED <<gateway, group, apply>>

Index(c) == CHOOSE i \in DOMAIN gateway_chassis : gateway_chassis[i] = c

(* Fault: the index is not counted up. *)
SamePriority(c) == MAX_PRIORITY

(* The first chassis in the list is the active gateway.                    *)
DesiredPriority(c) == MAX_PRIORITY - (Index(c) - 1)

(* A chassis that is no gateway of the router keeps its priority.          *)
SetPriority(n, c) ==
  /\ <<n, c>> \in ha_chassis
  /\ ha_chassis' = ha_chassis \ {<<n, c>>}
  /\ group' = IF apply /\ c \in Range(gateway_chassis)
              THEN [group EXCEPT ![n][c] = DesiredPriority(c)] ELSE group
  /\ UNCHANGED <<gateway, apply, routers, router, gateway_chassis, aligned>>

RouterDone ==
  /\ router # None /\ ha_chassis = {}
  /\ router' = None /\ gateway_chassis' = <<>>
  /\ apply' = (apply /\ routers # {})
  /\ UNCHANGED <<gateway, group, routers, ha_chassis, aligned>>

Next ==
  \/ Begin \/ Fail \/ RouterDone
  \/ \E r \in Router : Failover(r) \/ PassOver(r) \/ ReadGateway(r)
  \/ \E n \in Network : Restart(n) \/ \E c \in Chassis : SetPriority(n, c)

Spec == Init /\ [][Next]_vars
----------------------------------------------------------------------------
TypeOK ==
  /\ gateway \in [Router -> Gateways] /\ group \in [Network -> Group]
  /\ routers \subseteq Router /\ router \in Router \cup {None}
  /\ router = None => ha_chassis = {}
  /\ \A p \in ha_chassis : p[1] \in Attached[router] /\ p[2] \in DOMAIN group[p[1]]
  /\ aligned \in [Network -> Gateways]

(* "for each router, the HA chassis backing its internal networks is       *)
(* aligned with the chassis currently hosting the router's external        *)
(* gateway interface": whatever failed over meanwhile, and whichever       *)
(* routers share the network, a group that the script has been through has *)
(* the gateways that were read for it last in their order, and no chassis  *)
(* of it comes before the active one.  One that is no gateway of that      *)
(* router may be level with it: nothing takes its priority down.           *)
Before(c, d, s) == \E i, j \in DOMAIN s : i < j /\ s[i] = c /\ s[j] = d

GatewaysLead ==
  \A n \in Network : aligned[n] # <<>> /\ ~Pending(n) =>
    LET active_gateway == Head(aligned[n])
    IN  /\ \A c, d \in DOMAIN group[n] :
             Before(c, d, aligned[n]) => group[n][c] > group[n][d]
        /\ active_gateway \in DOMAIN group[n] =>
             \A c \in DOMAIN group[n] : group[n][c] <= group[n][active_gateway]
============================================================================
