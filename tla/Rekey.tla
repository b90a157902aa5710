------------------------------- MODULE Rekey -------------------------------
(***************************************************************************)
(* etc/kayobe/ansible/maintenance/rekey-hosts.yml: rotate the SSH key with *)
(* which the control host logs in to all hosts.  A run generates a key,    *)
(* authorises it on the hosts, moves the existing key out of the way and   *)
(* the new one in its place; a run with -t remove-key, or the same run,    *)
(* removes the old key from the hosts.                                     *)
(*                                                                         *)
(* A host that fails a task drops out of the run, and the tasks on the     *)
(* control host go on as long as one host is left.  The run may be         *)
(* interrupted between any two tasks; what it leaves is what the next run  *)
(* starts from.                                                            *)
(***************************************************************************)
EXTENDS Naturals, FiniteSets

CONSTANTS
  Host,
  MaxKey     \* bound: keys generated, the first one included

User == {"stack", "kolla"}          \* rekey_users
AnsibleUser == "stack"

(* ssh_private_key_path, the same with _new, and deprecated_key_path. *)
Place == {"existing", "new", "deprecated"}

Key == 1..MaxKey
None == 0

ASSUME RekeyAssumption == MaxKey \in Nat \ {0}

VARIABLES
  private, public, \* the key in each file on the control host, or None
  authorized,      \* authorized_keys of each user on each host
  generated,       \* keys generated so far
  task,            \* the task the playbook is at, or "idle"
  remove,          \* rekey_remove_existing_key
  play_hosts,      \* hosts that have not failed a task of this run
  todo,            \* hosts that have the task still to do
  replaced,        \* history: times an existing key was moved away
  missed           \* history: value of replaced, for each host, when the first
                   \* rotation that it missed moved the key (None: missed none)

vars == <<private, public, authorized, generated, task, remove, play_hosts,
          todo, replaced, missed>>

files == <<private, public, generated>>
history == <<replaced, missed>>

CanLogin(h) == private["existing"] # None /\ private["existing"] \in authorized[h][AnsibleUser]

Task == {"idle", "stat", "generate", "authorize", "deprecate_private",
         "deprecate_public", "promote_private", "promote_public", "stat_old", "remove"}

Init ==
  /\ private = [p \in Place |-> IF p = "existing" THEN 1 ELSE None]
  /\ public = private
  /\ authorized = [h \in Host |-> [u \in User |-> {1}]]
  /\ generated = 1
  /\ task = "idle"
  /\ remove = FALSE
  /\ play_hosts = {}
  /\ todo = {}
  /\ replaced = 0
  /\ missed = [h \in Host |-> None]
----------------------------------------------------------------------------
(* A run of the whole playbook, or of the tag remove-key only. *)
Start ==
  /\ task = "idle"
  /\ \/ task' = "stat" /\ remove' \in BOOLEAN
     \/ task' = "stat_old" /\ remove' = TRUE
  /\ play_hosts' = Host
  /\ UNCHANGED <<files, authorized, todo, history>>

(* The run ends, at any task: interrupted, a local task fails, or no host  *)
(* is left.                                                                *)
Stop ==
  /\ task # "idle"
  /\ task' = "idle"
  /\ UNCHANGED <<files, authorized, remove, play_hosts, todo, history>>

(* Both files of the existing key must be there. *)
StatExisting ==
  /\ task = "stat"
  /\ task' = IF private["existing"] # None /\ public["existing"] # None
             THEN "generate" ELSE "idle"
  /\ UNCHANGED <<files, authorized, remove, play_hosts, todo, history>>

(* openssh_keypair keeps a key pair that an earlier run has left. *)
GenerateKey ==
  /\ task = "generate"
  /\ IF private["new"] # None
       THEN UNCHANGED <<private, generated>>
       ELSE /\ generated < MaxKey
            /\ generated' = generated + 1
            /\ private' = [private EXCEPT !["new"] = generated']
  /\ public' = [public EXCEPT !["new"] = private'["new"]]
  /\ task' = "authorize"
  /\ todo' = play_hosts
  /\ UNCHANGED <<authorized, remove, play_hosts, history>>

(* Fault: a host fails only for the user that Ansible logs in as.          *)
AuthorizeForLogin(h) ==
  /\ task = "authorize" /\ h \in todo
  /\ todo' = todo \ {h}
  /\ \E done \in SUBSET User :
       /\ ~CanLogin(h) => done = {}
       /\ authorized' = [authorized EXCEPT ![h] =
            [u \in User |-> IF u \in done THEN @[u] \cup {public["new"]} ELSE @[u]]]
       /\ play_hosts' = IF AnsibleUser \in done THEN play_hosts ELSE play_hosts \ {h}
  /\ UNCHANGED <<files, task, remove, history>>

(* Set new authorized keys, for one user after the other: a host that      *)
(* cannot be reached, or fails for a user, drops out.                      *)
AuthorizeKey(h) ==
  /\ task = "authorize" /\ h \in todo
  /\ todo' = todo \ {h}
  /\ \E done \in SUBSET User :
       /\ ~CanLogin(h) => done = {}
       /\ authorized' = [authorized EXCEPT ![h] =
            [u \in User |-> IF u \in done THEN @[u] \cup {public["new"]} ELSE @[u]]]
       /\ play_hosts' = IF done = User THEN play_hosts ELSE play_hosts \ {h}
  /\ UNCHANGED <<files, task, remove, history>>

Move(f, from, to) == [f EXCEPT ![from] = None, ![to] = f[from]]

(* Faults: the existing key is copied; it is removed for the new one.      *)
DeprecateByCopying ==
  /\ task = "deprecate_private"
  /\ private' = [private EXCEPT !["deprecated"] = private["existing"]]
  /\ task' = "deprecate_public"
  /\ replaced' = replaced + 1
  /\ missed' = [h \in Host |-> IF h \notin play_hosts /\ missed[h] = None
                               THEN replaced' ELSE missed[h]]
  /\ UNCHANGED <<public, generated, authorized, remove, play_hosts, todo>>

DeprecateByRemoving ==
  /\ task = "deprecate_private"
  /\ private' = [private EXCEPT !["existing"] = None]
  /\ task' = "deprecate_public"
  /\ replaced' = replaced + 1
  /\ missed' = [h \in Host |-> IF h \notin play_hosts /\ missed[h] = None
                               THEN replaced' ELSE missed[h]]
  /\ UNCHANGED <<public, generated, authorized, remove, play_hosts, todo>>

(* mv overwrites what an earlier rotation left at deprecated_key_path. *)
DeprecatePrivate ==
  /\ task = "deprecate_private"
  /\ private' = Move(private, "existing", "deprecated")
  /\ task' = "deprecate_public"
  /\ replaced' = replaced + 1
  /\ missed' = [h \in Host |-> IF h \notin play_hosts /\ missed[h] = None
                               THEN replaced' ELSE missed[h]]
  /\ UNCHANGED <<public, generated, authorized, remove, play_hosts, todo>>

DeprecatePublic ==
  /\ task = "deprecate_public"
  /\ public' = Move(public, "existing", "deprecated")
  /\ task' = "promote_private"
  /\ UNCHANGED <<private, generated, authorized, remove, play_hosts, todo, history>>

PromotePrivate ==
  /\ task = "promote_private"
  /\ private' = Move(private, "new", "existing")
  /\ task' = "promote_public"
  /\ UNCHANGED <<public, generated, authorized, remove, play_hosts, todo, history>>

PromotePublic ==
  /\ task = "promote_public"
  /\ public' = Move(public, "new", "existing")
  /\ task' = IF remove THEN "stat_old" ELSE "idle"
  /\ UNCHANGED <<private, generated, authorized, remove, play_hosts, todo, history>>

StatOld ==
  /\ task = "stat_old"
  /\ task' = IF public["deprecated"] # None THEN "remove" ELSE "idle"
  /\ todo' = play_hosts
  /\ UNCHANGED <<files, authorized, remove, play_hosts, history>>

(* Fault: the public key is looked up at the path of the existing key. *)
RemoveExisting(h) ==
  /\ task = "remove" /\ h \in todo
  /\ todo' = todo \ {h}
  /\ \E done \in SUBSET User :
       /\ ~CanLogin(h) => done = {}
       /\ authorized' = [authorized EXCEPT ![h] =
            [u \in User |-> IF u \in done THEN @[u] \ {public["existing"]} ELSE @[u]]]
       /\ play_hosts' = IF done = User THEN play_hosts ELSE play_hosts \ {h}
  /\ UNCHANGED <<files, task, remove, history>>

RemoveOld(h) ==
  /\ task = "remove" /\ h \in todo
  /\ todo' = todo \ {h}
  /\ \E done \in SUBSET User :
       /\ ~CanLogin(h) => done = {}
       /\ authorized' = [authorized EXCEPT ![h] =
            [u \in User |-> IF u \in done THEN @[u] \ {public["deprecated"]} ELSE @[u]]]
       /\ play_hosts' = IF done = User THEN play_hosts ELSE play_hosts \ {h}
  /\ UNCHANGED <<files, task, remove, history>>

(* Every host has done the task; without a host left there is no next one. *)
HostsDone ==
  /\ task \in {"authorize", "remove"} /\ todo = {}
  /\ task' = IF task = "authorize" /\ play_hosts # {} THEN "deprecate_private" ELSE "idle"
  /\ UNCHANGED <<files, authorized, remove, play_hosts, todo, history>>

Next ==
  \/ Start \/ Stop \/ StatExisting \/ GenerateKey \/ DeprecatePrivate \/ DeprecatePublic
  \/ PromotePrivate \/ PromotePublic \/ StatOld \/ HostsDone
  \/ \E h \in Host : AuthorizeKey(h) \/ RemoveOld(h)

Spec == Init /\ [][Next]_vars
----------------------------------------------------------------------------
(* Files hold keys that were generated; a private key is never in two.     *)
TypeOK ==
  /\ generated \in Key
  /\ private \in [Place -> 0..generated] /\ public \in [Place -> 0..generated]
  /\ \A p, q \in Place : private[p] = private[q] /\ private[p] # None => p = q
  /\ authorized \in [Host -> [User -> SUBSET (1..generated)]]
  /\ task \in Task /\ remove \in BOOLEAN
  /\ todo \subseteq Host /\ play_hosts \subseteq Host
  /\ replaced \in 0..generated
  /\ missed \in [Host -> 0..replaced]

(* The user the playbook logs in as can be reached, on every host, with a  *)
(* private key that is still on the control host, wherever a run was       *)
(* interrupted and whichever hosts it missed: a host is locked out only by *)
(* another rotation after the one it missed.                               *)
KeysAtHand == {private[p] : p \in Place} \ {None}

NoLockoutByOneRotation ==
  \A h \in Host : missed[h] \in {None, replaced} =>
    KeysAtHand \cap authorized[h][AnsibleUser] # {}

(* Every user of a host that no rotation missed accepts a private key that *)
(* is on the control host, also after the old key was removed: a user is   *)
(* left without one only where the host failed for some user, and the run  *)
(* went on without the host.                                               *)
EveryUserKept ==
  \A h \in Host, u \in User : missed[h] = None => KeysAtHand \cap authorized[h][u] # {}

(* No host ever loses the key that the control host logs in with, even     *)
(* when a run that only removes the old key follows one cut short.         *)
KeyInUseStays ==
  [][\A h \in Host, u \in User :
       private["existing"] \in authorized[h][u] => private["existing"] \in authorized'[h][u]]_vars
============================================================================
