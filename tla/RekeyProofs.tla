---------------------------- MODULE RekeyProofs ----------------------------
(***************************************************************************)
(* Proofs about Rekey, for every set of hosts and every number of          *)
(* rotations: runs cut short anywhere neither lock a host out nor remove   *)
(* the key in use.                                                         *)
(***************************************************************************)
EXTENDS Rekey, TLAPS

(* What the task at hand knows of the files. *)
FilesInv ==
  /\ task \in {"generate", "authorize", "deprecate_private"} => private["existing"] # None
  /\ task \in {"authorize", "deprecate_private", "deprecate_public", "promote_private"} =>
       private["new"] # None /\ public["new"] = private["new"]
  /\ task \in {"deprecate_public", "promote_private"} => private["existing"] = None
  /\ task = "promote_public" => private["new"] = None
  /\ private["existing"] = None => private["new"] # None

(* The new key is newer than any other. *)
NewestInv ==
  /\ private["new"] # None =>
       /\ private["existing"] < private["new"] /\ private["deprecated"] < private["new"]
       /\ public["existing"] < private["new"] /\ public["deprecated"] < private["new"]
  /\ private["deprecated"] # None => private["existing"] # private["deprecated"]

(* The public key that a removal would look up is not that of the key in use. *)
OldInv == public["deprecated"] # None => public["deprecated"] # private["existing"]

(* What the hosts accept: those that no rotation missed take the existing  *)
(* key or, while there is none, the new one; those that the last rotation  *)
(* missed take the deprecated key or the existing one.                     *)
Accepts(h, k) == k # None /\ k \in authorized[h][AnsibleUser]

HostsInv ==
  /\ \A h \in play_hosts \ todo :
       task \in {"authorize", "deprecate_private"} => Accepts(h, private["new"])
  /\ task = "deprecate_private" => todo = {}
  /\ \A h \in Host : missed[h] = None =>
       IF private["existing"] # None THEN Accepts(h, private["existing"])
                                     ELSE Accepts(h, private["new"])
  /\ \A h \in Host : missed[h] = replaced /\ missed[h] # None =>
       Accepts(h, private["deprecated"]) \/ Accepts(h, private["existing"])

(* The types, without the bounds that only model checking needs. *)
KeyTypes ==
  /\ generated \in Nat
  /\ private \in [Place -> 0..generated] /\ public \in [Place -> 0..generated]
  /\ authorized \in [Host -> [User -> SUBSET (1..generated)]]
  /\ todo \subseteq Host /\ play_hosts \subseteq Host
  /\ replaced \in Nat
  /\ missed \in [Host -> 0..replaced]

IInv == KeyTypes /\ FilesInv /\ NewestInv /\ OldInv /\ HostsInv
----------------------------------------------------------------------------
(* A step of one host: it changes the keys it accepts, and may drop out.   *)
LEMMA AuthorizeStep ==
  ASSUME IInv, NEW h \in Host, AuthorizeKey(h)
  PROVE  IInv'
<1>1. /\ UNCHANGED <<private, public, generated, task, remove, replaced, missed>>
      /\ task = "authorize" /\ todo' = todo \ {h}
      /\ play_hosts' \subseteq play_hosts
      /\ public["new"] = private["new"] /\ private["new"] # None
  BY DEF AuthorizeKey, files, history, IInv, FilesInv
<1>2. PICK done \in SUBSET User :
        /\ authorized' = [authorized EXCEPT ![h] =
             [u \in User |-> IF u \in done THEN @[u] \cup {public["new"]} ELSE @[u]]]
        /\ play_hosts' = IF done = User THEN play_hosts ELSE play_hosts \ {h}
  BY DEF AuthorizeKey
<1>3. authorized' \in [Host -> [User -> SUBSET (1..generated)]]
  <2>1. public["new"] \in 1..generated
    BY <1>1 DEF IInv, KeyTypes, Place, None
  <2>2. \A u \in User : authorized[h][u] \cup {public["new"]} \in SUBSET (1..generated)
    BY <2>1 DEF IInv, KeyTypes
  <2>3. authorized'[h] \in [User -> SUBSET (1..generated)]
    BY <1>2, <2>2 DEF IInv, KeyTypes
  <2> QED BY <1>2, <2>2, <2>3 DEF IInv, KeyTypes
<1>4. \A g \in Host, u \in User : authorized[g][u] \subseteq authorized'[g][u]
  BY <1>2 DEF IInv, KeyTypes
<1>5. h \in play_hosts' => private["new"] \in authorized'[h][AnsibleUser]
  BY <1>1, <1>2 DEF IInv, KeyTypes, User, AnsibleUser
<1>6. KeyTypes'
  BY <1>1, <1>3 DEF IInv, KeyTypes
<1>7. FilesInv' /\ NewestInv' /\ OldInv'
  BY <1>1 DEF IInv, FilesInv, NewestInv, OldInv
<1>8. \A g \in Host, k \in Nat : Accepts(g, k) => Accepts(g, k)'
  BY <1>4 DEF Accepts, User, AnsibleUser
<1>9. private["existing"] \in Nat /\ private["new"] \in Nat /\ private["deprecated"] \in Nat
  BY DEF IInv, KeyTypes, Place
<1>10. HostsInv'
  BY <1>1, <1>5, <1>8, <1>9 DEF IInv, HostsInv, Accepts, KeyTypes
<1> QED BY <1>6, <1>7, <1>10 DEF IInv

LEMMA RemoveStep ==
  ASSUME IInv, NEW h \in Host, RemoveOld(h)
  PROVE  /\ IInv'
         /\ \A g \in Host, u \in User :
              private["existing"] \in authorized[g][u] => private["existing"] \in authorized'[g][u]
<1>1. /\ UNCHANGED <<private, public, generated, task, remove, replaced, missed>>
      /\ task = "remove" /\ todo' = todo \ {h} /\ play_hosts' \subseteq play_hosts
      /\ public["deprecated"] = None \/ public["deprecated"] # private["existing"]
  BY DEF RemoveOld, files, history, IInv, OldInv
<1>2. PICK done \in SUBSET User :
        /\ ~CanLogin(h) => done = {}
        /\ authorized' = [authorized EXCEPT ![h] =
             [u \in User |-> IF u \in done THEN @[u] \ {public["deprecated"]} ELSE @[u]]]
  BY DEF RemoveOld
<1>3. authorized' \in [Host -> [User -> SUBSET (1..generated)]]
  BY <1>1, <1>2 DEF IInv, KeyTypes
<1>4. \A g \in Host, u \in User : 0 \notin authorized[g][u]
  BY DEF IInv, KeyTypes
<1>5. \A g \in Host, u \in User :
        private["existing"] \in authorized[g][u] => private["existing"] \in authorized'[g][u]
  BY <1>1, <1>2, <1>4 DEF IInv, KeyTypes, None
<1>6. \A g \in Host \ {h} : authorized'[g] = authorized[g]
  BY <1>2 DEF IInv, KeyTypes
<1>7. CanLogin(h) \/ authorized'[h][AnsibleUser] = authorized[h][AnsibleUser]
  BY <1>2 DEF IInv, KeyTypes, User, AnsibleUser
<1>8. KeyTypes'
  BY <1>1, <1>3 DEF IInv, KeyTypes
<1>9. FilesInv' /\ NewestInv' /\ OldInv'
  BY <1>1 DEF IInv, FilesInv, NewestInv, OldInv
<1>10. AnsibleUser \in User
  BY DEF AnsibleUser, User
<1>11. ASSUME NEW g \in Host PROVE Accepts(g, private["existing"]) => Accepts(g, private["existing"])'
  BY <1>1, <1>5, <1>10 DEF Accepts
<1>12. ASSUME NEW g \in Host, ~Accepts(g, private["existing"])
       PROVE  authorized'[g][AnsibleUser] = authorized[g][AnsibleUser]
  BY <1>6, <1>7, <1>12 DEF Accepts, CanLogin
<1>13. HostsInv'
  <2>1. ASSUME NEW g \in Host, missed[g] = None
        PROVE  (IF private["existing"] # None THEN Accepts(g, private["existing"])
                                              ELSE Accepts(g, private["new"]))'
    <3>1. CASE private["existing"] # None
      BY <1>1, <1>11, <2>1, <3>1 DEF IInv, HostsInv
    <3>2. CASE private["existing"] = None
      BY <1>1, <1>12, <2>1, <3>2 DEF IInv, HostsInv, Accepts
    <3> QED BY <3>1, <3>2
  <2>2. ASSUME NEW g \in Host, missed[g] = replaced, missed[g] # None
        PROVE  Accepts(g, private["deprecated"])' \/ Accepts(g, private["existing"])'
    <3>1. CASE Accepts(g, private["existing"])
      BY <1>11, <3>1
    <3>2. CASE ~Accepts(g, private["existing"])
      BY <1>1, <1>12, <2>2, <3>2 DEF IInv, HostsInv, Accepts
    <3> QED BY <3>1, <3>2
  <2> QED BY <1>1, <2>1, <2>2 DEF HostsInv
<1> QED BY <1>5, <1>8, <1>9, <1>13 DEF IInv

(* The move that makes the existing key the deprecated one. *)
LEMMA DeprecateStep ==
  ASSUME IInv, DeprecatePrivate
  PROVE  IInv'
<1>1. /\ UNCHANGED <<public, generated, authorized, remove, play_hosts, todo>>
      /\ task = "deprecate_private" /\ task' = "deprecate_public"
      /\ replaced' = replaced + 1
      /\ missed' = [h \in Host |-> IF h \notin play_hosts /\ missed[h] = None
                                   THEN replaced' ELSE missed[h]]
  BY DEF DeprecatePrivate
<1>2. /\ private' \in [Place -> 0..generated]
      /\ private'["existing"] = None
      /\ private'["deprecated"] = private["existing"]
      /\ private'["new"] = private["new"]
  BY DEF DeprecatePrivate, Move, IInv, KeyTypes, Place, None
<1>3. KeyTypes'
  BY <1>1, <1>2 DEF IInv, KeyTypes, None
<1>4. FilesInv' /\ NewestInv' /\ OldInv'
  BY <1>1, <1>2 DEF IInv, FilesInv, NewestInv, OldInv, None, KeyTypes, Place
<1>5. ASSUME NEW h \in Host, missed'[h] = None
      PROVE  Accepts(h, private["new"])'
  <2>1. h \in play_hosts /\ todo = {}
    BY <1>1, <1>5 DEF IInv, HostsInv, KeyTypes, None
  <2> QED BY <1>1, <1>2, <2>1 DEF IInv, HostsInv, Accepts
<1>6. ASSUME NEW h \in Host, missed'[h] = replaced', missed'[h] # None
      PROVE  Accepts(h, private["deprecated"])'
  <2>1. missed[h] = None
    BY <1>1, <1>6 DEF IInv, KeyTypes
  <2>2. Accepts(h, private["existing"])
    BY <1>1, <2>1 DEF IInv, HostsInv, FilesInv
  <2> QED BY <1>1, <1>2, <2>2 DEF Accepts
<1> QED BY <1>1, <1>2, <1>3, <1>4, <1>5, <1>6 DEF IInv, HostsInv

(* What the hosts accept does not change when neither the keys nor the     *)
(* history of a host does, and the task is not one that the hosts share.   *)
LEMMA SameHosts ==
  ASSUME IInv, UNCHANGED <<private, authorized, replaced, missed>>,
         task' \notin {"authorize", "deprecate_private"}
  PROVE  HostsInv'
BY DEF IInv, HostsInv, Accepts

LEMMA GenerateStep ==
  ASSUME IInv, GenerateKey
  PROVE  IInv'
<1>1. /\ UNCHANGED <<authorized, remove, play_hosts, replaced, missed>>
      /\ task = "generate" /\ task' = "authorize" /\ todo' = play_hosts
      /\ public' = [public EXCEPT !["new"] = private'["new"]]
  BY DEF GenerateKey, history
<1>2. /\ generated' \in Nat /\ generated <= generated'
      /\ private' \in [Place -> 0..generated']
      /\ private'["existing"] = private["existing"]
      /\ private'["deprecated"] = private["deprecated"]
      /\ private'["new"] # None
      /\ \/ private'["new"] = private["new"]
         \/ private'["new"] = generated + 1
  <2>1. CASE private["new"] # None
    BY <2>1 DEF GenerateKey, IInv, KeyTypes
  <2>2. CASE private["new"] = None
    <3>1. /\ generated' = generated + 1
          /\ private' = [private EXCEPT !["new"] = generated']
      BY <2>2 DEF GenerateKey
    <3> QED BY <3>1 DEF IInv, KeyTypes, Place, None
  <2> QED BY <2>1, <2>2
<1>3. public' \in [Place -> 0..generated'] /\ public'["new"] = private'["new"]
      /\ public'["existing"] = public["existing"]
      /\ public'["deprecated"] = public["deprecated"]
  BY <1>1, <1>2 DEF IInv, KeyTypes, Place
<1>4. authorized' \in [Host -> [User -> SUBSET (1..generated')]]
  BY <1>1, <1>2 DEF IInv, KeyTypes
<1>5. KeyTypes'
  BY <1>1, <1>2, <1>3, <1>4 DEF IInv, KeyTypes
<1>6. private["existing"] # None
  BY <1>1 DEF IInv, FilesInv
<1>7. FilesInv' /\ OldInv'
  BY <1>1, <1>2, <1>3, <1>6 DEF IInv, FilesInv, OldInv
<1>8. NewestInv'
  BY <1>1, <1>2, <1>3 DEF IInv, NewestInv, KeyTypes, Place
<1>9. HostsInv'
  BY <1>1, <1>2, <1>6 DEF IInv, HostsInv, Accepts
<1> QED BY <1>5, <1>7, <1>8, <1>9 DEF IInv

(* The move that makes the new key the existing one. *)
LEMMA PromoteStep ==
  ASSUME IInv, PromotePrivate
  PROVE  IInv'
<1>1. /\ UNCHANGED <<public, generated, authorized, remove, play_hosts, todo, replaced, missed>>
      /\ task = "promote_private" /\ task' = "promote_public"
  BY DEF PromotePrivate, history
<1>2. /\ private["existing"] = None /\ private["new"] # None
      /\ private' \in [Place -> 0..generated]
      /\ private'["existing"] = private["new"]
      /\ private'["new"] = None
      /\ private'["deprecated"] = private["deprecated"]
  BY <1>1 DEF PromotePrivate, Move, IInv, FilesInv, KeyTypes, Place, None
<1>3. KeyTypes'
  BY <1>1, <1>2 DEF IInv, KeyTypes
<1>4. FilesInv'
  BY <1>1, <1>2 DEF IInv, FilesInv
<1>5. private["deprecated"] < private["new"] /\ public["deprecated"] < private["new"]
  BY <1>2 DEF IInv, NewestInv
<1>6. NewestInv' /\ OldInv'
  BY <1>1, <1>2, <1>5 DEF IInv, NewestInv, OldInv, KeyTypes, Place
<1>7. HostsInv'
  BY <1>1, <1>2 DEF IInv, HostsInv, Accepts
<1> QED BY <1>3, <1>4, <1>6, <1>7 DEF IInv

(* The moves of the public halves, which no login needs. *)
LEMMA PublicStep ==
  ASSUME IInv, DeprecatePublic \/ PromotePublic
  PROVE  IInv'
<1>1. UNCHANGED <<private, generated, authorized, remove, play_hosts, todo, replaced, missed>>
  BY DEF DeprecatePublic, PromotePublic, history
<1>2. HostsInv'
  BY <1>1, SameHosts DEF DeprecatePublic, PromotePublic
<1>3. KeyTypes'
  BY <1>1 DEF DeprecatePublic, PromotePublic, Move, IInv, KeyTypes, Place, None
<1>4. CASE DeprecatePublic
  <2>1. /\ task = "deprecate_public" /\ task' = "promote_private"
        /\ public'["new"] = public["new"] /\ public'["existing"] = None
        /\ public'["deprecated"] = public["existing"]
    BY <1>4 DEF DeprecatePublic, Move, IInv, KeyTypes, Place
  <2>2. private["existing"] = None /\ private["new"] # None /\ public["new"] = private["new"]
    BY <2>1 DEF IInv, FilesInv
  <2>3. FilesInv' /\ OldInv'
    BY <1>1, <2>1, <2>2 DEF IInv, FilesInv, OldInv
  <2>4. NewestInv'
    BY <1>1, <2>1, <2>2 DEF IInv, NewestInv, KeyTypes, Place, None
  <2> QED BY <1>2, <1>3, <2>3, <2>4 DEF IInv
<1>5. CASE PromotePublic
  <2>1. /\ task = "promote_public" /\ task' \in {"stat_old", "idle"}
        /\ public'["new"] = None /\ public'["existing"] = public["new"]
        /\ public'["deprecated"] = public["deprecated"]
    BY <1>5 DEF PromotePublic, Move, IInv, KeyTypes, Place
  <2>2. FilesInv' /\ OldInv'
    BY <1>1, <2>1 DEF IInv, FilesInv, OldInv
  <2>3. private["new"] = None
    BY <2>1 DEF IInv, FilesInv
  <2>4. NewestInv'
    BY <1>1, <2>1, <2>3 DEF IInv, NewestInv, KeyTypes, Place, None
  <2> QED BY <1>2, <1>3, <2>2, <2>4 DEF IInv
<1> QED BY <1>4, <1>5

(* The rest of the tasks: they only move on, or end the run. *)
LEMMA OtherStep ==
  ASSUME IInv, Start \/ Stop \/ StatExisting \/ StatOld \/ HostsDone \/ UNCHANGED vars
  PROVE  IInv'
<1>1. UNCHANGED <<private, public, generated, authorized, replaced, missed>>
  BY DEF Start, Stop, StatExisting, StatOld, HostsDone, vars, files, history
<1>2. KeyTypes' /\ NewestInv' /\ OldInv'
  BY <1>1 DEF Start, Stop, StatExisting, StatOld, HostsDone, vars,
              IInv, KeyTypes, NewestInv, OldInv
<1>3. CASE Start \/ Stop \/ StatExisting \/ StatOld
  <2>1. task' \in {"idle", "stat", "generate", "stat_old", "remove"}
        /\ (task' = "generate" => private["existing"] # None)
    BY <1>3 DEF Start, Stop, StatExisting, StatOld
  <2>2. FilesInv'
    BY <1>1, <2>1 DEF IInv, FilesInv
  <2>3. HostsInv'
    BY <1>1, <2>1, SameHosts
  <2> QED BY <1>2, <2>2, <2>3 DEF IInv
<1>4. CASE HostsDone
  <2>1. /\ todo = {} /\ UNCHANGED <<todo, play_hosts>>
        /\ \/ task' = "idle"
           \/ task = "authorize" /\ task' = "deprecate_private"
    BY <1>4 DEF HostsDone
  <2>2. FilesInv'
    BY <1>1, <2>1 DEF IInv, FilesInv
  <2>3. HostsInv'
    BY <1>1, <2>1 DEF IInv, HostsInv, Accepts
  <2> QED BY <1>2, <2>2, <2>3 DEF IInv
<1>5. CASE UNCHANGED vars
  BY <1>2, <1>5 DEF vars, IInv, FilesInv, HostsInv, Accepts
<1> QED BY <1>3, <1>4, <1>5

(* IInv is inductive. *)
THEOREM Inductive == Spec => []IInv
<1>1. Init => IInv
  <2> SUFFICES ASSUME Init PROVE IInv
    OBVIOUS
  <2>1. /\ private = [p \in Place |-> IF p = "existing" THEN 1 ELSE None] /\ public = private
        /\ authorized = [h \in Host |-> [u \in User |-> {1}]]
        /\ generated = 1 /\ task = "idle" /\ play_hosts = {} /\ todo = {}
        /\ replaced = 0 /\ missed = [h \in Host |-> None]
    BY DEF Init
  <2>2. private["existing"] = 1 /\ private["new"] = None /\ private["deprecated"] = None
    BY <2>1 DEF Place
  <2>3. KeyTypes
    BY <2>1 DEF KeyTypes, None
  <2>4. FilesInv /\ NewestInv /\ OldInv
    BY <2>1, <2>2 DEF FilesInv, NewestInv, OldInv, None
  <2>5. HostsInv
    BY <2>1, <2>2 DEF HostsInv, Accepts, User, AnsibleUser, None
  <2> QED BY <2>3, <2>4, <2>5 DEF IInv
<1>2. IInv /\ [Next]_vars => IInv'
  <2> SUFFICES ASSUME IInv, [Next]_vars PROVE IInv'
    OBVIOUS
  <2> QED BY AuthorizeStep, RemoveStep, DeprecateStep, GenerateStep, PromoteStep, PublicStep,
             OtherStep DEF Next
<1> QED BY <1>1, <1>2, PTL DEF Spec

(* A host that missed no rotation, or only the last one, accepts a private *)
(* key that is on the control host, however many hosts there are.          *)
THEOREM NoLockout == Spec => []NoLockoutByOneRotation
<1>1. IInv => NoLockoutByOneRotation
  <2> SUFFICES ASSUME IInv, NEW h \in Host, missed[h] \in {None, replaced}
               PROVE  KeysAtHand \cap authorized[h][AnsibleUser] # {}
    BY DEF NoLockoutByOneRotation
  <2>1. PICK p \in Place : Accepts(h, private[p])
    <3>1. CASE missed[h] = None
      <4>1. CASE private["existing"] # None
        BY <3>1, <4>1 DEF IInv, HostsInv, Place
      <4>2. CASE private["existing"] = None
        BY <3>1, <4>2 DEF IInv, HostsInv, Place
      <4> QED BY <4>1, <4>2
    <3>2. CASE missed[h] # None
      BY <3>2 DEF IInv, HostsInv, Place
    <3> QED BY <3>1, <3>2
  <2> QED BY <2>1 DEF KeysAtHand, Accepts
<1> QED BY <1>1, Inductive, PTL

(* No step takes the key in use from a user of a host. *)
THEOREM KeyInUse == Spec => KeyInUseStays
<1> DEFINE Stays == \A h \in Host, u \in User :
     private["existing"] \in authorized[h][u] => private["existing"] \in authorized'[h][u]
<1>1. IInv /\ [Next]_vars => [Stays]_vars
  <2> SUFFICES ASSUME IInv, Next PROVE Stays
    OBVIOUS
  <2>1. ASSUME NEW g \in Host, AuthorizeKey(g) PROVE Stays
    <3>1. \A h \in Host, u \in User : authorized[h][u] \subseteq authorized'[h][u]
      BY <2>1 DEF AuthorizeKey, IInv, KeyTypes
    <3> QED BY <3>1
  <2>2. ASSUME NEW g \in Host, RemoveOld(g) PROVE Stays
    BY <2>2, RemoveStep
  <2>3. CASE UNCHANGED authorized
    BY <2>3
  <2> QED BY <2>1, <2>2, <2>3
          DEF Next, Start, Stop, StatExisting, GenerateKey, DeprecatePrivate, DeprecatePublic,
              PromotePrivate, PromotePublic, StatOld, HostsDone
<1> QED BY <1>1, Inductive, PTL DEF Spec, KeyInUseStays
----------------------------------------------------------------------------
(* The same for every user of the hosts that no rotation missed.           *)
Trusts(h, k) == k # None /\ \A u \in User : k \in authorized[h][u]

UsersInv ==
  /\ \A h \in play_hosts \ todo :
       task \in {"authorize", "deprecate_private"} => Trusts(h, private["new"])
  /\ \A h \in Host : missed[h] = None =>
       IF private["existing"] # None THEN Trusts(h, private["existing"])
                                     ELSE Trusts(h, private["new"])

(* A host that goes on has given the new key to all of its users. *)
LEMMA AuthorizeUsers ==
  ASSUME IInv, UsersInv, NEW h \in Host, AuthorizeKey(h)
  PROVE  UsersInv'
<1>1. /\ UNCHANGED <<private, public, generated, task, remove, replaced, missed>>
      /\ task = "authorize" /\ todo' = todo \ {h} /\ play_hosts' \subseteq play_hosts
      /\ public["new"] = private["new"] /\ private["new"] # None
  BY DEF AuthorizeKey, files, history, IInv, FilesInv
<1>2. PICK done \in SUBSET User :
        /\ authorized' = [authorized EXCEPT ![h] =
             [u \in User |-> IF u \in done THEN @[u] \cup {public["new"]} ELSE @[u]]]
        /\ play_hosts' = IF done = User THEN play_hosts ELSE play_hosts \ {h}
  BY DEF AuthorizeKey
<1>3. \A g \in Host, u \in User : authorized[g][u] \subseteq authorized'[g][u]
  BY <1>2 DEF IInv, KeyTypes
<1>4. h \in play_hosts' => Trusts(h, private["new"])'
  BY <1>1, <1>2 DEF Trusts, IInv, KeyTypes
<1>5. \A g \in Host, k \in Nat : Trusts(g, k) => Trusts(g, k)'
  BY <1>3 DEF Trusts
<1>6. private["existing"] \in Nat /\ private["new"] \in Nat
  BY DEF IInv, KeyTypes, Place
<1>7. play_hosts \subseteq Host
  BY DEF IInv, KeyTypes
<1>8. ASSUME NEW g \in play_hosts' \ todo' PROVE Trusts(g, private["new"])'
  <2>1. CASE g = h
    BY <1>4, <1>8, <2>1
  <2>2. CASE g # h
    <3>1. g \in play_hosts \ todo /\ g \in Host
      BY <1>1, <1>7, <1>8, <2>2
    <3>2. Trusts(g, private["new"])
      BY <1>1, <3>1 DEF UsersInv
    <3>3. private'["new"] = private["new"]
      BY <1>1
    <3> QED BY <1>5, <1>6, <3>1, <3>2, <3>3 DEF Trusts
  <2> QED BY <2>1, <2>2
<1>9. ASSUME NEW g \in Host, missed'[g] = None
      PROVE  (IF private["existing"] # None THEN Trusts(g, private["existing"])
                                            ELSE Trusts(g, private["new"]))'
  BY <1>1, <1>3, <1>9 DEF UsersInv, Trusts
<1> QED BY <1>8, <1>9 DEF UsersInv

(* The removal of the old key takes no key that a login may need. *)
LEMMA RemoveUsers ==
  ASSUME IInv, UsersInv, NEW h \in Host, RemoveOld(h)
  PROVE  UsersInv'
<1>1. /\ UNCHANGED <<private, task, missed>> /\ task = "remove"
      /\ \A g \in Host, u \in User :
           private["existing"] \in authorized[g][u] => private["existing"] \in authorized'[g][u]
  BY RemoveStep DEF RemoveOld, files, history
<1>2. PICK done \in SUBSET User :
        /\ ~CanLogin(h) => done = {}
        /\ authorized' = [authorized EXCEPT ![h] =
             [u \in User |-> IF u \in done THEN @[u] \ {public["deprecated"]} ELSE @[u]]]
  BY DEF RemoveOld
<1>3. private["existing"] = None =>
        \A g \in Host, u \in User : authorized'[g][u] = authorized[g][u]
  BY <1>2 DEF CanLogin, IInv, KeyTypes
<1>4. ASSUME NEW g \in Host, missed'[g] = None
      PROVE  (IF private["existing"] # None THEN Trusts(g, private["existing"])
                                            ELSE Trusts(g, private["new"]))'
  BY <1>1, <1>3, <1>4 DEF UsersInv, Trusts
<1> QED BY <1>1, <1>4 DEF UsersInv

(* The moves: a host that is still in the run trusts the new key. *)
LEMMA MoveUsers ==
  ASSUME IInv, UsersInv, DeprecatePrivate \/ PromotePrivate
  PROVE  UsersInv'
<1>1. UNCHANGED <<authorized, play_hosts, todo>>
      /\ task' \in {"deprecate_public", "promote_public"}
  BY DEF DeprecatePrivate, PromotePrivate, history
<1>2. CASE DeprecatePrivate
  <2>1. /\ task = "deprecate_private" /\ todo = {}
        /\ private'["existing"] = None /\ private'["new"] = private["new"]
        /\ missed' = [h \in Host |-> IF h \notin play_hosts /\ missed[h] = None
                                     THEN replaced' ELSE missed[h]]
        /\ replaced' = replaced + 1
    BY <1>2 DEF DeprecatePrivate, Move, IInv, HostsInv, KeyTypes, Place
  <2>2. ASSUME NEW h \in Host, missed'[h] = None PROVE Trusts(h, private["new"])'
    <3>1. h \in play_hosts
      BY <2>1, <2>2 DEF IInv, KeyTypes, None
    <3> QED BY <1>1, <2>1, <3>1 DEF UsersInv, Trusts
  <2> QED BY <1>1, <2>1, <2>2 DEF UsersInv
<1>3. CASE PromotePrivate
  <2>1. /\ private["existing"] = None /\ private["new"] # None
        /\ private'["existing"] = private["new"] /\ UNCHANGED missed
    BY <1>3 DEF PromotePrivate, Move, IInv, FilesInv, KeyTypes, Place, history
  <2> QED BY <1>1, <2>1 DEF UsersInv, Trusts
<1> QED BY <1>2, <1>3

(* The other tasks. *)
LEMMA OtherUsers ==
  ASSUME IInv, UsersInv,
         Start \/ Stop \/ StatExisting \/ GenerateKey \/ DeprecatePublic \/ PromotePublic
           \/ StatOld \/ HostsDone \/ UNCHANGED vars
  PROVE  UsersInv'
<1>1. CASE GenerateKey
  <2>1. /\ UNCHANGED <<authorized, missed>> /\ todo' = play_hosts' /\ task = "generate"
        /\ private'["existing"] = private["existing"] /\ private["existing"] # None
    BY <1>1 DEF GenerateKey, history, IInv, FilesInv, KeyTypes, Place
  <2> QED BY <2>1 DEF UsersInv, Trusts
<1>2. CASE HostsDone
  <2>1. /\ UNCHANGED <<private, authorized, missed, play_hosts, todo>>
        /\ task' = "idle" \/ task = "authorize"
    BY <1>2 DEF HostsDone, files, history
  <2> QED BY <2>1 DEF UsersInv, Trusts
<1>3. CASE Start \/ Stop \/ StatExisting \/ DeprecatePublic \/ PromotePublic \/ StatOld
  <2>1. /\ UNCHANGED <<private, authorized, missed>>
        /\ task' \notin {"authorize", "deprecate_private"}
    BY <1>3 DEF Start, Stop, StatExisting, DeprecatePublic, PromotePublic, StatOld, files, history
  <2> QED BY <2>1 DEF UsersInv, Trusts
<1>4. CASE UNCHANGED vars
  BY <1>4 DEF vars, UsersInv, Trusts
<1> QED BY <1>1, <1>2, <1>3, <1>4

(* Every user of a host that no rotation missed can be reached, however    *)
(* many hosts there are and wherever the runs were cut short.              *)
THEOREM UsersKept == Spec => []EveryUserKept
<1>1. Init => UsersInv
  <2>1. Init => /\ private["existing"] = 1 /\ play_hosts = {}
                /\ authorized = [h \in Host |-> [u \in User |-> {1}]]
    BY DEF Init, Place
  <2> QED BY <2>1 DEF UsersInv, Trusts, None
<1>2. IInv /\ UsersInv /\ [Next]_vars => UsersInv'
  <2> SUFFICES ASSUME IInv, UsersInv, [Next]_vars PROVE UsersInv'
    OBVIOUS
  <2> QED BY AuthorizeUsers, RemoveUsers, MoveUsers, OtherUsers DEF Next
<1>3. UsersInv => EveryUserKept
  BY DEF UsersInv, Trusts, EveryUserKept, KeysAtHand, Place
<1> QED BY <1>1, <1>2, <1>3, Inductive, PTL DEF Spec
----------------------------------------------------------------------------
(* Every rotation has a key of its own: one more than there were rotations *)
(* has been generated, two when the next rotation's key is ready.          *)
CountInv ==
  /\ generated \in Key /\ remove \in BOOLEAN /\ task \in Task
  /\ replaced < generated
  /\ private["existing"] # None /\ private["new"] # None => replaced + 1 < generated

LEMMA CountStep ==
  ASSUME IInv, CountInv, [Next]_vars
  PROVE  CountInv'
<1>1. generated \in Nat /\ replaced \in Nat /\ MaxKey \in Nat
      /\ private["existing"] \in Nat /\ private["new"] \in Nat
  BY RekeyAssumption DEF IInv, KeyTypes, Place
<1>2. CASE GenerateKey
  <2>1. /\ UNCHANGED <<replaced, remove>> /\ task' = "authorize"
        /\ \/ UNCHANGED <<private, generated>>
           \/ /\ private["new"] = None /\ generated < MaxKey /\ generated' = generated + 1
    BY <1>2 DEF GenerateKey, history
  <2> QED BY <1>1, <2>1 DEF CountInv, Key, Task
<1>3. CASE DeprecatePrivate
  <2>1. /\ UNCHANGED <<generated, remove>> /\ task = "deprecate_private"
        /\ task' = "deprecate_public" /\ replaced' = replaced + 1
        /\ private'["existing"] = None
    BY <1>3 DEF DeprecatePrivate, Move, IInv, KeyTypes, Place
  <2>2. private["existing"] # None /\ private["new"] # None
    BY <2>1 DEF IInv, FilesInv
  <2> QED BY <1>1, <2>1, <2>2 DEF CountInv, Task
<1>4. CASE PromotePrivate
  <2>1. /\ UNCHANGED <<generated, remove, replaced>> /\ task' = "promote_public"
        /\ private'["new"] = None
    BY <1>4 DEF PromotePrivate, Move, IInv, KeyTypes, Place, history
  <2> QED BY <1>1, <2>1 DEF CountInv, Task
<1>5. CASE Start \/ Stop \/ StatExisting \/ DeprecatePublic \/ PromotePublic \/ StatOld \/ HostsDone
  <2>1. UNCHANGED <<private, generated, replaced>> /\ remove' \in BOOLEAN /\ task' \in Task
    BY <1>5 DEF Start, Stop, StatExisting, DeprecatePublic, PromotePublic, StatOld, HostsDone,
                files, history, Task, CountInv
  <2> QED BY <2>1 DEF CountInv
<1>6. CASE \E h \in Host : AuthorizeKey(h) \/ RemoveOld(h)
  BY <1>6 DEF AuthorizeKey, RemoveOld, files, history, CountInv
<1>7. CASE UNCHANGED vars
  BY <1>7 DEF vars, CountInv
<1> QED BY <1>2, <1>3, <1>4, <1>5, <1>6, <1>7 DEF Next

(* The types of all variables; no private key is in two files.             *)
THEOREM TypeCorrect == Spec => []TypeOK
<1>1. Init => CountInv
  <2> SUFFICES ASSUME Init PROVE CountInv
    OBVIOUS
  <2>1. generated = 1 /\ replaced = 0 /\ remove = FALSE /\ task = "idle"
    BY DEF Init
  <2>2. private["new"] = None
    BY DEF Init, Place
  <2>3. generated \in Key
    BY <2>1, RekeyAssumption DEF Key
  <2>4. remove \in BOOLEAN
    BY <2>1
  <2>5. task \in Task /\ replaced < generated
    BY <2>1 DEF Task
  <2> QED BY <2>2, <2>3, <2>4, <2>5 DEF CountInv
<1>2. IInv /\ CountInv => TypeOK
  <2> SUFFICES ASSUME IInv, CountInv PROVE TypeOK
    OBVIOUS
  <2>1. \A p, q \in Place : private[p] = private[q] /\ private[p] # None => p = q
    BY DEF IInv, NewestInv, KeyTypes, Place, None
  <2>2. replaced \in 0..generated
    BY DEF IInv, KeyTypes, CountInv
  <2> QED BY <2>1, <2>2 DEF TypeOK, IInv, KeyTypes, CountInv
<1> QED BY <1>1, <1>2, CountStep, Inductive, PTL DEF Spec
============================================================================
