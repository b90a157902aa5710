--------------------------- MODULE AioSetupProofs ---------------------------
(***************************************************************************)
(* Proofs about AioSetup, for any number of runs, failures and changes of  *)
(* the settings: what a full run finds at each of its functions.           *)
(***************************************************************************)
EXTENDS AioSetup, SequenceTheorems, TLAPS

(* The functions of the commands. *)
Function ==
  {"check_ark_credentials", "configure_lvm", "install_dependencies", "clone_repositories",
   "disable_ovn", "disable_octavia", "remove_lvm_configuration", "setup_virtualenv",
   "configure_network", "kayobe_control_host_bootstrap", "kayobe_run_init_playbooks",
   "kayobe_overcloud_host_configure", "kayobe_octavia_certificates",
   "kayobe_overcloud_service_deploy", "kayobe_octavia_amphora_image",
   "kayobe_test_overcloud_vm", "generate_kayobe_env_script",
   "generate_openstack_env_script", "run_tempest"}

Full == FunctionsOf("deploy_full")

(* Two sequences of functions, one after the other. *)
LEMMA Joined ==
  ASSUME NEW s \in Seq(Function), NEW t \in Seq(Function)
  PROVE  /\ s \o t \in Seq(Function) /\ Len(s \o t) = Len(s) + Len(t)
         /\ \A i \in 1..Len(s) : (s \o t)[i] = s[i]
         /\ \A i \in 1..Len(t) : (s \o t)[Len(s) + i] = t[i]
BY ConcatProperties

(* deploy_full, function by function. *)
LEMMA FullRun ==
  /\ Full \in Seq(Function) /\ Len(Full) = IF settings.tempest THEN 19 ELSE 18
  /\ Full[1] = "check_ark_credentials" /\ Full[2] = "configure_lvm"
  /\ Full[3] = "install_dependencies" /\ Full[4] = "clone_repositories"
  /\ Full[5] = "disable_ovn" /\ Full[6] = "disable_octavia"
  /\ Full[7] = "remove_lvm_configuration" /\ Full[8] = "setup_virtualenv"
  /\ Full[9] = "configure_network" /\ Full[10] = "generate_kayobe_env_script"
  /\ Full[11] = "kayobe_control_host_bootstrap" /\ Full[12] = "kayobe_run_init_playbooks"
  /\ Full[13] = "kayobe_overcloud_host_configure" /\ Full[14] = "kayobe_octavia_certificates"
  /\ Full[15] = "kayobe_overcloud_service_deploy" /\ Full[16] = "kayobe_octavia_amphora_image"
  /\ Full[17] = "kayobe_test_overcloud_vm"
  /\ Full[18] = IF settings.tempest THEN "run_tempest" ELSE "generate_openstack_env_script"
  /\ settings.tempest => Full[19] = "generate_openstack_env_script"
<1> DEFINE G == <<"generate_kayobe_env_script">>
           A == Prereqs \o G
           B == A \o KayobeCommands
           T == IF settings.tempest THEN <<"run_tempest">> ELSE <<>>
           C == B \o T
           E == <<"generate_openstack_env_script">>
<1>1. /\ Prereqs \in Seq(Function) /\ Len(Prereqs) = 9
      /\ G \in Seq(Function) /\ Len(G) = 1 /\ G[1] = "generate_kayobe_env_script"
      /\ KayobeCommands \in Seq(Function) /\ Len(KayobeCommands) = 7
      /\ E \in Seq(Function) /\ Len(E) = 1 /\ E[1] = "generate_openstack_env_script"
  BY DEF Prereqs, KayobeCommands, Function
<1>2. /\ T \in Seq(Function) /\ Len(T) = IF settings.tempest THEN 1 ELSE 0
      /\ settings.tempest => T[1] = "run_tempest"
  <2>1. CASE settings.tempest
    BY <2>1 DEF Function
  <2>2. CASE ~settings.tempest
    BY <2>2, EmptySeq
  <2> QED BY <2>1, <2>2
<1> HIDE DEF G, T, E
<1>3. /\ A \in Seq(Function) /\ Len(A) = 10 /\ \A i \in 1..9 : A[i] = Prereqs[i]
      /\ A[10] = "generate_kayobe_env_script"
  <2>1. /\ Prereqs \o G \in Seq(Function) /\ Len(Prereqs \o G) = Len(Prereqs) + Len(G)
        /\ \A i \in 1..Len(Prereqs) : (Prereqs \o G)[i] = Prereqs[i]
        /\ \A i \in 1..Len(G) : (Prereqs \o G)[Len(Prereqs) + i] = G[i]
    BY <1>1, Joined
  <2>2. 1 \in 1..Len(G) /\ Len(Prereqs) + 1 = 10
    BY <1>1
  <2>3. A[10] = "generate_kayobe_env_script"
    BY <1>1, <2>1, <2>2
  <2> QED BY <1>1, <2>1, <2>3
<1> HIDE DEF A
<1>4. /\ B \in Seq(Function) /\ Len(B) = 17 /\ \A i \in 1..10 : B[i] = A[i]
      /\ \A i \in 1..7 : B[10 + i] = KayobeCommands[i]
  <2>1. /\ A \o KayobeCommands \in Seq(Function) /\ Len(A \o KayobeCommands) = Len(A) + Len(KayobeCommands)
        /\ \A i \in 1..Len(A) : (A \o KayobeCommands)[i] = A[i]
        /\ \A i \in 1..Len(KayobeCommands) : (A \o KayobeCommands)[Len(A) + i] = KayobeCommands[i]
    BY <1>1, <1>3, Joined
  <2>2. /\ Len(A) + Len(KayobeCommands) = 17
        /\ \A i \in 1..10 : i \in 1..Len(A)
    BY <1>1, <1>3
  <2>3. ASSUME NEW i \in 1..7 PROVE B[10 + i] = KayobeCommands[i]
    <3>1. i \in 1..Len(KayobeCommands) /\ Len(A) + i = 10 + i
      BY <1>1, <1>3
    <3> QED BY <2>1, <3>1
  <2>4. B = A \o KayobeCommands
    OBVIOUS
  <2> HIDE DEF B
  <2> QED BY <2>1, <2>2, <2>3, <2>4
<1> HIDE DEF B
<1>5. /\ C \in Seq(Function) /\ Len(C) = IF settings.tempest THEN 18 ELSE 17
      /\ \A i \in 1..17 : C[i] = B[i]
      /\ settings.tempest => C[18] = "run_tempest"
  <2>1. /\ B \o T \in Seq(Function) /\ Len(B \o T) = Len(B) + Len(T)
        /\ \A i \in 1..Len(B) : (B \o T)[i] = B[i]
        /\ \A i \in 1..Len(T) : (B \o T)[Len(B) + i] = T[i]
    BY <1>2, <1>4, Joined
  <2>2. settings.tempest => 1 \in 1..Len(T) /\ Len(B) + 1 = 18
    BY <1>2, <1>4
  <2>3. settings.tempest => C[18] = "run_tempest"
    BY <1>2, <2>1, <2>2
  <2>4. Len(C) = IF settings.tempest THEN 18 ELSE 17
    BY <1>2, <1>4, <2>1
  <2>5. \A i \in 1..17 : C[i] = B[i]
    BY <1>4, <2>1
  <2> QED BY <2>1, <2>3, <2>4, <2>5
<1> HIDE DEF C
<1>6. /\ Full \in Seq(Function) /\ Len(Full) = Len(C) + 1
      /\ \A i \in 1..Len(C) : Full[i] = C[i]
      /\ Full[Len(C) + 1] = "generate_openstack_env_script"
  <2>1. /\ C \o E \in Seq(Function) /\ Len(C \o E) = Len(C) + Len(E)
        /\ \A i \in 1..Len(C) : (C \o E)[i] = C[i]
        /\ \A i \in 1..Len(E) : (C \o E)[Len(C) + i] = E[i]
    BY <1>1, <1>5, Joined
  <2>2. Full = C \o E
    BY DEF Full, FunctionsOf, A, B, C, E, G, T
  <2>3. 1 \in 1..Len(E)
    BY <1>1
  <2> QED BY <1>1, <1>5, <2>1, <2>2, <2>3
<1>7. \A i \in 1..17 : i \in 1..Len(C) /\ Full[i] = B[i]
  <2>1. Len(C) \in Nat /\ 17 <= Len(C)
    BY <1>5
  <2>2. \A i \in 1..17 : i \in 1..Len(C)
    BY <2>1
  <2> QED BY <1>5, <1>6, <2>2
<1>8. ASSUME NEW i \in 1..7 PROVE Full[10 + i] = KayobeCommands[i]
  <2>1. 10 + i \in 1..17
    OBVIOUS
  <2> QED BY <1>4, <1>7, <2>1
<1>9. Full[10] = "generate_kayobe_env_script" /\ \A i \in 1..9 : Full[i] = Prereqs[i]
  BY <1>3, <1>4, <1>7
<1>10. /\ Full[1] = "check_ark_credentials" /\ Full[2] = "configure_lvm"
       /\ Full[3] = "install_dependencies" /\ Full[4] = "clone_repositories"
       /\ Full[5] = "disable_ovn" /\ Full[6] = "disable_octavia"
       /\ Full[7] = "remove_lvm_configuration" /\ Full[8] = "setup_virtualenv"
       /\ Full[9] = "configure_network"
  BY <1>9 DEF Prereqs
<1>11. /\ Full[11] = "kayobe_control_host_bootstrap" /\ Full[12] = "kayobe_run_init_playbooks"
       /\ Full[13] = "kayobe_overcloud_host_configure" /\ Full[14] = "kayobe_octavia_certificates"
       /\ Full[15] = "kayobe_overcloud_service_deploy" /\ Full[16] = "kayobe_octavia_amphora_image"
       /\ Full[17] = "kayobe_test_overcloud_vm"
  <2>1. ASSUME NEW j \in 11..17 PROVE Full[j] = KayobeCommands[j - 10]
    <3> DEFINE k == j - 10
    <3>1. k \in 1..7 /\ 10 + k = j
      OBVIOUS
    <3> HIDE DEF k
    <3>2. Full[10 + k] = KayobeCommands[k]
      BY <1>8, <3>1
    <3> QED BY <3>1, <3>2 DEF k
  <2> QED BY <2>1 DEF KayobeCommands
<1>12. CASE settings.tempest
  <2>1. Len(C) = 18 /\ 18 \in 1..Len(C)
    BY <1>5, <1>12
  <2> QED BY <1>5, <1>6, <1>9, <1>10, <1>11, <1>12, <2>1
<1>13. CASE ~settings.tempest
  <2>1. Len(C) = 17
    BY <1>5, <1>13
  <2> QED BY <1>5, <1>6, <1>9, <1>10, <1>11, <1>13, <2>1
<1> QED BY <1>12, <1>13

LEMMA FunctionsListed == ASSUME NEW command \in Command PROVE FunctionsOf(command) \in Seq(Function)
<1>1. CASE command = "deploy_full"
  BY <1>1, FullRun DEF Full
<1>2. CASE command = "run_deploy_prereqs"
  BY <1>2 DEF FunctionsOf, Prereqs, Function
<1>3. CASE command = "run_kayobe_commands"
  BY <1>3 DEF FunctionsOf, KayobeCommands, Function
<1>4. CASE command \notin {"deploy_full", "run_deploy_prereqs", "run_kayobe_commands"}
  <2>1. FunctionsOf(command) = <<command>>
    BY <1>4, Zenon DEF FunctionsOf
  <2>2. command \in Function
    BY <1>4 DEF Command, Function
  <2> QED BY <2>1, <2>2
<1> QED BY <1>1, <1>2, <1>3, <1>4

(* A suffix, element by element. *)
LEMMA Suffix ==
  ASSUME NEW s \in Seq(Function), NEW t \in Seq(Function)
  PROVE  IsSuffix(s, t) <=>
           Len(s) <= Len(t) /\ \A i \in 1..Len(s) : s[i] = t[Len(t) - Len(s) + i]
<1> DEFINE r == Reverse(s)
           u == Reverse(t)
           m == Len(s)
           n == Len(t)
<1>1. m \in Nat /\ n \in Nat
  OBVIOUS
<1>2. /\ r \in Seq(Function) /\ Len(r) = m /\ \A i \in 1..m : r[i] = s[m - i + 1]
      /\ u \in Seq(Function) /\ Len(u) = n /\ \A i \in 1..n : u[i] = t[n - i + 1]
  <2>1. \A i \in 1..m : s[m - i + 1] \in Function
    BY <1>1, ElementOfSeq
  <2>2. \A i \in 1..n : t[n - i + 1] \in Function
    BY <1>1, ElementOfSeq
  <2> QED BY <1>1, <2>1, <2>2, IsASeq DEF Reverse
<1>3. IsSuffix(s, t) <=> m <= n /\ SubSeq(r, 1, m) = SubSeq(u, 1, m)
  BY <1>2 DEF IsSuffix, IsPrefix
<1> HIDE DEF r, u, m, n
<1> SUFFICES ASSUME m <= n
             PROVE  (SubSeq(r, 1, m) = SubSeq(u, 1, m))
                      <=> \A i \in 1..m : s[i] = t[n - m + i]
  BY <1>3 DEF m, n
<1>4. (SubSeq(r, 1, m) = SubSeq(u, 1, m)) <=> \A i \in 1..m : r[i] = u[i]
  <2> DEFINE v == SubSeq(r, 1, m)
             w == SubSeq(u, 1, m)
  <2>1. /\ v \in Seq(Function) /\ Len(v) = m /\ \A i \in 1..m : v[i] = r[i]
        /\ w \in Seq(Function) /\ Len(w) = m /\ \A i \in 1..m : w[i] = u[i]
    <3>1. \A i \in 1..m : r[i] \in Function /\ u[i] \in Function
      BY <1>1, <1>2, ElementOfSeq
    <3> QED BY <1>1, <3>1, SubSeqProperties
  <2> HIDE DEF v, w
  <2>2. ASSUME \A i \in 1..m : v[i] = w[i] PROVE v = w
    BY <2>1, <2>2, SeqEqual
  <2> QED BY <2>1, <2>2 DEF v, w
<1>5. ASSUME \A i \in 1..m : r[i] = u[i], NEW i \in 1..m
      PROVE  s[i] = t[n - m + i]
  <2> DEFINE j == m - i + 1
  <2>1. j \in 1..m /\ j \in 1..n /\ m - j + 1 = i /\ n - j + 1 = n - m + i
    BY <1>1
  <2> HIDE DEF j
  <2>2. r[j] = s[m - j + 1] /\ u[j] = t[n - j + 1] /\ r[j] = u[j]
    BY <1>2, <1>5, <2>1
  <2> QED BY <2>1, <2>2
<1>6. ASSUME \A i \in 1..m : s[i] = t[n - m + i], NEW i \in 1..m
      PROVE  r[i] = u[i]
  <2> DEFINE j == m - i + 1
  <2>1. j \in 1..m /\ i \in 1..n /\ n - m + j = n - i + 1
    BY <1>1
  <2>2. s[j] = t[n - m + j]
    BY <1>6, <2>1
  <2>3. r[i] = s[m - i + 1] /\ u[i] = t[n - i + 1]
    BY <1>2, <2>1
  <2> QED BY <2>1, <2>2, <2>3
<1> QED BY <1>4, <1>5, <1>6

(* What is left of a run after the call of its first function. *)
LEMMA SuffixTail ==
  ASSUME NEW s \in Seq(Function), NEW t \in Seq(Function), IsSuffix(s, t), s # <<>>
  PROVE  Tail(s) \in Seq(Function) /\ IsSuffix(Tail(s), t)
<1> DEFINE m == Len(s)
           n == Len(t)
<1>1. m \in Nat /\ n \in Nat /\ m >= 1
  BY EmptySeq
<1>2. /\ Tail(s) \in Seq(Function) /\ Len(Tail(s)) = m - 1
      /\ \A i \in 1..m - 1 : Tail(s)[i] = s[i + 1]
  BY HeadTailProperties
<1>3. m <= n /\ \A i \in 1..m : s[i] = t[n - m + i]
  BY Suffix
<1> HIDE DEF m, n
<1>4. ASSUME NEW i \in 1..m - 1
      PROVE  Tail(s)[i] = t[n - (m - 1) + i]
  <2>1. i + 1 \in 1..m /\ n - m + (i + 1) = n - (m - 1) + i
    BY <1>1
  <2> QED BY <1>2, <1>3, <2>1
<1>5. m - 1 <= n
  BY <1>1, <1>3
<1> QED BY <1>2, <1>4, <1>5, Suffix DEF m, n
----------------------------------------------------------------------------
(* How many functions a run of deploy_full has called, and what they left. *)
Made == Len(Full) - Len(todo)

RunInv ==
  full /\ Running =>
    /\ IsSuffix(todo, Full)
    /\ Made >= 4 => clones["kayobe-config"] # "absent"
    /\ Made >= 6 => ConfiguredOctavia = settings.octavia
    /\ Made >= 7 => lvm_config = has_lvm
    /\ Made >= 8 => venv = "installed"
    /\ Made >= 14 /\ settings.octavia => "certificates" \in octavia_files
    /\ Made >= 15 /\ settings.octavia => "openrc" \in octavia_files

(* What is on the host whatever runs. *)
HostInv == lvm_config \in BOOLEAN /\ (has_lvm => lvm_config)

IInv == todo \in Seq(Function) /\ TypeOK /\ HostInv /\ RunInv
----------------------------------------------------------------------------
LEMMA SameFunctions ==
  ASSUME settings' = settings
  PROVE  Full' = Full /\ \A command \in Command : FunctionsOf(command)' = FunctionsOf(command)
BY DEF Full, FunctionsOf

(* A run may have nothing left to call, whatever it is a run of. *)
LEMMA EmptySuffix ==
  ASSUME NEW t \in Seq(Function)
  PROVE  <<>> \in Seq(Function) /\ IsSuffix(<<>>, t)
<1> DEFINE e == <<>>
<1>1. e \in Seq(Function) /\ Len(e) = 0
  BY EmptySeq
<1>2. Len(t) \in Nat
  OBVIOUS
<1> HIDE DEF e
<1>3. Len(e) <= Len(t) /\ \A i \in 1..Len(e) : e[i] = t[Len(t) - Len(e) + i]
  BY <1>1, <1>2
<1>4. IsSuffix(e, t)
  BY <1>1, <1>3, Suffix
<1> QED BY <1>1, <1>4 DEF e

LEMMA NothingLeft ==
  /\ <<>> \in Seq(Function)
  /\ \E command \in Command : IsSuffix(<<>>, FunctionsOf(command))
  /\ \E command \in Command : IsSuffix(<<>>, FunctionsOf(command)')
<1>1. "configure_network" \in Command /\ <<"configure_network">> \in Seq(Function)
  BY DEF Command, Function
<1>2. FunctionsOf("configure_network") = <<"configure_network">>
  BY Zenon DEF FunctionsOf
<1>3. FunctionsOf("configure_network")' = <<"configure_network">>
  BY Zenon DEF FunctionsOf
<1> QED BY <1>1, <1>2, <1>3, EmptySuffix

(* Where a full run is, and what it calls there. *)
LEMMA Place ==
  ASSUME IInv, full, Running
  PROVE  /\ Made \in Nat /\ Made < Len(Full) /\ Head(todo) = Full[Made + 1]
         /\ Tail(todo) \in Seq(Function) /\ Len(Full) - Len(Tail(todo)) = Made + 1
         /\ IsSuffix(Tail(todo), Full)
<1> DEFINE m == Len(todo)
           n == Len(Full)
<1>1. todo \in Seq(Function) /\ todo # <<>> /\ IsSuffix(todo, Full) /\ Full \in Seq(Function)
  BY FullRun DEF IInv, RunInv, Running
<1>2. m \in Nat /\ n \in Nat /\ m >= 1
  BY <1>1, EmptySeq
<1>3. m <= n /\ \A i \in 1..m : todo[i] = Full[n - m + i]
  BY <1>1, Suffix
<1>4. Tail(todo) \in Seq(Function) /\ IsSuffix(Tail(todo), Full) /\ Len(Tail(todo)) = m - 1
  BY <1>1, SuffixTail, HeadTailProperties
<1>5. Head(todo) = todo[1]
  BY <1>1
<1> HIDE DEF m, n
<1>6. 1 \in 1..m
  BY <1>2
<1>7. Head(todo) = Full[n - m + 1]
  BY <1>3, <1>5, <1>6
<1>8. n - m \in Nat /\ n - m < n /\ n - (m - 1) = (n - m) + 1
  BY <1>2, <1>3
<1> QED BY <1>4, <1>7, <1>8 DEF Made, m, n

LEMMA Places ==
  ASSUME IInv, full, Running
  PROVE  /\ Made = 3 => Calling("clone_repositories")
         /\ Made = 5 <=> Calling("disable_octavia")
         /\ Made = 6 <=> Calling("remove_lvm_configuration")
         /\ Made = 7 => Calling("setup_virtualenv")
         /\ Made = 13 => Calling("kayobe_octavia_certificates")
         /\ Made = 14 <=> Calling("kayobe_overcloud_service_deploy")
         /\ Calling("kayobe_octavia_amphora_image") => Made = 15
         /\ UsesConfig(Head(todo)) => Made >= 4
         /\ Head(todo) \in ToSet(KayobeCommands) \cup {"run_tempest"} => Made >= 8
<1> DEFINE m == Made
           f == Head(todo)
<1>1. m \in Nat /\ m < Len(Full) /\ f = Full[m + 1]
  BY Place
<1>2. m \in 0..18
  BY <1>1, FullRun
<1>3. todo # <<>>
  BY DEF Running
<1>4. f \in ToSet(KayobeCommands) <=>
        f \in {"kayobe_control_host_bootstrap", "kayobe_run_init_playbooks",
              "kayobe_overcloud_host_configure", "kayobe_octavia_certificates",
              "kayobe_overcloud_service_deploy", "kayobe_octavia_amphora_image",
              "kayobe_test_overcloud_vm"}
  BY DEF ToSet, KayobeCommands
<1> HIDE DEF m, f
<1>5. /\ m = 0 => f = "check_ark_credentials"
      /\ m = 1 => f = "configure_lvm"
      /\ m = 2 => f = "install_dependencies"
      /\ m = 3 => f = "clone_repositories"
  BY <1>1, FullRun
<1>6. /\ m = 4 => f = "disable_ovn"
      /\ m = 5 => f = "disable_octavia"
      /\ m = 6 => f = "remove_lvm_configuration"
      /\ m = 7 => f = "setup_virtualenv"
  BY <1>1, FullRun
<1>7. /\ m = 8 => f = "configure_network"
      /\ m = 9 => f = "generate_kayobe_env_script"
      /\ m = 10 => f = "kayobe_control_host_bootstrap"
      /\ m = 11 => f = "kayobe_run_init_playbooks"
      /\ m = 12 => f = "kayobe_overcloud_host_configure"
  BY <1>1, FullRun
<1>8. /\ m = 13 => f = "kayobe_octavia_certificates"
      /\ m = 14 => f = "kayobe_overcloud_service_deploy"
      /\ m = 15 => f = "kayobe_octavia_amphora_image"
      /\ m = 16 => f = "kayobe_test_overcloud_vm"
  BY <1>1, FullRun
<1>9. m \in {17, 18} => f \in {"run_tempest", "generate_openstack_env_script"}
  <2>1. m = 17 => f = Full[18]
    BY <1>1
  <2>2. m = 18 => f = Full[19] /\ settings.tempest
    BY <1>1, FullRun
  <2> QED BY <2>1, <2>2, FullRun
<1>10. \/ m \in {0, 1, 2, 3} \/ m \in {4, 5, 6, 7} \/ m \in {8, 9, 10, 11, 12}
       \/ m \in {13, 14, 15, 16} \/ m \in {17, 18}
  BY <1>2
<1>11. /\ m = 3 => f = "clone_repositories"
       /\ m = 5 <=> f = "disable_octavia"
       /\ m = 6 <=> f = "remove_lvm_configuration"
       /\ m = 7 => f = "setup_virtualenv"
       /\ m = 13 => f = "kayobe_octavia_certificates"
       /\ m = 14 <=> f = "kayobe_overcloud_service_deploy"
       /\ f = "kayobe_octavia_amphora_image" => m = 15
  BY <1>5, <1>6, <1>7, <1>8, <1>9, <1>10
<1>12. m >= 4 \/ f \in {"check_ark_credentials", "configure_lvm", "install_dependencies",
                       "clone_repositories"}
  BY <1>5, <1>10
<1>13. m >= 8 \/ f \in {"check_ark_credentials", "configure_lvm", "install_dependencies",
                       "clone_repositories", "disable_ovn", "disable_octavia",
                       "remove_lvm_configuration", "setup_virtualenv"}
  BY <1>5, <1>6, <1>10
<1>14. UsesConfig(f) => m >= 4
  BY <1>4, <1>12 DEF UsesConfig, UsesKayobe
<1>15. f \in ToSet(KayobeCommands) \cup {"run_tempest"} => m >= 8
  BY <1>4, <1>13
<1> QED BY <1>3, <1>11, <1>14, <1>15 DEF m, f, Calling

(* A full run finds what it needs: what an earlier function of it made, or *)
(* would have failed to make.                                              *)
LEMMA FindsAll ==
  ASSUME IInv, full, Running,
         Head(todo) = "setup_virtualenv" => venv # "partial",
         Head(todo) = "run_tempest" => ~automation
  PROVE  Possible(Head(todo))
<1> DEFINE f == Head(todo)
<1>1. UsesConfig(f) => clones["kayobe-config"] # "absent"
  BY Places DEF IInv, RunInv
<1>2. f \in ToSet(KayobeCommands) \cup {"run_tempest"} => venv = "installed"
  BY Place, Places DEF IInv, RunInv
<1>3. f = "kayobe_overcloud_service_deploy" /\ ConfiguredOctavia => "certificates" \in octavia_files
  <2> SUFFICES ASSUME f = "kayobe_overcloud_service_deploy" PROVE ConfiguredOctavia => "certificates" \in octavia_files
    OBVIOUS
  <2>1. Made = 14
    BY Places DEF Calling, Running
  <2>2. Made >= 6 /\ Made >= 14
    BY <2>1
  <2>3. settings.octavia \in BOOLEAN
    BY DEF IInv, TypeOK, Setting
  <2> QED BY <2>2, <2>3 DEF IInv, RunInv
<1>4. f = "kayobe_octavia_amphora_image" /\ settings.octavia => "openrc" \in octavia_files
  <2> SUFFICES ASSUME f = "kayobe_octavia_amphora_image" PROVE settings.octavia => "openrc" \in octavia_files
    OBVIOUS
  <2>1. Made = 15
    BY Places DEF Calling, Running
  <2>2. Made >= 15
    BY <2>1
  <2> QED BY <2>2 DEF IInv, RunInv
<1>5. f = "kayobe_test_overcloud_vm" => UsesConfig(f)
  BY DEF UsesConfig, UsesKayobe, Skipped, ToSet, KayobeCommands
<1>6. clones["kayobe-config"] # "absent" => clones["kayobe"] # "absent"
  BY DEF IInv, TypeOK
<1>7. UsesKayobe(f) => venv \in {"installed", "broken"}
  BY <1>2 DEF UsesKayobe
<1>8. f = "run_tempest" => venv \notin {"absent", "partial"}
  BY <1>2
<1>9. f = "setup_virtualenv" => venv # "partial"
  OBVIOUS
<1>10. f = "run_tempest" => ~automation
  OBVIOUS
<1> HIDE DEF f
<1>11. Possible(f)
  BY <1>1, <1>3, <1>4, <1>5, <1>6, <1>7, <1>8, <1>9, <1>10 DEF Possible, NeedsClone, NeedsLink
<1> QED BY <1>11 DEF f

(* A run goes on. *)
LEMMA GoesOn ==
  ASSUME IInv, Running, Return
  PROVE  /\ todo' \in Seq(Function)
         /\ \E command \in Command : IsSuffix(todo', FunctionsOf(command)')
<1>1. PICK command \in Command : IsSuffix(todo, FunctionsOf(command))
  BY DEF IInv, TypeOK
<1>2. FunctionsOf(command) \in Seq(Function) /\ FunctionsOf(command)' = FunctionsOf(command)
  BY FunctionsListed, SameFunctions DEF Return
<1>3. todo \in Seq(Function) /\ todo # <<>> /\ todo' = Tail(todo)
  BY DEF IInv, Running, Return
<1> QED BY <1>1, <1>2, <1>3, SuffixTail

LEMMA FullGoesOn ==
  ASSUME IInv, Running, Return,
         clones["kayobe-config"] # "absent" \/ Calling("clone_repositories")
           => clones'["kayobe-config"] # "absent",
         IF Calling("disable_octavia") THEN ConfiguredOctavia' = settings.octavia
                                       ELSE ConfiguredOctavia' = ConfiguredOctavia,
         has_lvm' = has_lvm,
         IF Calling("remove_lvm_configuration") THEN lvm_config' = has_lvm
                                                ELSE lvm_config' = lvm_config,
         venv = "installed" \/ Calling("setup_virtualenv") => venv' = "installed",
         octavia_files \subseteq octavia_files',
         Calling("kayobe_octavia_certificates") /\ settings.octavia
           => "certificates" \in octavia_files',
         Calling("kayobe_overcloud_service_deploy") /\ ConfiguredOctavia
           => "openrc" \in octavia_files'
  PROVE  RunInv'
<1> SUFFICES ASSUME full
             PROVE  RunInv'
  BY DEF RunInv, Return
<1>1. /\ Made \in Nat /\ Made' = Made + 1 /\ IsSuffix(todo', Full')
      /\ settings' = settings
  BY Place, SameFunctions DEF Return, Made
<1>2. Made' >= 4 => Made >= 4 \/ Made = 3
  BY <1>1
<1>3. Made' >= 6 => Made >= 6 \/ Made = 5
  BY <1>1
<1>4. Made' >= 7 => (Made >= 7 /\ Made # 6) \/ Made = 6
  BY <1>1
<1>5. Made' >= 8 => Made >= 8 \/ Made = 7
  BY <1>1
<1>6. Made' >= 14 => Made >= 14 \/ Made = 13
  BY <1>1
<1>7. Made' >= 15 => Made >= 15 \/ (Made = 14 /\ Made >= 6)
  BY <1>1
<1>8. Made >= 6 => Made # 5
  BY <1>1
<1> HIDE DEF Made
<1>9. Made' >= 4 => clones'["kayobe-config"] # "absent"
  BY <1>2, Places DEF IInv, RunInv
<1>10. Made' >= 6 => ConfiguredOctavia' = settings'.octavia
  BY <1>1, <1>3, <1>8, Places DEF IInv, RunInv
<1>11. Made' >= 7 => lvm_config' = has_lvm'
  BY <1>4, Places DEF IInv, RunInv
<1>12. Made' >= 8 => venv' = "installed"
  BY <1>5, Places DEF IInv, RunInv
<1>13. Made' >= 14 /\ settings'.octavia => "certificates" \in octavia_files'
  BY <1>1, <1>6, Places DEF IInv, RunInv
<1>14. Made' >= 15 /\ settings'.octavia => "openrc" \in octavia_files'
  BY <1>1, <1>7, Places DEF IInv, RunInv
<1> QED BY <1>1, <1>9, <1>10, <1>11, <1>12, <1>13, <1>14 DEF RunInv
----------------------------------------------------------------------------
LEMMA InitOK == Init => IInv
<1> SUFFICES ASSUME Init PROVE IInv
  OBVIOUS
<1>1. todo \in Seq(Function) /\ \E command \in Command : IsSuffix(todo, FunctionsOf(command))
  BY NothingLeft DEF Init
<1>2. TypeOK
  BY <1>1 DEF Init, TypeOK, Setting, Defaults, Repo, NotDeployed, Venv
<1>3. HostInv /\ RunInv
  BY DEF Init, HostInv, RunInv, Running
<1> QED BY <1>1, <1>2, <1>3 DEF IInv

(* The operator and Tempest. *)
LEMMA EditSettingsOK == ASSUME IInv, EditSettings PROVE IInv'
<1>1. todo' = <<>> /\ settings' \in Setting
      /\ UNCHANGED <<todo, full, venv, checkout, host>>
  BY DEF EditSettings, Running
<1>2. TypeOK'
  BY <1>1, NothingLeft DEF IInv, TypeOK, checkout, host
<1>3. HostInv' /\ RunInv'
  BY <1>1 DEF IInv, HostInv, RunInv, Running, checkout, host
<1> QED BY <1>1, <1>2, <1>3, NothingLeft DEF IInv

LEMMA MainOK == ASSUME IInv, main PROVE IInv'
<1>1. PICK command \in Command : /\ todo' = FunctionsOf(command)
                                 /\ full' = (command = "deploy_full")
  BY DEF main
<1>2. UNCHANGED <<settings, venv, checkout, host>>
  BY DEF main
<1>3. /\ todo' \in Seq(Function) /\ todo' = FunctionsOf(command)'
      /\ full' => todo' = Full' /\ Full' = Full
  BY <1>1, <1>2, FunctionsListed, SameFunctions DEF Full
<1>4. \A s \in Seq(Function) : IsSuffix(s, s)
  <2> SUFFICES ASSUME NEW s \in Seq(Function) PROVE IsSuffix(s, s)
    OBVIOUS
  <2>1. Len(s) \in Nat
    OBVIOUS
  <2> QED BY <2>1, Suffix
<1>5. TypeOK'
  BY <1>1, <1>2, <1>3, <1>4 DEF IInv, TypeOK, checkout, host
<1>6. HostInv'
  BY <1>2 DEF IInv, HostInv, checkout, host
<1>7. full' => IsSuffix(todo', Full') /\ Made' = 0
  BY <1>3, <1>4, FullRun DEF Made
<1>8. RunInv'
  BY <1>7 DEF RunInv
<1> QED BY <1>3, <1>5, <1>6, <1>8 DEF IInv

LEMMA TempestEndsOK == ASSUME IInv, TempestEnds PROVE IInv'
<1>1. /\ automation' = FALSE
      /\ UNCHANGED <<settings, todo, full, venv, checkout, has_lvm, links, octavia_files,
                    deployed>>
  BY DEF TempestEnds
<1>2. Full' = Full /\ \A command \in Command : FunctionsOf(command)' = FunctionsOf(command)
  BY <1>1, SameFunctions
<1>3. TypeOK'
  BY <1>1, <1>2 DEF IInv, TypeOK, checkout
<1>4. HostInv' /\ RunInv'
  BY <1>1, <1>2 DEF IInv, HostInv, RunInv, Running, Made, ConfiguredOctavia,
                    checkout
<1> QED BY <1>1, <1>3, <1>4 DEF IInv
----------------------------------------------------------------------------
(* A run that ends early leaves nothing that it has not to. *)
LEMMA LinksMade ==
  ASSUME NEW n \in 0..Len(LinkOrder)
  PROVE  ToSet(SubSeq(LinkOrder, 1, n)) \subseteq Link
<1>1. Len(LinkOrder) = 3 /\ LinkOrder \in Seq(Link) /\ \A i \in 1..3 : LinkOrder[i] \in Link
  BY DEF LinkOrder, Link, ToSet
<1>2. n \in Nat /\ n <= 3
  BY <1>1
<1>3. SubSeq(LinkOrder, 1, n) \in Seq(Link)
  BY <1>1, <1>2, SubSeqProperties
<1>4. \A i \in DOMAIN SubSeq(LinkOrder, 1, n) : SubSeq(LinkOrder, 1, n)[i] \in Link
  BY <1>3, ElementOfSeq
<1> QED BY <1>4 DEF ToSet

LEMMA HalfDoneOK ==
  ASSUME IInv, HalfDone, todo' = <<>>, links' \subseteq Link, automation' \in BOOLEAN,
         UNCHANGED <<settings, full, has_lvm, overrides, lvm_config, octavia_files, deployed>>
  PROVE  IInv'
<1>1. /\ clones' \in [Repo -> {"absent", "partial", "whole"}]
      /\ clones'["kayobe-config"] = "absent" => clones["kayobe-config"] = "absent"
      /\ clones'["kayobe-config"] # "absent" => clones'["kayobe"] # "absent"
  <2>1. /\ clones \in [Repo -> {"absent", "partial", "whole"}]
        /\ clones["kayobe-config"] # "absent" => clones["kayobe"] # "absent"
    BY DEF IInv, TypeOK
  <2>2. CASE UNCHANGED clones
    BY <2>1, <2>2
  <2>3. ASSUME NEW r \in Repo, NEW state \in {"partial", "whole"}, NeedsClone(r),
               clones' = [q \in Repo |-> IF q = r THEN state
                                   ELSE IF q = "kayobe" /\ NeedsClone(q) THEN "whole"
                                   ELSE clones[q]]
        PROVE  /\ clones' \in [Repo -> {"absent", "partial", "whole"}]
               /\ clones'["kayobe-config"] = "absent" => clones["kayobe-config"] = "absent"
               /\ clones'["kayobe-config"] # "absent" => clones'["kayobe"] # "absent"
    BY <2>1, <2>3 DEF NeedsClone, Repo
  <2> QED BY <2>2, <2>3 DEF HalfDone
<1>2. venv' \in Venv /\ (venv' = "installed" => venv = "installed")
  BY DEF HalfDone, IInv, TypeOK, Venv
<1>3. TypeOK'
  BY <1>1, <1>2, NothingLeft DEF IInv, TypeOK
<1>4. HostInv' /\ RunInv'
  BY DEF IInv, HostInv, RunInv, Running
<1> QED BY <1>3, <1>4, NothingLeft DEF IInv

LEMMA FailOK == ASSUME IInv, Fail PROVE IInv'
<1>1. links' \subseteq Link
  BY LinksMade DEF Fail, IInv, TypeOK
<1>2. automation' \in BOOLEAN
  BY DEF Fail, IInv, TypeOK
<1> QED BY <1>1, <1>2, HalfDoneOK DEF Fail

LEMMA CrashOK == ASSUME IInv, Crash PROVE IInv'
BY HalfDoneOK DEF Crash
----------------------------------------------------------------------------
(* The functions of a run. *)
LEMMA NothingReadOK ==
  ASSUME IInv, CallStateless \/ configure_lvm \/ kayobe_octavia_amphora_image
  PROVE  IInv'
<1>1. Running /\ Return /\ UNCHANGED <<venv, checkout, host>>
  BY DEF CallStateless, configure_lvm, kayobe_octavia_amphora_image, Calling, Running
<1>2. /\ ~Calling("clone_repositories") /\ ~Calling("disable_octavia")
      /\ ~Calling("remove_lvm_configuration") /\ ~Calling("setup_virtualenv")
      /\ ~Calling("kayobe_octavia_certificates") /\ ~Calling("kayobe_overcloud_service_deploy")
  BY DEF CallStateless, Stateless, configure_lvm, kayobe_octavia_amphora_image, Calling
<1>3. TypeOK'
  BY <1>1, GoesOn DEF IInv, TypeOK, Return, checkout, host
<1>4. HostInv'
  BY <1>1 DEF IInv, HostInv, Return, checkout, host
<1>5. RunInv'
  BY <1>1, <1>2, FullGoesOn DEF ConfiguredOctavia, checkout, host
<1> QED BY <1>1, <1>3, <1>4, <1>5, GoesOn DEF IInv

LEMMA CloneOK == ASSUME IInv, clone_repositories PROVE IInv'
<1>1. /\ Running /\ Return /\ UNCHANGED <<venv, overrides, lvm_config, host>>
      /\ clones' = [r \in Repo |-> IF NeedsClone(r) THEN "whole" ELSE clones[r]]
  BY DEF clone_repositories, Calling, Running
<1>2. /\ ~Calling("disable_octavia") /\ ~Calling("remove_lvm_configuration")
      /\ ~Calling("setup_virtualenv") /\ ~Calling("kayobe_octavia_certificates")
      /\ ~Calling("kayobe_overcloud_service_deploy")
  BY DEF clone_repositories, Calling
<1>3. /\ clones' \in [Repo -> {"absent", "partial", "whole"}]
      /\ \A r \in Repo : /\ clones'[r] # "absent"
                         /\ clones[r] = "whole" => clones'[r] = "whole"
                         /\ clones'[r] = "partial" => clones[r] = "partial"
  BY <1>1 DEF IInv, TypeOK, NeedsClone
<1>4. "kayobe" \in Repo /\ "kayobe-config" \in Repo
  BY DEF Repo
<1>5. TypeOK'
  BY <1>1, <1>3, <1>4, GoesOn DEF IInv, TypeOK, Return, host
<1>6. HostInv'
  BY <1>1, <1>3 DEF IInv, HostInv, Return, host
<1>7. RunInv'
  BY <1>1, <1>2, <1>3, <1>4, FullGoesOn DEF ConfiguredOctavia, host
<1> QED BY <1>1, <1>5, <1>6, <1>7, GoesOn DEF IInv

LEMMA DisableOvnOK == ASSUME IInv, disable_ovn PROVE IInv'
<1>1. /\ Running /\ Return /\ UNCHANGED <<venv, clones, lvm_config, host>>
      /\ overrides' \in {overrides, overrides \cup {"disable-ovn.yml"}}
      /\ clones["kayobe-config"] # "absent" \/ overrides' = overrides
  BY DEF disable_ovn, Calling, Running, Possible, UsesConfig
<1>2. /\ ~Calling("clone_repositories") /\ ~Calling("disable_octavia")
      /\ ~Calling("remove_lvm_configuration") /\ ~Calling("setup_virtualenv")
      /\ ~Calling("kayobe_octavia_certificates") /\ ~Calling("kayobe_overcloud_service_deploy")
  BY DEF disable_ovn, Calling
<1>3. ConfiguredOctavia' = ConfiguredOctavia
  BY <1>1 DEF ConfiguredOctavia
<1>4. TypeOK'
  BY <1>1, GoesOn DEF IInv, TypeOK, Return, host
<1>5. HostInv'
  BY <1>1 DEF IInv, HostInv, Return, host
<1>6. RunInv'
  BY <1>1, <1>2, <1>3, FullGoesOn DEF host
<1> QED BY <1>1, <1>4, <1>5, <1>6, GoesOn DEF IInv

LEMMA DisableOctaviaOK == ASSUME IInv, disable_octavia PROVE IInv'
<1>1. /\ Running /\ Return /\ UNCHANGED <<venv, clones, lvm_config, host>>
      /\ overrides' = IF settings.octavia THEN overrides \ {"zz-disable-octavia.yml"}
                                          ELSE overrides \cup {"zz-disable-octavia.yml"}
      /\ clones["kayobe-config"] # "absent" \/ settings.octavia
  BY DEF disable_octavia, Calling, Running, Possible, UsesConfig
<1>2. /\ ~Calling("clone_repositories") /\ Calling("disable_octavia")
      /\ ~Calling("remove_lvm_configuration") /\ ~Calling("setup_virtualenv")
      /\ ~Calling("kayobe_octavia_certificates") /\ ~Calling("kayobe_overcloud_service_deploy")
  BY DEF disable_octavia, Calling
<1>3. settings.octavia \in BOOLEAN
  BY DEF IInv, TypeOK, Setting
<1>4. ConfiguredOctavia' = settings.octavia
  BY <1>1, <1>3 DEF ConfiguredOctavia
<1>5. TypeOK'
  BY <1>1, GoesOn DEF IInv, TypeOK, Return, host
<1>6. HostInv'
  BY <1>1 DEF IInv, HostInv, Return, host
<1>7. RunInv'
  BY <1>1, <1>2, <1>4, FullGoesOn DEF host
<1> QED BY <1>1, <1>5, <1>6, <1>7, GoesOn DEF IInv

LEMMA RemoveLvmOK == ASSUME IInv, remove_lvm_configuration PROVE IInv'
<1>1. /\ Running /\ Return /\ UNCHANGED <<venv, clones, overrides, host>>
      /\ lvm_config' = (lvm_config /\ (has_lvm \/ clones["kayobe-config"] = "absent"))
  BY DEF remove_lvm_configuration, Calling, Running
<1>2. /\ ~Calling("clone_repositories") /\ ~Calling("disable_octavia")
      /\ Calling("remove_lvm_configuration") /\ ~Calling("setup_virtualenv")
      /\ ~Calling("kayobe_octavia_certificates") /\ ~Calling("kayobe_overcloud_service_deploy")
  BY DEF remove_lvm_configuration, Calling
<1>3. has_lvm \in BOOLEAN /\ lvm_config \in BOOLEAN /\ (has_lvm => lvm_config)
  BY DEF IInv, TypeOK, HostInv
<1>4. /\ lvm_config' \in BOOLEAN /\ has_lvm' = has_lvm /\ (has_lvm => lvm_config')
      /\ clones["kayobe-config"] = "absent" => lvm_config' = lvm_config
  BY <1>1, <1>3 DEF host
<1>5. TypeOK'
  BY <1>1, <1>4, GoesOn DEF IInv, TypeOK, Return, host
<1>6. HostInv'
  BY <1>4 DEF HostInv
<1>7. ASSUME full PROVE lvm_config' = has_lvm
  <2>1. Made = 6
    BY <1>1, <1>2, <1>7, Places
  <2>2. Made >= 4
    BY <2>1
  <2>3. clones["kayobe-config"] # "absent"
    BY <1>1, <1>7, <2>2 DEF IInv, RunInv
  <2> QED BY <1>1, <1>3, <2>3
<1>8. RunInv'
  <2>1. CASE full
    BY <1>1, <1>2, <1>7, <2>1, FullGoesOn DEF ConfiguredOctavia, host
  <2>2. CASE ~full
    BY <1>1, <2>2 DEF RunInv, Return
  <2> QED BY <2>1, <2>2 DEF IInv, TypeOK
<1> QED BY <1>1, <1>5, <1>6, <1>8, GoesOn DEF IInv

LEMMA SetupVirtualenvOK == ASSUME IInv, setup_virtualenv PROVE IInv'
<1>1. /\ Running /\ Return /\ UNCHANGED <<checkout, host>>
      /\ clones["kayobe-config"] # "absent" /\ venv' = "installed"
  BY DEF setup_virtualenv, Calling, Running, Possible, UsesConfig
<1>2. /\ ~Calling("clone_repositories") /\ ~Calling("disable_octavia")
      /\ ~Calling("remove_lvm_configuration") /\ Calling("setup_virtualenv")
      /\ ~Calling("kayobe_octavia_certificates") /\ ~Calling("kayobe_overcloud_service_deploy")
  BY DEF setup_virtualenv, Calling
<1>3. TypeOK'
  BY <1>1, GoesOn DEF IInv, TypeOK, Venv, Return, checkout, host
<1>4. HostInv'
  BY <1>1 DEF IInv, HostInv, Return, checkout, host
<1>5. RunInv'
  BY <1>1, <1>2, FullGoesOn DEF ConfiguredOctavia, checkout, host
<1> QED BY <1>1, <1>3, <1>4, <1>5, GoesOn DEF IInv

LEMMA ConfigureNetworkOK == ASSUME IInv, configure_network PROVE IInv'
<1>1. /\ Running /\ Return /\ links' \subseteq Link
      /\ UNCHANGED <<venv, checkout, has_lvm, octavia_files, automation, deployed>>
  BY DEF configure_network, Calling, Running, IInv, TypeOK
<1>2. /\ ~Calling("clone_repositories") /\ ~Calling("disable_octavia")
      /\ ~Calling("remove_lvm_configuration") /\ ~Calling("setup_virtualenv")
      /\ ~Calling("kayobe_octavia_certificates") /\ ~Calling("kayobe_overcloud_service_deploy")
  BY DEF configure_network, Calling
<1>3. TypeOK'
  BY <1>1, GoesOn DEF IInv, TypeOK, Return, checkout
<1>4. HostInv'
  BY <1>1 DEF IInv, HostInv, Return, checkout
<1>5. RunInv'
  BY <1>1, <1>2, FullGoesOn DEF ConfiguredOctavia, checkout
<1> QED BY <1>1, <1>3, <1>4, <1>5, GoesOn DEF IInv

LEMMA CertificatesOK == ASSUME IInv, kayobe_octavia_certificates PROVE IInv'
<1>1. /\ Running /\ Return
      /\ UNCHANGED <<venv, checkout, has_lvm, links, automation, deployed>>
      /\ octavia_files \subseteq octavia_files'
      /\ octavia_files' \subseteq {"certificates", "openrc"}
      /\ settings.octavia => "certificates" \in octavia_files'
  BY DEF kayobe_octavia_certificates, Calling, Running, IInv, TypeOK
<1>2. /\ ~Calling("clone_repositories") /\ ~Calling("disable_octavia")
      /\ ~Calling("remove_lvm_configuration") /\ ~Calling("setup_virtualenv")
      /\ ~Calling("kayobe_overcloud_service_deploy")
  BY DEF kayobe_octavia_certificates, Calling
<1>3. TypeOK'
  BY <1>1, GoesOn DEF IInv, TypeOK, Return, checkout
<1>4. HostInv'
  BY <1>1 DEF IInv, HostInv, Return, checkout
<1>5. RunInv'
  BY <1>1, <1>2, FullGoesOn DEF ConfiguredOctavia, checkout
<1> QED BY <1>1, <1>3, <1>4, <1>5, GoesOn DEF IInv

LEMMA ServiceDeployOK == ASSUME IInv, kayobe_overcloud_service_deploy PROVE IInv'
<1>1. /\ Running /\ Return
      /\ UNCHANGED <<venv, checkout, has_lvm, links, automation>>
      /\ deployed' = [ovs |-> ConfiguredOvs, octavia |-> ConfiguredOctavia, running |-> TRUE]
      /\ ConfiguredOctavia => "certificates" \in octavia_files
      /\ octavia_files' = IF ConfiguredOctavia THEN octavia_files \cup {"openrc"}
                                               ELSE octavia_files
  BY DEF kayobe_overcloud_service_deploy, Calling, Running, Possible
<1>2. /\ ~Calling("clone_repositories") /\ ~Calling("disable_octavia")
      /\ ~Calling("remove_lvm_configuration") /\ ~Calling("setup_virtualenv")
      /\ ~Calling("kayobe_octavia_certificates")
  BY DEF kayobe_overcloud_service_deploy, Calling
<1>3. /\ octavia_files \subseteq octavia_files'
      /\ octavia_files' \subseteq {"certificates", "openrc"}
      /\ ConfiguredOctavia => "openrc" \in octavia_files'
      /\ deployed'.octavia => octavia_files' = {"certificates", "openrc"}
  BY <1>1 DEF IInv, TypeOK
<1>4. TypeOK'
  BY <1>1, <1>3, GoesOn DEF IInv, TypeOK, Return, checkout
<1>5. HostInv'
  BY <1>1 DEF IInv, HostInv, Return, checkout
<1>6. RunInv'
  <2>1. ConfiguredOctavia' = ConfiguredOctavia /\ has_lvm' = has_lvm /\ lvm_config' = lvm_config
        /\ venv' = venv /\ clones' = clones
    BY <1>1 DEF ConfiguredOctavia, checkout
  <2> QED BY <1>1, <1>2, <1>3, <2>1, FullGoesOn
<1> QED BY <1>1, <1>4, <1>5, <1>6, GoesOn DEF IInv

LEMMA RunTempestOK == ASSUME IInv, run_tempest PROVE IInv'
<1>1. /\ Running /\ Return /\ automation' \in BOOLEAN
      /\ UNCHANGED <<venv, checkout, has_lvm, links, octavia_files, deployed>>
  BY DEF run_tempest, Calling, Running
<1>2. /\ ~Calling("clone_repositories") /\ ~Calling("disable_octavia")
      /\ ~Calling("remove_lvm_configuration") /\ ~Calling("setup_virtualenv")
      /\ ~Calling("kayobe_octavia_certificates") /\ ~Calling("kayobe_overcloud_service_deploy")
  BY DEF run_tempest, Calling
<1>3. TypeOK'
  BY <1>1, GoesOn DEF IInv, TypeOK, Return, checkout
<1>4. HostInv'
  BY <1>1 DEF IInv, HostInv, Return, checkout
<1>5. RunInv'
  BY <1>1, <1>2, FullGoesOn DEF ConfiguredOctavia, checkout
<1> QED BY <1>1, <1>3, <1>4, <1>5, GoesOn DEF IInv
----------------------------------------------------------------------------
(* The invariant of every step: what a run that goes on finds, and what    *)
(* one that ends leaves.                                                   *)
THEOREM Inductive == IInv /\ [Next]_vars => IInv'
<1> SUFFICES ASSUME IInv, [Next]_vars PROVE IInv'
  OBVIOUS
<1>1. CASE UNCHANGED vars
  <2>1. /\ UNCHANGED <<settings, todo, full, venv, has_lvm, links, octavia_files, automation,
                      deployed>>
        /\ UNCHANGED <<clones, overrides, lvm_config>>
    BY <1>1 DEF vars
  <2>2. Full' = Full /\ \A command \in Command : FunctionsOf(command)' = FunctionsOf(command)
    BY <2>1, SameFunctions
  <2>3. TypeOK'
    BY <2>1, <2>2 DEF IInv, TypeOK
  <2>4. HostInv' /\ RunInv'
    BY <2>1, <2>2 DEF IInv, HostInv, RunInv, Running, Made, ConfiguredOctavia
  <2> QED BY <2>1, <2>3, <2>4 DEF IInv
<1> QED BY <1>1, EditSettingsOK, MainOK, FailOK, CrashOK, NothingReadOK, CloneOK, DisableOvnOK,
           DisableOctaviaOK, RemoveLvmOK, SetupVirtualenvOK, ConfigureNetworkOK, CertificatesOK,
           ServiceDeployOK, RunTempestOK, TempestEndsOK
        DEF Next

LEMMA Invariant == Spec => []IInv
BY InitOK, Inductive, PTL DEF Spec

(* Whatever runs, fails and is run again: Kayobe is installed from, and    *)
(* overrides are written to, a checkout that is there, and an Octavia that *)
(* was deployed has its certificates and credentials                       *)
(* (etc/kayobe/environments/aio).                                          *)
THEOREM TypeCorrect == Spec => []TypeOK
<1>1. IInv => TypeOK
  BY DEF IInv
<1> QED BY <1>1, Invariant, PTL

(* Whatever earlier runs left, failed, interrupted or cut short anywhere,  *)
(* and whatever the settings: each function that a full deployment calls   *)
(* finds what it needs, but for a virtualenv without bin/activate and a    *)
(* Tempest that still runs.                                                *)
THEOREM RunsAgain == Spec => []OnlyHalfMadeBlocks
<1>1. IInv => OnlyHalfMadeBlocks
  <2> SUFFICES ASSUME IInv, full, Running, ~Possible(Head(todo))
               PROVE  \/ Calling("setup_virtualenv") /\ venv = "partial"
                      \/ Calling("run_tempest") /\ automation
    BY DEF OnlyHalfMadeBlocks
  <2>1. \/ Head(todo) = "setup_virtualenv" /\ venv = "partial"
        \/ Head(todo) = "run_tempest" /\ automation
    BY FindsAll
  <2> QED BY <2>1 DEF Calling, Running
<1> QED BY <1>1, Invariant, PTL

(* A full run deploys Octavia if and only if it was asked to, and uses LVM *)
(* if and only if the host has it, whatever earlier runs were asked.       *)
THEOREM DeploysAsAsked == Spec => []OctaviaAsAsked
<1>1. IInv => OctaviaAsAsked
  <2> SUFFICES ASSUME IInv, full, Calling("kayobe_overcloud_service_deploy")
               PROVE  ConfiguredOctavia = settings.octavia /\ lvm_config = has_lvm
    BY DEF OctaviaAsAsked
  <2>1. Running
    BY DEF Calling, Running
  <2>2. Made = 14
    BY <2>1, Places
  <2>3. Made >= 6 /\ Made >= 7
    BY <2>2
  <2> QED BY <2>1, <2>3 DEF IInv, RunInv
<1> QED BY <1>1, Invariant, PTL
=============================================================================
