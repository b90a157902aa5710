----------------------------- MODULE MCPlaybooks -----------------------------
(* Two hosts with two instances; two routers, one of which shares its only *)
(* network, with a group of all chassis, with the other; four images of    *)
(* three versions.  What is not the subject's begins in few ways.          *)
EXTENDS Playbooks, TLC

CONSTANTS r1, n2

MCAttached == [r \in Router |-> IF r = r1 THEN Network ELSE {n2}]

MCInit ==
  /\ InitPlaybooks
  /\ subject # "secrets" => had = Secrets!VaultFile /\ had_ca = {}
  /\ subject = "ovn" => DOMAIN group[n2] = Host
  /\ subject # "ovn" => /\ gateway = [r \in Router |-> <<>>]
                        /\ group = [n \in Network |-> <<>>]

MCSpec == MCInit /\ [][NextPlaybooks]_allvars

Symmetry == Permutations(Host) \cup Permutations(Instance)
============================================================================
