---------------------------- MODULE MCKollaTags ----------------------------
(* Three images, four containers; an exception whose parent has a parent,  *)
(* another exception, a key that is no tag variable, two distributions.    *)
EXTENDS KollaTags

Nova == <<"nova">>
Compute == <<"nova", "c", "ompute">>
Ironic == <<"nova", "c", "ompute", "ironic">>
Neutron == <<"neutron">>
Mlnx == <<"neutron", "mlnx">>
Eswitchd == <<"neutron", "eswitchd">>
Typo == <<"nova", "c">>

MCTagVar == {OpenStack, Nova, Compute, Ironic, Neutron, Mlnx, Eswitchd}
MCKeyName == {Nova, Ironic, Neutron, Mlnx, Typo}
MCContainers ==
  [image \in Image |-> CASE image = "nova-compute" -> {Compute}
                        [] image = "nova-compute-ironic" -> {Ironic}
                        [] image = "neutron-mlnx-agent" -> {Mlnx, Eswitchd}]
MCPrefixException == (Ironic :> Nova) @@ (Eswitchd :> Mlnx)
MCUnbuildable ==
  [d \in Distro |-> IF d = "rocky" THEN {"nova-compute-ironic"} ELSE {}]
MCKollaParent ==
  (Nova :> OpenStack) @@ (Compute :> Nova) @@ (Ironic :> Nova)
    @@ (Neutron :> OpenStack) @@ (Mlnx :> Neutron) @@ (Eswitchd :> Mlnx)
============================================================================
