SPECIFICATION Spec
CONSTANTS
  TagVar <- MCTagVar
  KeyName <- MCKeyName
  Distro = {"rocky", "ubuntu"}
  Image = {"nova-compute", "nova-compute-ironic", "neutron-mlnx-agent"}
  Containers <- MCContainers
  PrefixException <- MCPrefixException
  Unbuildable <- MCUnbuildable
  KollaParent <- MCKollaParent
INVARIANTS
  TypeOK
  ListedIsDeployed
  JudgedByOwnAnswer
  CheckedIsDeployable
