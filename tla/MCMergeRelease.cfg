SPECIFICATION Spec
CONSTANT MaxPush = 2
INVARIANTS
  TypeOK
  ProposalHasTheMerge
PROPERTY MergeNotDiscarded
