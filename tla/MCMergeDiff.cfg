SPECIFICATION Spec
CONSTANT MaxPush = 2
INVARIANT DiffIsTheProposal
