SPECIFICATION Spec
CONSTANTS
  Names <- MCNames
  BlockLens <- MCBlockLens
  MaxBeyond = 2
  Base = 4
INVARIANTS
  LogHoldsBlock
