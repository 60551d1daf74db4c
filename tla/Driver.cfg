SPECIFICATION Spec
CONSTANTS
  Trees <- MCTrees
INVARIANTS
  JsonIsPackage
  CountsAddUp
  EveryFunctionHasTests
