\* Inputs with up to three adapters, with and without additional-methods.js.
SPECIFICATION Spec
CONSTANT
  Elements <- UpToThree
INVARIANTS
  LimitsEnforced
  AcceptedMeetsLimits
  EmptyIsMissing
