CONSTANTS
  Seeds = {1}
  Colonies <- ThreeColonies
  DebugTools = TRUE
  Damages = TRUE
  MaxRevision = 6
  MaxLegacy = 12
  MaxGeneration = 3
  Digits = 6
SPECIFICATION Spec
INVARIANT LedgerBalances
INVARIANT CreditedOnce
INVARIANT RunIdsAreFresh
INVARIANT PromiseKept
INVARIANT ViewMatchesStore
INVARIANT TraitsAppliedOnce
INVARIANT HelpedNeverFlies
