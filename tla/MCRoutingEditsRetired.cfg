SPECIFICATION Spec
CONSTANTS
  Channels = {"c1", "c2"}
  Models = {"m1", "m2", "unnameable"}
  Catalog <- MCCatalog
  Nameable <- MCNameable
  AliasNames <- MCAliasNames
  Groups = {pool}
  main = main
  CandidateLists <- MCCandidateLists
  Baselines <- MCBaselines
  None = None
INVARIANTS RetiredStaysRetired
