SPECIFICATION FairSpec
CONSTANTS
  NestingLimit = 2
  IntMax = 536870911
  Modulus = 1073741824
  NoFile = NoFile
  Name <- MCName
  Spelling <- MCSpelling
  Meaning <- MCMeaning
  Dashed <- MCDashed
  Scenarios <- MCScenarios
INVARIANTS TypeOK MemoryIsOwned ListsAreLinked ParsesExactly ConfigurationIsSupplied OptionsDecide LoadedAsLinked ResourcesReturned
PROPERTIES Ends
