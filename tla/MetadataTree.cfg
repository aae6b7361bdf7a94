SPECIFICATION FairSpec
CONSTANTS
  Key = {"v", "a", "b", "d", "x", "y"}
  RootKey = "root"
  Group = {"root", "choice", "seq", "inA"}
  Choice = {"choice"}
  Unbounded = 5
  MaxNode = 4
  Elements <- MCElements
  MinOccurs <- MCMinOccurs
  MaxOccurs <- MCMaxOccurs
  Items <- MCItems
  KeysUnder <- MCKeysUnder
  MdPaths <- MCMdPaths
  GetPaths <- MCGetPaths
  DeletePaths <- MCDeletePaths
INVARIANTS
  OccurrencesNumbered
  ChoiceExclusive
  WithinMaxOccurs
  GetMetadatumFindsPath
  EmptyKeyGetsEverything
  DeletesWhatIsNamed
  DescendingListDeletesNamed
PROPERTIES
  FilledToMinOccurs
  CallsReturn
