SPECIFICATION Spec
CONSTANTS
  Theme <- MCTheme
  MaxIndex = 1
  Key <- MCKey
  Space <- MCSpace
  Managed = {"rdf", "xml", "adobe"}
  Markup = {"&"}
INVARIANTS
  WritesReadBack
  ListsAgree
  UntouchedReadsSame
PROPERTIES
  OthersUntouched
