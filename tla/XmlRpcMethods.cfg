SPECIFICATION FairSpec
CONSTANTS
  UserMethod = {m1, m2}
  ListMethods = listMethods
  MethodHelp = methodHelp
  NoMethod = null
  UserName = {a, LIST}
  LIST_METHODS = LIST
  METHOD_HELP = HELP
  MULTICALL = MULTI
  Nameless = nameless
  Mistyped = mistyped
  Entry = {a, LIST, nameless, mistyped, MULTI}
  MaxEntries = 2
  MaxLevel = 2
CHECK_DEADLOCK FALSE
INVARIANTS
  RegistrySound
  MulticallSound
PROPERTIES
  Answered
