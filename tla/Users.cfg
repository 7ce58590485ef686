SPECIFICATION Spec
CONSTANTS
  Text <- MCText
  Width = 3
  Stamp <- MCStamp
  Recommended <- MCRecommended
  LegacyHosts = {}
  Decoded <- MCDecoded
  EnvBlockSubdomains = FALSE
  Requests = {r1, r2}
  Asks <- MCAsks
  AccessKeys <- MCAccessKeys
  Filters <- MCFilters
  Names <- MCNames
  Wildcards <- MCWildcards
  AnySni = FALSE
  NotAlnum = {"k_"}
  Commands = {"logs", "analytics", "search"}
  Delegated <- MCDelegated
  MemSize = 1
  CacheSize = 1
INVARIANTS
  TypeOK
  AuthorisedByKey
  BlockedByChoice
  TellsWhichLists
