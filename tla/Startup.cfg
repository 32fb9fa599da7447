CONSTANTS
  svc = svc
  older = older
  newer = newer
  nobody = nobody
  person = person
  noList = noList
  Agents = {svc, older, newer}
  Service = svc
  NoOne = nobody
  Ordinary = person
  NoList = noList
  Oldest = 3
  Newest = 6
  MaxFaults = 2
  MaxCommands = 1
  SchemaOf <- MCSchemaOf
  Homes <- MCHomes
  Bait <- MCBait
SPECIFICATION StartupSpec
CHECK_DEADLOCK FALSE
INVARIANTS
    StoreOpensWhole
    
PROPERTIES
    StopIsHonoured
    ComesBack
