CONSTANTS
  f1 = f1
  f2 = f2
  f3 = f3
  h1 = h1
  h2 = h2
  Files = {f1, f2, f3}
  Contents = {"x", "y", "z"}
  LengthOf <- MCLengthOf
  HeadOf <- MCHeadOf
  Hashers = {h1, h2}
  Ceiling = 4
  MaxFilesCounted = 4
  Trees <- MCTrees
  Directories <- MCDirectories
  DataRoots <- MCDataRoots
  NeverOrphans = {"microsoft"}
  Holds <- MCHolds
  Short = {"bar", "bin"}
  Holders <- Uniform
  Disk <- MCDisk
  Detections = {"d1", "d2"}
  Services = {"s1", "s2", "s3"}
  Retries = 1
  MaxWrites = 2
  MaxClock = 2
  TaskDepth = 1
  Accounts = {"ann", "bob"}
  Ordinary = "person"
  NoList = noList
  Parsers = {1, 2}
  ChunkSectors = 4
  MaxShort = 2
  Volumes <- MCVolumes
  RootRecord = 1
  PathBound = 4
  MaxDepth = 2
  MaxChildren = 1
  LargestKept = 2
  NameOf <- MCNameOf
  Inputs <- MCInputs
SPECIFICATION DecisionsSpec
CHECK_DEADLOCK FALSE
INVARIANTS
    DiskIsReadTrue
    RemovalsAreFenced
    GapsAreAdmitted
    VerdictsAreEarned
    IndexIsTrue
