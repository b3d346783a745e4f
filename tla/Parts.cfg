SPECIFICATION PartsSpec
CONSTANTS
  Signatures = {s1, s2}
  TargetRows = 8
  MinInputs = 3
  MaxInputs = 4
  SizeRatio = 2
  BatchSizes = {1, 2, 8}
  MaxRows = 10
  MetricFiles = {m1}
  BlobFiles = {b1}
  Servers = {main, rival}
  Main = main
  RootsOf <- OneSharesBlobs
  NoCatalog = NoCatalog
  NoBundle = NoBundle
  MaxMishaps = 3
  PageSize = 2
  FirstArtifacts = 3
  FirstRuns = 2
  NoExport = NoExport
  MaxToken = 3
  MaxAborts = 1
  MetricKeys = {1, 2, 3, 4}
  SystemKeys = {2}
  MaxPreview = 2
  MaxPoints = 3
  Numbers = {"exact", "long", "longer"}
  Logged <- LoggedNumbers
  Parsed <- ReadNumbers
  Artifacts = {a1, a2, a3}
  Aliases = {latest}
  Runs = {w1}
  MaxVersion = 2
  Requests = {r1, r2, r3}
  AdmissionLimit = 2
  MutationLocks = 2
  Workers <- OneEach
SYMMETRY Interchangeable
INVARIANTS SeedsAreCandidates RewritesAreBounded
  CatalogNamesFiles FailedRestoreIsUndone
  PreviewsAgree AliasesNameTheNewest NoCircularWait
PROPERTIES RestoresWhatWasBackedUp ExportsOneMoment
CHECK_DEADLOCK FALSE
