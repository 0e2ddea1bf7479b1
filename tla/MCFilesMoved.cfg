INIT FilesInit
NEXT FilesNext
CONSTANTS
  None = "none"
  Commits = {"first", "second", "third"}
  Targets = {"x", "y", "z"}
  Manifest <- MCManifest
  Sealed = {"first"}
  Hosts <- MCHosts
  Keep = 1
  Interference = {}
  MaxApplies = 2
  MaxPrunes = 1
  Exports = {"e1", "e2"}
  FileCount = 2
  Pin <- MCPin
  ExportStarts <- MCExportStarts
  MaxEdits = 2
  Sealers = {"s1", "s2"}
  SealStarts <- MCSealStarts
  ReleaseCommits = {"c1", "c2"}
  Digests = {"d1", "d2"}
  Unsealed = Unsealed
  Pieces = 2
  Torn = Torn
  Appliers = {"a1", "a2"}
  ConfigTexts = {"t1", "t2", "t3"}
  PlanOf <- MCPlanOf
  ConfigStarts <- MCConfigStarts
  MaxFiles = 4
  NoText = NoText
  Setups = {"s1", "s2"}
  Sentences = {"w1"}
  Template = "template"
  SetupStarts <- MCSetupStarts
  NoSetup = NoSetup
  TicketPaths = {1, 2}
  Ids = {"k1", "k2"}
  ImportStarts <- MCImportStarts
  TicketEdits <- MCTicketEdits
  LegacyWorkers = {"w1"}
  NoFile = NoFile
  CapsuleTexts <- MCCapsuleTexts
  CapsuleStores <- MCCapsuleStores
  Candidates = {"k"}
  HandEdits <- Hands
  MaxHands = 2
PROPERTY ReleaseLinksAreReplaced
CHECK_DEADLOCK FALSE
