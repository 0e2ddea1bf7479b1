INIT Init
NEXT Next
CONSTANTS
  NoPlugin = "none"
  Plugins = {"a", "b", "c", "q"}
  Families = {"family", "quarantined"}
  Paths = {"b.md", "c.md", "q.md", "g.md", "p.md"}
  Servers = {"m", "mq"}
  Quarantined = {"q", "q.md", "mq", "quarantined"}
  Family <- MCFamily
  Cached <- MCCached
  Aliases <- MCAliases
  CatalogCases <- MCCatalogCases
  Tasks = {1, 2, 3, 4}
  Workers = {"w1", "w2"}
  Operations <- MCOperations
  EffectRefs = {"main"}
  Objects <- Commits
  Intents = {"i1"}
  Recipes = {"pinned", "moving"}
  Durations = {1}
  MaxAttempts = 2
  NoWorker = NoWorker
  NoObject = NoObject
  NoRecipe = NoRecipe
  NoOperation = NoOperation
  NoRef = NoRef
  NoIntent = NoIntent
  Runners = {"l1", "l2"}
  Worker <- MCWorker
  MovingBase = {"moving"}
  Intent = "i1"
  Scenarios <- MCScenarios
  Main = "main"
  MaxEpoch = 3
  MaxPushes = 1
  MaxVersion = 11
  MaxClock = 2
  Searches <- MCSearches
  Sources <- MCSources
  TestFiles <- MCTestFiles
  Scripts <- MCScripts
  Declarations <- MCDeclarations
  MaxRange = 2
  Mutations <- MCMutations
  TestCases = {"c1", "c2"}
  FocusOf <- MCFocusOf
  Faults <- MCFaults
  GateCommits = {"c1", "c2"}
  NoCommit = "none"
  Outcomes = {"pass", "red", "setup"}
  MaxMoves = 2
  Lessons = {"lesson"}
  GateFiles = {"gate"}
  TestOf <- MCTestOf
  GatesOf <- MCGatesOf
  MaxCommits = 3
  Harness = {1, 2, 3}
  Histories <- MCHistories
  ManagedLinks = {"x"}
  Requirements <- MCRequirements
  CheckStarts <- MCCheckStarts
  MaxTurns = 3
  NoDigest = "none"
  Frictions = {"first", "second"}
  FirstPages <- MCFirstPages
  Pages <- MCPages
  Diffs <- MCDiffs
  Messages <- MCMessages
  RecallModes = {"obligation", "strict"}
  DeclaredIn <- MCDeclaredIn
  TicketScopes <- MCTicketScopes
  Present = {"a", "b"}
  TestReferences = {"proof"}
  LiveGates = {"gate", "audit"}
  StructuralGates = {"gate"}
  PassingTests = {"proof"}
  NoRow = NoRow
  MaxCommitted = 2
INVARIANT OverridesShow
CHECK_DEADLOCK FALSE
