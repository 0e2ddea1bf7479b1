SPECIFICATION FairSpec
CONSTANTS
  Tasks = {1, 2}
  w1 = w1
  w2 = w2
  c1 = c1
  c2 = c2
  main = main
  x = x
  y = y
  recipe = recipe
  Clients = {c1, c2}
  WorkerOf <- MCWorkerOf
  Workers = {w1, w2}
  Scenarios <- AskScenarios
  ClaimAttempts = 2
  Operations = {}
  EffectRefs = {}
  Objects = {x}
  Intents = {}
  Recipes = {recipe}
  Durations = {1}
  MaxAttempts = 2
  NoWorker = NoWorker
  NoObject = NoObject
  NoRecipe = NoRecipe
  NoOperation = NoOperation
  NoRef = NoRef
  NoIntent = NoIntent
  Imports <- MCImports
  MaxVersion = 11
  MaxClock = 0
  MaxRevision = 1
PROPERTIES ReadyTasksGetClaimed
CHECK_DEADLOCK FALSE
