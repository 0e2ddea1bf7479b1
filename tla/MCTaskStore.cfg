SPECIFICATION Spec
CONSTANTS
  Tasks = {1, 2}
  w1 = w1
  w2 = w2
  c1 = c1
  c2 = c2
  main = main
  x = x
  y = y
  recipe = recipe
  Clients = {c1, c2}
  WorkerOf <- MCWorkerOf
  Workers = {w1, w2}
  Scenarios <- MCScenarios
  ClaimAttempts = 2
  Operations = {o1}
  EffectRefs = {main}
  Objects = {x, y}
  Intents = {i1}
  Recipes = {recipe}
  Durations = {1}
  MaxAttempts = 2
  NoWorker = NoWorker
  NoObject = NoObject
  NoRecipe = NoRecipe
  NoOperation = NoOperation
  NoRef = NoRef
  NoIntent = NoIntent
  Imports <- MCImports
  MaxVersion = 5
  MaxClock = 1
  MaxRevision = 1
INVARIANT OneClientPerGeneration
PROPERTY ImplementsTaskQueue
CHECK_DEADLOCK FALSE
