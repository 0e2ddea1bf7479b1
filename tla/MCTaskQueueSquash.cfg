INIT MCInit
NEXT MCNext
CONSTANTS
  Tasks = {1, 2}
  w1 = w1
  w2 = w2
  main = main
  side = side
  x = x
  y = y
  recipe = recipe
  Workers = {w1, w2}
  Operations = {o1, o2}
  EffectRefs = {main}
  Objects = {x}
  Intents = {i1}
  Recipes = {recipe}
  Durations = {1}
  MaxAttempts = 2
  NoWorker = NoWorker
  NoObject = NoObject
  NoRecipe = NoRecipe
  NoOperation = NoOperation
  NoRef = NoRef
  NoIntent = NoIntent
  Imports <- MCImports
  MaxVersion = 7
  MaxClock = 2
  MaxRevision = 2
  Signatures = {"s1"}
  NoSignature = "no signature"
  Hunks = {"work", "test"}
  Observer = "test"
  Careless = {recipe}
  Branches = {main, side}
  CheckCases <- MCCheckCases
  MaxMade = 4
  MaxClaims = 2
INVARIANT SquashedProofsHold
CHECK_DEADLOCK FALSE
