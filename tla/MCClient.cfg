SPECIFICATION MCSpec
CONSTANTS
  n1 = n1
  n2 = n2
  f1 = f1
  f2 = f2
  Natives = {n1, n2}
  Objects <- MCObjects
  Scenes = {"subs", "calls", "delays", "natives", "gates"}
  MaxGen = 2
  Apps <- MCApps
  Types = {"CANCEL", "STATE"}
  Callbacks = {f1, f2}
  Workers <- MCWorkers
  Calls <- MCCalls
  Operations <- MCOperations
  Callers <- MCCallers
  MaxDelays = 2
  MaxSubs = 3
INVARIANTS
  
  AnswersTrue
  
  RegistriesAgree
  
PROPERTIES
  CallsSettle
  DelayTold
CHECK_DEADLOCK FALSE
