SPECIFICATION Spec
CONSTANTS
  ui = ui
  mqtt = mqtt
  main = main
  Threads <- MCThreads
  MaxTasks = 4
INVARIANTS
  IInv
  QuietSleep
PROPERTIES
  ExecutorSpec
