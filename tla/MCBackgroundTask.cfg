SPECIFICATION Spec
CONSTANTS
  main = main
  audio_loop = audio_loop
  processor = processor
  Clients <- MCClients
  MaxTasks = 4
INVARIANTS
  IInv
  NoLostWakeup
PROPERTIES
  Barrier
  WaitReturns
  ExecutorSpec
