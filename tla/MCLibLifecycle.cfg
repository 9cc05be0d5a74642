CONSTANTS
  main = main
  worker = worker
  u1 = u1
  u2 = u2
  Threads <- MCThreads
  Main = main
  Units <- MCUnits
  Constructors = {TRUE, FALSE}
SPECIFICATION LifecycleSpec
INVARIANTS LifecycleTypeOK ReadyMeansDispatched SuccessHasArenas BuffersOwned
SYMMETRY MCSymmetry
