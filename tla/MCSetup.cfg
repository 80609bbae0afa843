\* Five callers, every failure, restarts, under fair scheduling.
SPECIFICATION FairSpec
CONSTANTS
  Callers <- FiveCallers
  Nobody <- NoCaller
  Faults = {"db", "setup", "crash", "foreign"}
INVARIANTS
  OneInitialiser
  NobodyWaitsInVain
  SingleInstance
  StoredBeforeUse
PROPERTIES
  GeneratedOnce
  CallersAreServed
