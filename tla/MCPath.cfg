\* One job; blocks of every small layout; every failure until they are over.
SPECIFICATION FairSpec
CONSTANTS
  Base = 2
  HashLen = 2
  Requests = {r1}
  Blocks <- AllLayouts
  MaxHeight = 1
  Asked <- FirstBlockJob
  BlobHash <- ZeroHash
  Faults = {"rpc", "lag", "bad_answer", "zk", "unhandled", "db", "crash"}
INVARIANTS
  TypeOK
  StoredInputIsProvable
  ProofIsAboutTheJob
PROPERTIES
  BlobOnChainIsProved
\* A job with its answer is left alone.
CHECK_DEADLOCK FALSE
