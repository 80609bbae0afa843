\* One job and one block; the prover network fails requests in every way.
SPECIFICATION FairSpec
CONSTANTS
  Base = 2
  HashLen = 2
  Requests = {r1}
  Blocks <- OneLayout
  MaxHeight = 1
  Asked <- FirstBlockJob
  BlobHash <- ZeroHash
  Faults = {"zk"}
PROPERTIES
  AnnouncedRetryStartsOver
\* A job with its answer is left alone.
CHECK_DEADLOCK FALSE
