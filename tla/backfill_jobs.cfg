SPECIFICATION FairSpec
CONSTANTS
  Symbols = {s1, s2}
  Days = 1
  Proofs = {h1, h2}
  Unstable = {s1}
  NoProof = NoProof
  NoJob = NoJob
  MaxSubmits = 2
  MaxCancels = 1
  MaxTroubles = 1
INVARIANTS
  TypeOK
  VerifiedIsCommitted
PROPERTIES
  PublishedWhileRunning
  Reconciled
CHECK_DEADLOCK FALSE
