SPECIFICATION FairSpec
CONSTANTS
  NumPorts = 2
  Blocks <- MCBlocks
  Bytes <- MCBytes
  Formatted <- MCFormatted
  NoReply = NoReply
  NoJob = NoJob
  Absent = Absent
  Short = Short
  FaultKinds <- MCOpenFaults
  MaxFaults = 1
INVARIANTS TypeOK CleanMeansOnDisk CleanExitSaves
PROPERTIES OnlyFlushTruncates ImplementsPakStore WritesReachDisk
