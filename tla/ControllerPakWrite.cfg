SPECIFICATION FairSpec
CONSTANTS
  NumPorts = 2
  Blocks <- MCBlocks
  Bytes <- MCBytes
  Formatted <- MCFormatted
  NoReply = NoReply
  NoJob = NoJob
  Absent = Absent
  Short = Short
  FaultKinds <- MCWriteFaults
  MaxFaults = 1
INVARIANT CleanMeansOnDisk
