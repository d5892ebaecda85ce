SPECIFICATION Spec
CONSTANTS
  text = text
  noise = noise
  nil = nil
  bulk = bulk
  huge = huge
  Base = 8
  MaxLetter = 3
  HeadSize = 3
  Paths <- MCPaths
  Crc <- MCCrc
  Contents = {text, noise, nil, bulk, huge}
  Octets <- MCOctets
  Bytes <- MCBytes
  Deflated <- MCDeflated
  Trees <- MCTrees
  Versions = {2}
  ToCs = {"attrib"}
  MaxFiles = 3
  MaxAttempts = 1
  Tasks <- MCTasks
  Outcomes <- MCOutcomes
  WorkerCount = 2
INVARIANT LoadableIsComplete
CHECK_DEADLOCK FALSE
