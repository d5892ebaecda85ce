SPECIFICATION Spec
CONSTANTS
  text = text
  noise = noise
  nil = nil
  bulk = bulk
  huge = huge
  Base = 8
  MaxLetter = 3
  HeadSize = 3
  Paths <- MCPaths
  Crc <- MCCrc
  Contents = {text, noise, nil, bulk, huge}
  Octets <- MCOctets
  Bytes <- MCBytes
  Deflated <- MCDeflated
  Trees <- MCTrees
  Versions = {4, 5}
  ToCs = {"attrib"}
  MaxFiles = 3
  MaxAttempts = 2
  Tasks <- MCTasks
  Outcomes <- MCOutcomes
  WorkerCount = 2
INVARIANTS TypeOK LoadableIsComplete LookupsAgree DoneLeavesNoTask
PROPERTIES AcceptedAtTheEnd CreationEnds
CHECK_DEADLOCK FALSE
