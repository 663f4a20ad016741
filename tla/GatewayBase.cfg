CONSTANTS
  Handlers = {handler1, handler2}
  Readers = {reader}
  Controller = controller
  Candidates <- MCCandidates
  Sizes = {2}
  MaxMappings = 4
  MaxRecords = 2
  MaxStarts = 1
SYMMETRY HandlerSymmetry
SPECIFICATION Spec
INVARIANTS SnapshotCoversJoined PointerReadsFirstMatch
PROPERTY FirstMatchStable
