SPECIFICATION Spec
CONSTANTS
  Streams = {s1, s2}
  Warmup = 1
  Length = 2
  Grace = 1
  Chunk = 2
  PerStream = 2
  Least = 2
  Jump = 2
PROPERTY
  NoSnapshotBetweenReads
CHECK_DEADLOCK FALSE
