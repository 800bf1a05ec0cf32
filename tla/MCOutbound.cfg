SPECIFICATION MCSpec
CONSTANTS
  Segments = {s1}
  Playlist = playlist
  MaxVersion = 3
  MaxFaults = 1
  Took = {0, 3}
INVARIANTS SinkMatches CopiesBounded
PROPERTIES LocalFilesReachSink
CHECK_DEADLOCK FALSE
