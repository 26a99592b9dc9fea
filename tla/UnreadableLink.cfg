\* A donation whose links may lead to no video.
SPECIFICATION DataSpec
CONSTANTS
  WatchWindow = {1, 2}
  Exports <- SampleExports
  EarlyExports <- EarlySamples
CHECK_DEADLOCK FALSE
INVARIANT VideosEnterRegistry
