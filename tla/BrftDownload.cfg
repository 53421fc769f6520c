\* Files of less than a chunk up to several chunks, one overwritten version, two cuts.
SPECIFICATION FairSpec
CONSTANTS
  FileSizes = {0, 1, 2, 3, 4, 5, 7}
  ServerChunk = 2
  ClientChunk = 3
  MinFileSize = 2
  Compressions = {TRUE, FALSE}
  MaxVersions = 2
  MaxCuts = 2
  Crashes = TRUE
  Requests = {0, 1, 2}
INVARIANTS TypeOK WholeIsRight OffsetsAgree OfferFits CodingAgrees
PROPERTIES ProgressKept AttemptEnds DownloadCompletes
\* The system rests once the file is whole or beyond resuming.
CHECK_DEADLOCK FALSE
