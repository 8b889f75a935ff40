SPECIFICATION Spec
CONSTANTS
  Partitions = {0, 1}
  MaxEnd = 2
  MaxLo = 1
  Hits <- MCHits
  Requests <- MCResumes
  MaxRequests = 2
  DefaultLimit = 2
  ScanFloor = 3
  ScanFactor = 2
  ExportLimit = 1
  ExportMax = 2
  MaxBatch = 2
INVARIANT ResumeStartsAtCursor
