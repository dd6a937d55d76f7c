SPECIFICATION Spec
CONSTANTS
  r1 = r1
  r2 = r2
  f1 = f1
  f2 = f2
  f3 = f3
  Requests = {r1, r2}
  Files = {f1, f2, f3}
  Paths <- AllPaths
  MaxChunks = 2
INVARIANTS
  RefusedChangesNothing
  FilesHaveOwners
  CountsAddUp
  NoStrayDownload
PROPERTY
  RequestsEnd
CHECK_DEADLOCK FALSE
