\* A stalled job is delivered twice at most, so two workers are all that can
\* hold it.  The fields of an archive hold lengths below 300 instead of 2^32.
SPECIFICATION WorkerSpec
CONSTANTS
  Exports = {x1}
  Traces = {t1, t2}
  Workers = {w1, w2}
  NoWorker = NoWorker
  NoExport = NoExport
  NoFilter = NoFilter
  NoManifest = NoManifest
  NoArchive = NoArchive
  t1 = t1
  t2 = t2
  Filters <- MCFilters
  TakeLimit = 1
  Ids = {1, 2}
  starter = starter
  growth = growth
  Plans = {starter, growth}
  RetentionDays <- MCRetentionDays
  Runs = {r1, r2}
  BatchSize = 1
  MaxDay = 3
  MaxExits = 1
  empty = empty
  small = small
  large = large
  Paths <- MCPaths
  NameLength <- MCNameLength
  Bodies = {empty, small, large}
  BodyLength <- MCBodyLength
  Wide = 300
  Narrow = 30
CHECK_DEADLOCK FALSE
INVARIANTS
  HashNamesArchive
  ArchiveIsComplete
  TicketIsNotAhead
  ZipIsReadable
PROPERTIES
  ImplementsExportRows
  OnlyExpiredIsDeleted
  ExportsSettle
  ExpiredIsDeleted
