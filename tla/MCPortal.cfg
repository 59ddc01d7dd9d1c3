SPECIFICATION PortalSpec
CONSTANTS
  Ids = {1, 2, 3}
  p1 = p1
  Projects = {p1, p2}
  ProjectOf <- MCProjectOf
  starter = starter
  growth = growth
  Plans = {starter, growth}
  RetentionDays <- MCRetentionDays
  Runs = {r1}
  BatchSize = 1
  MaxDay = 2
  MaxExits = 1
  Limit = 1
  NoTrace = NoTrace
  Refs = {f1, f2}
  CacheMax = 1
  ann = ann
  bob = bob
  Persons = {ann, bob}
  NoPerson = NoPerson
  annsOrg = annsOrg
  bobsOrg = bobsOrg
  devOrg = devOrg
  OrgOf <- MCOrgOf
  Default = Default
  NoOrg = NoOrg
  MaxLinks = 2
SYMMETRY MCSymmetry
INVARIANTS
  PagingIsExact
  DetailIsWhole
  PayloadsAreShown
  PagesAreLinked
