\* With its time over and nothing under way, the admission part rests.
SPECIFICATION TenantSpec
CONSTANTS
  Requests = {a1, a2}
  Slots = {a1, a2}
  Persons = {b1, b2}
  Roles = {admin, developer}
  Admin = admin
  Developer = developer
  Projects = {default}
  Default = default
  Keys = {key}
  None = None
  Addresses = {address}
  Capacity = 2
  PartsPerToken = 2
  MonthlyLimit = 5
  MaxEvents = 2
  MaxTime = 6
  MaxMails = 0
  Services = {postgres}
  Postgres = postgres
  Boots = {a1, a2}
  LocalKeys = {b1, b2}
  NoFile = NoFile
SYMMETRY MCSymmetry
CHECK_DEADLOCK FALSE
INVARIANTS
  InviteAnswersHold
  RevokedKeyIsRefused
  AuditedRowsExist
  RateBound
  OvershootBounded
  CredentialsWork
PROPERTIES
  BlockedMeansBlocked
