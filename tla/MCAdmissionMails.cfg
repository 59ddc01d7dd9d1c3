SPECIFICATION AdmissionSpec
CONSTANTS
  Slots = {a1}
  Addresses = {address}
  Capacity = 4
  PartsPerToken = 1
  MonthlyLimit = 5
  MaxEvents = 2
  MaxTime = 5
  MaxMails = 2
CHECK_DEADLOCK FALSE
INVARIANTS
  MailedOncePerPeriod
