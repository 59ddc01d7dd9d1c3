SPECIFICATION ControlSpec
CONSTANTS
  Requests = {request}
  Persons = {administrator, invited}
  Roles = {admin, developer}
  Admin = admin
  Developer = developer
  Projects = {default}
  Default = default
  Keys = {key}
  None = None
INVARIANTS
  EntriesNameTheirAction
