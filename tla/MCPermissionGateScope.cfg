SPECIFICATION Spec
CONSTANTS
  None = None
  own = own
  old = old
  secret = secret
  outside = outside
  Paths <- MCPaths
  Escaping = {outside}
  NoRead = {secret}
  NoWrite = {secret}
  Existing = {old, secret}
  Hosts <- MCAskingHosts
  Calls <- MCCalls
  MaxConsents = 2
  MaxTasks = 2
INVARIANTS
  ApprovalCoversItsScope
