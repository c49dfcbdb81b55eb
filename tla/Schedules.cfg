SPECIFICATION Spec
CONSTANTS
  Rules <- MCRules
  Source <- MCSource
  Owner <- MCOwner
  Drafts <- MCDrafts
  Tasks = {"task"}
  FirstPolicy <- MCFirstPolicy
  Policies <- MCPolicies
  Conditions <- MCConditions
  DayLength = 2
  Dates <- MCDates
  Times <- MCTimes
  Springs <- MCSprings
  ClientIds <- MCClientIds
  MaxRevisions = 1
  MaxVersions = 2
  MaxActions = 1
INVARIANTS
  TypeOK
  LedgerAudits
  CollectionsAudit
  CapRefusalsFinal
  UnrevisedRulesPass
