\* OpenOccurrencesAdmitted is violated: see the finding in README.md.
SPECIFICATION Spec
CONSTANTS
  Rules <- UserRules
  Source <- MCSource
  Owner <- UserOwner
  Drafts <- UserDrafts
  Tasks = {}
  FirstPolicy <- MCFirstPolicy
  Policies = {}
  Conditions <- PlentyOnly
  DayLength = 4
  Dates <- MCDates
  Times <- UserTimes
  Springs = {}
  ClientIds = {}
  MaxRevisions = 1
  MaxVersions = 1
  MaxActions = 0
INVARIANT OpenOccurrencesAdmitted
