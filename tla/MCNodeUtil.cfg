SPECIFICATION UtilSpec
CHECK_DEADLOCK FALSE
CONSTANTS
  Callers = {r1, r2}
  NoCaller = NoCaller
  MaxCalls = 2
  MaxChanges = 1
  Tasks <- MCTasks
  Texts <- MCTexts
  MaxStatuses = 2
  MaxStrayed = 1
  MaxLookups = 2
  Roles = {"master", "agent", "other"}
  ValidRoles = {"master", "agent", "agent_public"}
  Strings = {"", "there", "missing"}
  Files = {"there"}
  Timeouts <- MCTimeouts
  MaxOptions = 3
INVARIANTS
  AnswerWasCurrent
  CanonicalTask
  TaskNeverLost
  NeverUnusable
PROPERTIES
  CallReturns
