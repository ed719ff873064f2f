SPECIFICATION Spec
CONSTANTS
  d1 = d1
  d2 = d2
  Refs = {r1}
  Clients = {c1}
  Admins = {a1, a2}
  Departments <- MCDepartments
  RuleForms <- BothForms
  Subjects <- MCSubjects
  Edits <- OneEdit
  Ops <- AgentOps
  MaxEscalationLevel = 1
  DefaultDeadline = 1
  DeadlineExtension = 1
  MaxTime = 2
  MaxVersion = 2
  Cap <- CapOne
SYMMETRY Interchangeable
INVARIANTS
  RuleVersionsContiguous
  UniqueLead
  TypeOK
  RoutedByItsRule
  OneCurrentReferral
PROPERTIES
  HistoryKept
