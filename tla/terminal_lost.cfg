SPECIFICATION Spec
CONSTANTS
  d1 = d1
  d2 = d2
  Refs = {r1}
  Clients = {c1, c2}
  Admins = {a1}
  Departments <- MCDepartments
  RuleForms <- OneForm
  Subjects <- MCSubjects
  Edits <- OneEdit
  Ops <- AllOps
  MaxEscalationLevel = 2
  DefaultDeadline = 1
  DeadlineExtension = 1
  MaxTime = 3
  MaxVersion = 1
  Cap <- CapTwo
PROPERTIES
  TerminalIsFinal
