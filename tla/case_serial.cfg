SPECIFICATION SerialSpec
CONSTANTS
  d1 = d1
  d2 = d2
  Refs = {r1}
  Clients = {c1}
  Admins = {a1}
  Departments <- MCDepartments
  RuleForms <- BothForms
  Subjects <- MCSubjects
  Edits <- MCEdits
  Ops <- AllOps
  MaxEscalationLevel = 2
  DefaultDeadline = 1
  DeadlineExtension = 1
  MaxTime = 4
  MaxVersion = 2
  Cap <- CapTwo
INVARIANTS
  TablesAgree
PROPERTIES
  ImplementsLifecycle
