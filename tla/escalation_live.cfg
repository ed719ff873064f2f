SPECIFICATION FairSpec
CONSTANTS
  d1 = d1
  d2 = d2
  Refs = {r1, r2}
  Clients = {c1}
  Admins = {a1}
  Departments <- MCDepartments
  RuleForms <- OneForm
  Subjects <- MCSubjects
  Edits <- OneEdit
  Ops <- LiveOps
  MaxEscalationLevel = 2
  DefaultDeadline = 1
  DeadlineExtension = 1
  MaxTime = 4
  MaxVersion = 1
  Cap <- CapLive
PROPERTIES
  OverdueEscalates
