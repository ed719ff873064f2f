CONSTANTS
  ComplaintIDs = {c1, c2}
  TeamIDs = {t1, t2}
  ZoneIDs = {z1, z2}
  RuleIDs = {o1}
  RectificationIDs = {f1}
  PanelIDs = {p1}
  Districts = {d1, d2}
  AssessorIDs = {a1, a2, a3}
  Capacities = {2}
  Counts = {1, 2}
  Kinds = {football}
  Allowed = {football}
  RuleKinds <- Untidy
  Times <- Minutes
  Openings <- Misstated
  Rosters <- Twice
  Intakes <- Filled
  None = None
SPECIFICATION Spec
CONSTRAINT Explored
SYMMETRY Interchangeable
INVARIANTS TypeOK TeamLedger EventsTellTheStory AcceptedIsPrepared NeverOversold
