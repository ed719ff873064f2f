CONSTANTS
  ComplaintIDs = {c1, c2}
  PlanIDs = {p1, p2}
  AssessmentIDs = {a1}
  ScheduleIDs = {s1}
  ZoneIDs = {z1}
  Districts = {d1, d2}
  Keys = {k1}
  Intakes <- AllIntakes
  Reviewers = {r1}
  Workers = {w1}
  None = None
  MaxVersion = 3
  a1 = a1
  p1 = p1
  z1 = z1
SPECIFICATION Spec
SYMMETRY Interchangeable
INVARIANTS TypeOK OperationsAreWhole RecordsResolve
PROPERTIES KeysAreStable AcceptedAsRead
