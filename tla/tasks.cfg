SPECIFICATION Spec
CONSTANTS
  Unparsable = Unparsable
  Tasks = {"escalation"}
  Files <- MCFiles
  Envs <- MCEnvs
INVARIANTS RecordedWithinTimeout ClosedWhenIdle
PROPERTIES ReadyIsTrue StopReturns TaskEnds
