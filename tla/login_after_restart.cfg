SPECIFICATION Spec
CONSTANTS
  Clients = {c1, c2}
  Tokens = {t1, t2}
  Names = {"admin", "reviewer"}
  long = long
  short = short
  Passwords = {long, short}
  LongPasswords = {long}
  Bootstraps <- MCBootstraps
  SessionTTL = 1
  MaxTime = 2
  NoHash = NoHash
  NoFile = NoFile
  Nobody = Nobody
SYMMETRY Interchangeable
INVARIANT HashIsStored
