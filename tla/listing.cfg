SPECIFICATION Spec
CONSTANTS
  Cap = 2
  DefaultPage = 1
  Asked = {0, 5}
  Zones = {"Z", "+"}
  ZoneShift = 1
  Windows <- MCWindows
  MaxRows = 4
  MaxMoves = 2
  Instants = {0, 3, 4, 9}
INVARIANTS WalkAccountsForMoves ExportFollowsTheClock
