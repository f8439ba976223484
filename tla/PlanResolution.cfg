SPECIFICATION PlanSpec
CONSTANTS
  Absent = Absent
  Files <- MCFiles
  ConfigEdits <- MCConfigEdits
  StationEdits <- MCStationEdits
  Newcomers <- MCNewcomers
  MaxEdits = 2
INVARIANTS PlanIsSound NothingVanishes OverridesWin ChainFits
PROPERTIES StationsIndependent
CHECK_DEADLOCK FALSE
