SPECIFICATION Spec
CONSTANTS
  MaxTurns = 2
INVARIANTS
  OutputsAgree
  RowsArePaired
  PackageIsFresh
  ExportedFloorLoads
