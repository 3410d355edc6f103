SPECIFICATION MCSpec
CONSTANTS
  Extracted <- MCExtracted
  Areas <- MCAreas
  Selections <- MCSelections
  MaxCalls = 2
  Measurements <- MCMeasurements
  Packages <- MCPackages
  Layouts <- MCLayouts
  MaxDistance = 4
  Modelled = {"M1", "M2", "M3"}
  Substrate = "vss"
  Well = "vdd"
INVARIANTS
  LibraryIsMeasured
  ConstraintIsTight
  WhatTouchesMeets
  TotalsAreTheLayouts
  ViewsAreTheDesign
CHECK_DEADLOCK FALSE
