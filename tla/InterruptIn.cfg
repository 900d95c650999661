SPECIFICATION MCSpec
CONSTANTS
  Keys = {1, 2, 3}
  Modifiers = {4}
  Slots = 2
  Deviations = {}
INVARIANTS TypeOK ErrorsToldOnce
PROPERTIES LastReportArrives LinesArrive
