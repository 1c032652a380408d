\* Four documents, three seconds; pages of one (the default) or two.
CONSTANTS
  DocIds = {d1, d2, d3, d4}
  AskSizes = {0, 2, 3}
  DefaultSize = 1
  MaxSize = 2
  MaxSecond = 3
SYMMETRY Symmetry
SPECIFICATION Spec
INVARIANTS TypeOK MissedOnlyWhenShifted RepeatedOnlyWhenShifted TotalMatchesItems
