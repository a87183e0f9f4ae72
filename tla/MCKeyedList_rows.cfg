SPECIFICATION ListSpec
CONSTANTS
  Key = {"a", "b", "c", "d"}
  Editions = {1, 2}
  MaxLength = 4
  Twofold = {"a"}
  MaxFailures = 1
INVARIANTS
  RegionFollowsTheList
  DepartedRowsAreReleased
PROPERTIES
  RowsMoveLeast
