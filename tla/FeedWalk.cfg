\* A walk by pages of one or two rows while the rows change places.
SPECIFICATION Spec
CONSTANTS
  Items = {1, 2, 3}
  published <- Published
  Filters <- FourListings
  Limits = {1, 2}
  Contents <- AllRows
  Tables <- AllTables
  Start = Start
  None = None
INVARIANTS TypeOK SteadyListedOnce
PROPERTIES CursorAdvances WalkEnds
