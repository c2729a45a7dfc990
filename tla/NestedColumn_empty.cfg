CONSTANTS
    Nil = Nil
    Blank = Blank
    Scalars = {a, b}
    Layouts = {"fixed"}
    Picked = {}
    NullsInViews = FALSE
    MapFirsts = {0}
    FixedSize = 0
    MaxElements = 3
    MaxItems = 2
SPECIFICATION NestedSpec
INVARIANT NestedKeepsElements
CHECK_DEADLOCK FALSE
