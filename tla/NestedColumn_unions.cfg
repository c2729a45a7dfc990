CONSTANTS
    Nil = Nil
    Blank = Blank
    Scalars = {a, b}
    Layouts = {"map", "runs", "fixed"}
    Picked = {"map", "runs", "fixed"}
    NullsInViews = FALSE
    MapFirsts = {0}
    FixedSize = 2
    MaxElements = 3
    MaxItems = 2
SPECIFICATION NestedSpec
INVARIANT NestedKeepsElements
CHECK_DEADLOCK FALSE
