CONSTANTS
    Nil = Nil
    Blank = Blank
    Scalars = {a, b}
    Layouts = {"map"}
    Picked = {}
    NullsInViews = FALSE
    MapFirsts = {0, 2}
    FixedSize = 2
    MaxElements = 3
    MaxItems = 2
SPECIFICATION NestedSpec
INVARIANT NestedKeepsElements
CHECK_DEADLOCK FALSE
