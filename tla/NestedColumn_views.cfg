CONSTANTS
    Nil = Nil
    Blank = Blank
    Scalars = {a, b}
    Layouts = {"view"}
    Picked = {}
    NullsInViews = TRUE
    MapFirsts = {0}
    FixedSize = 2
    MaxElements = 3
    MaxItems = 2
SPECIFICATION NestedSpec
INVARIANT NestedKeepsElements
CHECK_DEADLOCK FALSE
