CONSTANTS
    Nil = Nil
    Blank = Blank
    Scalars = {a, b}
    Layouts = {"map", "view", "runs", "fixed", "struct", "dictionary"}
    Picked = {"view", "struct", "dictionary"}
    NullsInViews = FALSE
    MapFirsts = {0}
    FixedSize = 2
    MaxElements = 3
    MaxItems = 2
SPECIFICATION NestedSpec
INVARIANT NestedKeepsElements
CHECK_DEADLOCK FALSE
