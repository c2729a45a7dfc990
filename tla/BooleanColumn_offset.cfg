CONSTANTS
    None = None
    Offsets = {0, 3}
    MaxLength = 5
    MaxMarks = 2
    MaxExports = 1
SPECIFICATION Spec
INVARIANT ColumnKeepsElements
