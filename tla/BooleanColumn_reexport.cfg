CONSTANTS
    None = None
    Offsets = {0}
    MaxLength = 5
    MaxMarks = 2
    MaxExports = 2
SPECIFICATION Spec
INVARIANT ArrayKeepsValues
