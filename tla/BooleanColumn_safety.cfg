CONSTANTS
    None = None
    Offsets = {0}
    MaxLength = 17
    MaxMarks = 2
    MaxExports = 2
SPECIFICATION Spec
INVARIANTS EncoderInv ColumnKeepsElements ArrayKeepsNulls
