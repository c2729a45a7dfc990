CONSTANTS
    None = None
    Zero = Zero
    Items = {a, b}
    Kinds = {"list"}
    NullItems = TRUE
    Firsts = {0}
    MaxLength = 3
    MaxSize = 2
    MaxExports = 1
SPECIFICATION Spec
INVARIANT ArrayKeepsElements
