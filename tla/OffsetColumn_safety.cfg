CONSTANTS
    None = None
    Zero = Zero
    Items = {a, b}
    Kinds = {"string", "list"}
    NullItems = FALSE
    Firsts = {0}
    MaxLength = 4
    MaxSize = 2
    MaxExports = 2
SPECIFICATION Spec
INVARIANTS ColumnKeepsElements ArrayKeepsElements
