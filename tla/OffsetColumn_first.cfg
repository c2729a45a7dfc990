\* TLC stops at the first violation: keep one invariant to see another.
CONSTANTS
    None = None
    Zero = Zero
    Items = {a, b}
    Kinds = {"string", "list"}
    NullItems = FALSE
    Firsts = {0, 2}
    MaxLength = 3
    MaxSize = 2
    MaxExports = 2
SPECIFICATION Spec
INVARIANTS
  ColumnKeepsElements
  ArrayKeepsElements
