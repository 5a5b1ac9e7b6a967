\* Strings of up to six characters, one of them the delimiter.
CONSTANTS
  Chars = {"a", "b", ","}
  Delim = ","
  MaxLength = 6
SPECIFICATION Spec
INVARIANTS
  SplitsExactly
\* The function returns.
CHECK_DEADLOCK FALSE
