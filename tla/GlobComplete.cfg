SPECIFICATION Spec
CONSTANTS
    Letters = {"a"}
    MaxPattern = 4
    MaxName = 5
    Char <- AllChar
    Patterns <- AllPatterns
    Names <- AllNames
CHECK_DEADLOCK FALSE
INVARIANT Complete
