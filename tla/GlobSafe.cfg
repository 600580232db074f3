SPECIFICATION FairSpec
CONSTANTS
    Letters = {"a", "b"}
    MaxPattern = 5
    MaxName = 4
    Char <- AllChar
    Patterns <- AllPatterns
    Names <- AllNames
CHECK_DEADLOCK FALSE
INVARIANTS ReadsInBounds Sound CompleteOnSimple
PROPERTY Terminates
