SPECIFICATION DecoratorSpec
CONSTANTS
    Specs = 3
    SpecOf <- MCSpecOf
    Members = {1, 2}
    MaxDecorations = 3
INVARIANT SpecsMergeIntoInherited
CHECK_DEADLOCK FALSE
