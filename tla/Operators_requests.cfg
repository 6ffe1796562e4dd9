SPECIFICATION MCSpec
CONSTANTS
    Callers = {p, q}
    Sources = {s1, s2}
    TargetIds = {t1, t2}
    Colours = {"red", "blue"}
    NewColours = {"red", "blue"}
    Filters = {{"red"}}
    Borrowers = {b1, b2, b3}
    Resources = {r1, r2, r3}
    MaxLive = 2
    ChainLength = 2
    Tagged = {1, 2, 3}
    TaggedKey <- MCTaggedKey
    TagNames = {"x", "y"}
    TagValues = {1, 2}
    TagPatterns <- MCTagPatterns
    Specs = 4
    SpecOf <- MCSpecOf
    Members = {1, 2}
    MaxDecorations = 4
    Models = {1, 2, 3}
    MaxAsked = 2
    Properties = {"id", "order"}
    Values = {1, 2}
    Nesting = 4
SYMMETRY MCSymmetry
INVARIANTS
    RoutersFind
    ChainsInOrder
    VoteDecides
    ConstraintsHold
    IncludesOwn
    RelationInv
    PoolInv
    TagsFindBindings
    DecoratorsInherit
    SchemasDefined
PROPERTIES
    AloneKeepsContract
CHECK_DEADLOCK FALSE
