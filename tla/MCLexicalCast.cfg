SPECIFICATION Spec
CONSTANTS
    Strings <- MCStrings
    Documents <- MCDocuments
    Nodes <- MCNodes
    Ints <- MCInts
    Lower <- MCLower
    Default <- MCDefault
    MaxLoads = 2
    Throws = Throws
INVARIANTS RoundTrip NestedAgree FirstDefinition
CHECK_DEADLOCK FALSE
